-------------------------- MODULE TaskIntakeProofs --------------------------
(***************************************************************************)
(* Machine-checked proofs about TaskIntake, for any number of intakes, any *)
(* names, and files of any length.                                         *)
(***************************************************************************)
EXTENDS TaskIntake, SequenceTheorems, TLAPS

-----------------------------------------------------------------------------
(* The inductive invariant *)

Contents == Seq(Intakes \cup {Hole})

\* The values the variables range over.
TypeOK ==
  /\ name \in [Intakes -> Names] /\ inside \subseteq Intakes /\ lost \subseteq Intakes
  /\ pc \in [Intakes -> {"begin", "open", "copy", "redis", "done", "failed", "dead"}]
  /\ file \in [Intakes -> Files] /\ off \in [Intakes -> Nat] /\ left \in [Intakes -> Nat]
  /\ stored \in [Files \X Names -> Contents \cup {None}]
  /\ rpc \in {"begin", "scan", "data", "model", "sent", "failed", "crashed"}
  /\ taskId \in {"", "13666"}
  /\ pick \in [Files -> Names \cup {None}] /\ sent \in [Files -> Contents]
  /\ overlap \in BOOLEAN /\ last \in Intakes \cup {None}

\* The names under which the task's directory has files.
There(f) == {n \in Names : stored[<<f, n>>] # None}

\* The files an intake has opened are there, and are when the id is entered and found.
OpenedInv(i) ==
  /\ pc[i] = "begin" => file[i] = "model"
  /\ pc[i] = "copy" => stored[Dest(i)] # None
  /\ Copying(i) /\ file[i] = "data" => stored[<<"model", name[i]>>] # None
  /\ pc[i] = "redis" => file[i] = "data" /\ stored[<<"data", name[i]>>] # None

FilesInv ==
  /\ \A i \in Intakes : OpenedInv(i)
  /\ "13666" \in taskid => \A f \in Files : There(f) # {}
  /\ taskId = "13666" => "13666" \in taskid
  /\ rpc = "begin" => taskId = "" /\ \A f \in Files : pick[f] = None
  /\ TaskHasItsFiles
  /\ \A f \in Files : pick[f] # None => Content(f, pick[f]) # None

\* Files have the names that intakes have brought, and nothing is read before the scan.
NamesInv ==
  /\ \A f \in Files, n \in Names :
       stored[<<f, n>>] # None => \E j \in Intakes : pc[j] # "begin" /\ n = name[j]
  /\ rpc \in {"begin", "scan"} => \A f \in Files : sent[f] = <<>>

\* Without an overlap one program at a time is at work on the directory: until ClientSyn
\* begins, the last intake; and when ClientSyn has found the id, that one has come to an end.
Alone ==
  /\ \A i, j \in Intakes : Copying(i) /\ Copying(j) => i = j
  /\ Reading => \A i \in Intakes : ~Copying(i)
  /\ rpc = "begin" => \A i \in Intakes : Copying(i) => i = last
  /\ \A i \in Intakes : i = last => pc[i] # "begin" /\ (taskId = "13666" => ~Copying(i))

\* The first k chunks of the user's file of intake i.
Part(i, k) == [x \in 1..k |-> i]

\* Both files are whole and of intake i.
TaskOf(i) == \A f \in Files : stored[<<f, name[i]>>] = Whole(i)

\* How far intake i is with its two files.
Progress(i) ==
  /\ pc[i] = "copy" => off[i] + left[i] = Chunks /\ stored[Dest(i)] = Part(i, off[i])
  /\ file[i] = "data" => stored[<<"model", name[i]>>] = Whole(i)
  /\ pc[i] = "redis" => stored[<<"data", name[i]>>] = Whole(i)

\* What ClientSyn has read is the beginning of the files of intake i.
ReadFrom(i) ==
  /\ \A f \in Files : /\ stored[<<f, pick[f]>>] = Whole(i)
                      /\ \E k \in 0..Chunks : sent[f] = Part(i, k)
  /\ rpc = "model" => sent["data"] = Whole(i)

\* What Complete asks of an intake that is still at work.
Kept(i) ==
  /\ i \notin inside \cup lost
  /\ \A j \in Intakes : pc[j] # "begin" => name[j] = name[i]

\* What the last intake has brought into the directory, and ClientSyn has read of it.
LastInv(i) ==
  /\ rpc = "begin" \/ Reading =>
       /\ Copying(i) => Progress(i)
       /\ pc[i] = "done" => TaskOf(i)
  /\ pc[i] = "done" /\ taskId = "13666" =>
       /\ rpc \in {"data", "model"} => ReadFrom(i)
       /\ rpc = "sent" => \A f \in Files : sent[f] = Whole(i)

IInv ==
  /\ TypeOK /\ FilesInv /\ NamesInv
  /\ overlap \/ (Alone /\ \A i \in Intakes : i = last /\ Kept(i) => LastInv(i))

-----------------------------------------------------------------------------
(* Chunks *)

\* A chunk written at or past the end of a file, or over one of its chunks.
LEMMA PutChunk ==
  ASSUME NEW s \in Contents, NEW n \in Nat, NEW i \in Intakes
  PROVE  Put(s, n, i) \in Contents
  <1> DEFINE m == IF n > Len(s) THEN n ELSE Len(s)
  <1>1. Len(s) \in Nat /\ \A k \in 1..Len(s) : s[k] \in Intakes \cup {Hole}
    BY LenProperties, ElementOfSeq DEF Contents
  <1>2. m \in Nat
    BY <1>1
  <1>3. ASSUME NEW k \in 1..m
        PROVE  (IF k = n THEN i ELSE IF k <= Len(s) THEN s[k] ELSE Hole) \in Intakes \cup {Hole}
    <2>1. k <= Len(s) => k \in 1..Len(s)
      BY <1>1, <1>2
    <2>. QED  BY <1>1, <2>1
  <1> HIDE DEF m
  <1>4. [k \in 1..m |-> IF k = n THEN i ELSE IF k <= Len(s) THEN s[k] ELSE Hole]
          \in [1..m -> Intakes \cup {Hole}]
    BY <1>3
  <1>5. [1..m -> Intakes \cup {Hole}] \subseteq Contents
    BY <1>2, SeqDef DEF Contents
  <1>. QED  BY <1>4, <1>5 DEF Put, m

\* The chunks an intake has written make up a file, and one more makes a longer one.
LEMMA PartGrows ==
  ASSUME NEW i \in Intakes, NEW k \in Nat
  PROVE  /\ Part(i, k) \in Contents /\ Len(Part(i, k)) = k
         /\ Put(Part(i, k), k + 1, i) = Part(i, k + 1)
         /\ Append(Part(i, k), i) = Part(i, k + 1)
         /\ Part(i, 0) = <<>>
  <1>1. ASSUME NEW n \in Nat
        PROVE  /\ Part(i, n) \in Contents /\ Len(Part(i, n)) = n
               /\ \A x \in 1..n : Part(i, n)[x] = i
    <2>1. Part(i, n) \in [1..n -> Intakes \cup {Hole}]
      BY DEF Part
    <2>2. Part(i, n) \in Contents
      BY <2>1, SeqDef DEF Contents
    <2>3. DOMAIN Part(i, n) = 1..n /\ DOMAIN Part(i, n) = 1..Len(Part(i, n)) /\ Len(Part(i, n)) \in Nat
      BY <2>1, <2>2, LenProperties DEF Contents
    <2>4. Len(Part(i, n)) = n
      BY <2>3
    <2>. QED  BY <2>2, <2>4 DEF Part
  <1>2. Put(Part(i, k), k + 1, i) = Part(i, k + 1)
    <2>1. (IF k + 1 > Len(Part(i, k)) THEN k + 1 ELSE Len(Part(i, k))) = k + 1
      BY <1>1
    <2>2. \A x \in 1..(k + 1) : x = k + 1 \/ (x <= Len(Part(i, k)) /\ x \in 1..k)
      BY <1>1
    <2>3. \A x \in 1..(k + 1) :
            (IF x = k + 1 THEN i ELSE IF x <= Len(Part(i, k)) THEN Part(i, k)[x] ELSE Hole) = i
      BY <1>1, <2>2
    <2>. QED  BY <2>1, <2>3 DEF Put, Part
  <1>3. Append(Part(i, k), i) = Part(i, k + 1)
    <2>1. /\ Append(Part(i, k), i) \in Contents /\ Len(Append(Part(i, k), i)) = k + 1
          /\ Append(Part(i, k), i)[k + 1] = i
          /\ \A x \in 1..k : Append(Part(i, k), i)[x] = Part(i, k)[x]
      BY <1>1, AppendProperties DEF Contents
    <2>2. \A x \in 1..(k + 1) : x = k + 1 \/ x \in 1..k
      OBVIOUS
    <2>3. \A x \in 1..(k + 1) : Append(Part(i, k), i)[x] = Part(i, k + 1)[x]
      BY <1>1, <2>1, <2>2
    <2>. QED  BY <1>1, <2>1, <2>3, SeqEqual DEF Contents
  <1>4. Part(i, 0) = <<>>
    BY <1>1, EmptySeq DEF Contents
  <1>. QED  BY <1>1, <1>2, <1>3, <1>4

-----------------------------------------------------------------------------
(* Types and files that are there *)

LEMMA TypeInit == Init => TypeOK
  <1> SUFFICES ASSUME Init PROVE TypeOK
    OBVIOUS
  <1>1. <<>> \in Contents
    BY EmptySeq DEF Contents
  <1>2. /\ name \in [Intakes -> Names] /\ inside \subseteq Intakes /\ lost \subseteq Intakes
        /\ pc \in [Intakes -> {"begin", "open", "copy", "redis", "done", "failed", "dead"}]
        /\ file \in [Intakes -> Files] /\ off \in [Intakes -> Nat] /\ left \in [Intakes -> Nat]
    BY DEF Init, Files
  <1>3. /\ stored \in [Files \X Names -> Contents \cup {None}]
        /\ rpc \in {"begin", "scan", "data", "model", "sent", "failed", "crashed"}
        /\ taskId \in {"", "13666"}
        /\ pick \in [Files -> Names \cup {None}] /\ sent \in [Files -> Contents]
        /\ overlap \in BOOLEAN /\ last \in Intakes \cup {None}
    BY <1>1 DEF Init
  <1>. QED  BY <1>2, <1>3 DEF TypeOK

\* What an intake does to its own state, and to the directory.
LEMMA IntakeNext ==
  ASSUME TypeOK, FilesInv, NEW i \in Intakes,
         \/ Begin(i) \/ OpenFails(i) \/ Open(i) \/ CopyChunk(i) \/ WriteFails(i)
         \/ CloseCopy(i) \/ EnterId(i) \/ Die(i)
  PROVE  TypeOK'
  <1> USE IntakeAssumption
  <1>0. <<file[i], name[i]>> \in Files \X Names
    BY DEF TypeOK
  <1>1. CASE Begin(i) \/ OpenFails(i) \/ Die(i) \/ EnterId(i)
    <2>1. pc' \in [Intakes -> {"begin", "open", "copy", "redis", "done", "failed", "dead"}]
      BY <1>1 DEF Begin, OpenFails, Die, EnterId, TypeOK
    <2>2. overlap' \in BOOLEAN /\ last' \in Intakes \cup {None}
      BY <1>1 DEF Begin, OpenFails, Die, EnterId, TypeOK, Reading, Copying, history
    <2>. QED  BY <1>1, <2>1, <2>2 DEF Begin, OpenFails, Die, EnterId, readVars, history, TypeOK
  <1>2. CASE Open(i)
    <2>1. <<>> \in Contents
      BY EmptySeq DEF Contents
    <2>2. stored' \in [Files \X Names -> Contents \cup {None}]
      BY <1>0, <1>2, <2>1 DEF Open, Dest, TypeOK
    <2>3. off' \in [Intakes -> Nat] /\ left' \in [Intakes -> Nat]
      BY <1>2 DEF Open, TypeOK
    <2>4. pc' \in [Intakes -> {"begin", "open", "copy", "redis", "done", "failed", "dead"}]
      BY <1>2 DEF Open, TypeOK
    <2>. QED  BY <1>2, <2>2, <2>3, <2>4 DEF Open, readVars, history, TypeOK
  <1>3. CASE CopyChunk(i)
    <2>1. off[i] + 1 \in Nat /\ left[i] - 1 \in Nat
      <3>1. off[i] \in Nat /\ left[i] \in Nat /\ left[i] > 0
        BY <1>3 DEF CopyChunk, TypeOK
      <3>. QED  BY <3>1
    <2>2. off' \in [Intakes -> Nat] /\ left' \in [Intakes -> Nat]
      BY <1>3, <2>1 DEF CopyChunk, TypeOK
    <2>3. stored[Dest(i)] \in Contents
      BY <1>0, <1>3 DEF CopyChunk, FilesInv, OpenedInv, Dest, TypeOK
    <2>4. Put(stored[Dest(i)], off[i] + 1, i) \in Contents
      BY <2>1, <2>3, PutChunk
    <2>5. stored' \in [Files \X Names -> Contents \cup {None}]
      BY <1>0, <1>3, <2>4 DEF CopyChunk, Dest, TypeOK
    <2>. QED  BY <1>3, <2>2, <2>5 DEF CopyChunk, readVars, history, TypeOK
  <1>4. CASE WriteFails(i)
    BY <1>4 DEF WriteFails, readVars, history, TypeOK
  <1>5. CASE CloseCopy(i)
    <2>1. pc' \in [Intakes -> {"begin", "open", "copy", "redis", "done", "failed", "dead"}]
      BY <1>5 DEF CloseCopy, TypeOK
    <2>2. file' \in [Intakes -> Files]
      BY <1>5 DEF CloseCopy, Files, TypeOK
    <2>. QED  BY <1>5, <2>1, <2>2 DEF CloseCopy, readVars, history, TypeOK
  <1>. QED  BY <1>1, <1>2, <1>3, <1>4, <1>5

\* What lies in a directory that ClientSyn reads is a file.
LEMMA ContentType ==
  ASSUME TypeOK, NEW f \in Files, NEW n \in Names
  PROVE  Content(f, n) \in Contents \cup {None}
  <1>1. <<Hole>> \in Contents
    BY DEF Contents
  <1>2. stored[<<f, n>>] \in Contents \cup {None}
    BY DEF TypeOK
  <1>. QED  BY <1>1, <1>2 DEF Content

LEMMA TypeNext == TypeOK /\ FilesInv /\ [Next]_vars => TypeOK'
  <1> SUFFICES ASSUME TypeOK, FilesInv, [Next]_vars PROVE TypeOK'
    OBVIOUS
  <1> USE IntakeAssumption
  <1>1. ASSUME TestEnters \/ TestPrints \/ TestFails PROVE TypeOK'
    BY <1>1 DEF TestEnters, TestPrints, TestFails, intakeVars, readVars, history, TypeOK
  <1>2. ASSUME FindTask PROVE TypeOK'
    <2>1. overlap' \in BOOLEAN
      BY <1>2 DEF FindTask, TypeOK, Copying
    <2>. QED  BY <1>2, <2>1 DEF FindTask, intakeVars, TypeOK
  <1>3. ASSUME Scan PROVE TypeOK'
    BY <1>3 DEF Scan, intakeVars, history, TypeOK
  <1>4. ASSUME NEW f \in Files, ReadChunk(f) PROVE TypeOK'
    <2>1. PICK k \in Nat : k = Len(sent[f]) + 1
      <3>1. sent[f] \in Contents
        BY DEF TypeOK
      <3>2. Len(sent[f]) \in Nat
        BY <3>1, LenProperties DEF Contents
      <3>. QED  BY <3>2
    <2>2. pick[f] \in Names /\ Content(f, pick[f]) \in Contents
      BY <1>4, ContentType DEF ReadChunk, AtEnd, FilesInv, TypeOK
    <2>3. k \in 1..Len(Content(f, pick[f]))
      <3>1. Len(Content(f, pick[f])) \in Nat /\ Len(sent[f]) \in Nat
        BY <2>2, LenProperties DEF TypeOK, Contents
      <3>2. ~(Len(sent[f]) >= Len(Content(f, pick[f])))
        BY <1>4 DEF ReadChunk, AtEnd
      <3>. QED  BY <2>1, <3>1, <3>2
    <2>4. Content(f, pick[f])[k] \in Intakes \cup {Hole}
      BY <2>2, <2>3, ElementOfSeq DEF Contents
    <2>5. Append(sent[f], Content(f, pick[f])[k]) \in Contents
      BY <2>4, AppendProperties DEF TypeOK, Contents
    <2>6. sent' \in [Files -> Contents]
      BY <1>4, <2>1, <2>5 DEF ReadChunk, TypeOK
    <2>. QED  BY <1>4, <2>6 DEF ReadChunk, intakeVars, history, TypeOK
  <1>5. ASSUME NEW f \in Files, EndFile(f) PROVE TypeOK'
    BY <1>5 DEF EndFile, intakeVars, history, TypeOK
  <1>6. CASE UNCHANGED vars
    BY <1>6 DEF vars, intakeVars, readVars, history, TypeOK
  <1>. QED  BY <1>1, <1>2, <1>3, <1>4, <1>5, <1>6, IntakeNext DEF Next

\* No step takes a file away, and a file is there once it is open.
LEMMA FilesStay ==
  ASSUME TypeOK, FilesInv, [Next]_vars
  PROVE  /\ name' = name /\ inside' = inside
         /\ \A f \in Files, n \in Names : stored[<<f, n>>] # None => stored'[<<f, n>>] # None
         /\ \A f \in Files : There(f) # {} => There(f)' # {}
         /\ \A i \in Intakes : Open(i) => stored'[Dest(i)] # None
  <1> USE IntakeAssumption
  <1>1. name' = name /\ inside' = inside
    BY DEF Next, Begin, OpenFails, Open, CopyChunk, WriteFails, CloseCopy, EnterId, Die, TestEnters,
           TestPrints, TestFails, FindTask, Scan, ReadChunk, EndFile, vars
  <1>2. \A x \in Contents : x # None
    BY DEF Contents
  <1>3. ASSUME NEW i \in Intakes, Open(i)
        PROVE  /\ stored'[Dest(i)] # None
               /\ \A f \in Files, n \in Names : stored[<<f, n>>] # None => stored'[<<f, n>>] # None
    <2>1. <<>> # None
      BY <1>2, EmptySeq DEF Contents
    <2>2. Dest(i) \in Files \X Names
      BY DEF Dest, TypeOK
    <2>3. /\ stored'[Dest(i)] = <<>>
          /\ \A p \in Files \X Names : p # Dest(i) => stored'[p] = stored[p]
      BY <1>3, <2>2 DEF Open, TypeOK
    <2>4. ASSUME NEW f \in Files, NEW n \in Names, stored[<<f, n>>] # None PROVE stored'[<<f, n>>] # None
      BY <2>1, <2>3, <2>4
    <2>. QED  BY <2>1, <2>3, <2>4
  <1>4. ASSUME NEW i \in Intakes, CopyChunk(i)
        PROVE  \A f \in Files, n \in Names : stored[<<f, n>>] # None => stored'[<<f, n>>] # None
    <2>1. Dest(i) \in Files \X Names /\ stored[Dest(i)] # None
      BY <1>4 DEF Dest, CopyChunk, FilesInv, OpenedInv, TypeOK
    <2>2. stored[Dest(i)] \in Contents /\ off[i] + 1 \in Nat
      <3>1. stored[Dest(i)] \in Contents /\ off[i] \in Nat
        BY <2>1 DEF TypeOK
      <3>. QED  BY <3>1
    <2>3. Put(stored[Dest(i)], off[i] + 1, i) # None
      BY <1>2, <2>2, PutChunk
    <2>4. /\ stored'[Dest(i)] # None
          /\ \A p \in Files \X Names : p # Dest(i) => stored'[p] = stored[p]
      BY <1>4, <2>1, <2>3 DEF CopyChunk, TypeOK
    <2>5. ASSUME NEW f \in Files, NEW n \in Names, stored[<<f, n>>] # None PROVE stored'[<<f, n>>] # None
      BY <2>4, <2>5
    <2>. QED  BY <2>5
  <1>5. UNCHANGED stored \/ \E i \in Intakes : Open(i) \/ CopyChunk(i)
    BY DEF Next, Begin, OpenFails, WriteFails, CloseCopy, EnterId, Die, TestEnters,
           TestPrints, TestFails, FindTask, Scan, ReadChunk, EndFile, vars
  <1>6. \A f \in Files, n \in Names : stored[<<f, n>>] # None => stored'[<<f, n>>] # None
    BY <1>3, <1>4, <1>5
  <1>7. \A f \in Files : There(f) # {} => There(f)' # {}
    BY <1>6 DEF There
  <1>. QED  BY <1>1, <1>3, <1>6, <1>7

\* Both files are there before the id is, and a file that was found stays.
LEMMA FilesNext == TypeOK /\ FilesInv /\ [Next]_vars => FilesInv'
  <1> SUFFICES ASSUME TypeOK, FilesInv, [Next]_vars PROVE FilesInv'
    OBVIOUS
  <1> USE IntakeAssumption
  <1>1. /\ name' = name
        /\ \A f \in Files, n \in Names : stored[<<f, n>>] # None => stored'[<<f, n>>] # None
        /\ \A f \in Files : There(f) # {} => There(f)' # {}
        /\ \A i \in Intakes : Open(i) => stored'[Dest(i)] # None
    BY FilesStay
  <1>2. "model" \in Files /\ "data" \in Files
    BY DEF Files
  <1>3. ASSUME NEW i \in Intakes, pc'[i] = pc[i], file'[i] = file[i] PROVE OpenedInv(i)'
    <2>1. name[i] \in Names /\ file[i] \in Files /\ OpenedInv(i)
      BY DEF FilesInv, TypeOK
    <2>. QED  BY <1>1, <1>2, <1>3, <2>1 DEF OpenedInv, Copying, Dest
  <1>4. ASSUME NEW i \in Intakes,
               \/ Begin(i) \/ OpenFails(i) \/ Open(i) \/ CopyChunk(i) \/ WriteFails(i)
               \/ CloseCopy(i) \/ EnterId(i) \/ Die(i)
        PROVE  FilesInv'
    <2>1. name[i] \in Names /\ file[i] \in Files /\ OpenedInv(i)
      BY DEF FilesInv, TypeOK
    <2>2. ASSUME NEW j \in Intakes, j # i PROVE pc'[j] = pc[j] /\ file'[j] = file[j]
      BY <1>4, <2>2 DEF Begin, OpenFails, Open, CopyChunk, WriteFails, CloseCopy, EnterId, Die, TypeOK
    <2>3. OpenedInv(i)'
      <3>1. CASE Begin(i)
        <4>1. pc'[i] = "open" /\ file'[i] = file[i]
          BY <3>1 DEF Begin, TypeOK
        <4>2. file[i] = "model"
          BY <2>1, <3>1 DEF OpenedInv, Begin
        <4>. QED  BY <4>1, <4>2 DEF OpenedInv, Copying
      <3>2. CASE OpenFails(i) \/ Die(i) \/ EnterId(i)
        <4>1. pc'[i] \in {"failed", "dead", "done"}
          BY <3>2 DEF OpenFails, Die, EnterId, TypeOK
        <4>. QED  BY <4>1 DEF OpenedInv, Copying
      <3>3. CASE Open(i)
        <4>1. pc[i] = "open" /\ pc'[i] = "copy" /\ file'[i] = file[i]
          BY <3>3 DEF Open, TypeOK
        <4>. QED  BY <1>1, <1>2, <2>1, <3>3, <4>1 DEF OpenedInv, Copying, Dest
      <3>4. CASE CopyChunk(i) \/ WriteFails(i)
        BY <1>3, <3>4 DEF CopyChunk, WriteFails
      <3>5. CASE CloseCopy(i)
        <4>1. /\ pc[i] = "copy" /\ file'[i] = "data" /\ UNCHANGED stored
              /\ pc'[i] = IF file[i] = "model" THEN "open" ELSE "redis"
          BY <3>5 DEF CloseCopy, TypeOK
        <4>2. stored[<<file[i], name[i]>>] # None /\ file[i] \in {"model", "data"}
          BY <2>1, <4>1 DEF OpenedInv, Dest, Files
        <4>3. stored[<<"model", name[i]>>] # None
          BY <2>1, <4>1, <4>2 DEF OpenedInv, Copying
        <4>. QED  BY <1>1, <4>1, <4>2, <4>3 DEF OpenedInv, Copying
      <3>. QED  BY <1>4, <3>1, <3>2, <3>3, <3>4, <3>5
    <2>4. \A j \in Intakes : OpenedInv(j)'
      BY <1>3, <2>2, <2>3
    <2>5. "13666" \in taskid' => \A f \in Files : There(f)' # {}
      <3>1. CASE taskid' = taskid
        BY <1>1, <3>1 DEF FilesInv
      <3>2. CASE EnterId(i)
        <4>1. pc[i] = "redis"
          BY <3>2 DEF EnterId
        <4>2. stored[<<"data", name[i]>>] # None /\ stored[<<"model", name[i]>>] # None
          BY <2>1, <4>1 DEF OpenedInv, Copying
        <4>3. \A f \in Files : There(f) # {}
          BY <2>1, <4>2 DEF There, Files
        <4>. QED  BY <1>1, <4>3
      <3>. QED
        BY <1>4, <3>1, <3>2 DEF Begin, OpenFails, Open, CopyChunk, WriteFails, CloseCopy, Die, dbVars
    <2>6. UNCHANGED readVars /\ taskid \subseteq taskid'
      BY <1>4 DEF Begin, OpenFails, Open, CopyChunk, WriteFails, CloseCopy, EnterId, Die, dbVars
    <2>7. \A f \in Files : pick[f] # None => Content(f, pick[f])' # None
      BY <1>1, <2>6 DEF FilesInv, TypeOK, Content, readVars
    <2>. QED  BY <2>4, <2>5, <2>6, <2>7 DEF FilesInv, TaskHasItsFiles, readVars
  <1>5. ASSUME UNCHANGED <<intakeVars, stored>>,
               "13666" \in taskid' <=> "13666" \in taskid,
               taskId' = "13666" => "13666" \in taskid,
               rpc' = "begin" => taskId' = "" /\ \A f \in Files : pick'[f] = None,
               TaskHasItsFiles',
               \A f \in Files : pick'[f] # None => Content(f, pick[f])' # None
        PROVE  FilesInv'
    <2>1. \A i \in Intakes : OpenedInv(i)'
      BY <1>3, <1>5 DEF intakeVars
    <2>. QED  BY <1>1, <1>5, <2>1 DEF FilesInv
  <1>6. ASSUME TestEnters \/ TestPrints \/ TestFails PROVE FilesInv'
    <2>1. UNCHANGED <<intakeVars, stored, readVars>> /\ ("13666" \in taskid' <=> "13666" \in taskid)
      BY <1>6 DEF TestEnters, TestPrints, TestFails
    <2>. QED  BY <1>5, <2>1 DEF readVars, FilesInv, TaskHasItsFiles, Content
  <1>7. ASSUME FindTask PROVE FilesInv'
    <2>1. UNCHANGED <<intakeVars, stored, dbVars, pick>> /\ rpc' \in {"scan", "crashed", "failed"}
      BY <1>7 DEF FindTask
    <2>2. taskId' = "13666" => "13666" \in taskid
      BY <1>7 DEF FindTask, Last, FilesInv
    <2>3. \A f \in Files : pick'[f] = None
      BY <1>7, <2>1 DEF FindTask, FilesInv
    <2>. QED  BY <1>5, <2>1, <2>2, <2>3 DEF dbVars, FilesInv, TaskHasItsFiles
  <1>8. ASSUME Scan PROVE FilesInv'
    <2>1. /\ UNCHANGED <<intakeVars, stored, dbVars, taskId>> /\ rpc' = "data"
          /\ \A f \in Files : IF Present(f) = {} THEN pick'[f] = None ELSE pick'[f] \in Present(f)
      BY <1>8 DEF Scan
    <2>2. \A f \in Files : pick'[f] # None => Content(f, pick[f])' # None
      BY <2>1 DEF Present, Content
    <2>3. taskId = "13666" => \A f \in Files : pick'[f] # None
      BY <2>1 DEF FilesInv, There, Present, Content
    <2>. QED  BY <1>5, <2>1, <2>2, <2>3 DEF dbVars, FilesInv, TaskHasItsFiles
  <1>9. ASSUME NEW f \in Files, ReadChunk(f) \/ EndFile(f) PROVE FilesInv'
    <2>1. /\ UNCHANGED <<intakeVars, stored, dbVars, taskId, pick>> /\ rpc = f
          /\ rpc' \in {rpc, "model", "sent"}
      BY <1>9 DEF ReadChunk, EndFile
    <2>2. rpc \in {"data", "model"}
      BY <2>1 DEF Files
    <2>. QED  BY <1>5, <2>1, <2>2 DEF dbVars, FilesInv, TaskHasItsFiles, Content
  <1>10. CASE UNCHANGED vars
    BY <1>5, <1>10 DEF vars, dbVars, readVars, FilesInv, TaskHasItsFiles, Content
  <1>. QED  BY <1>4, <1>6, <1>7, <1>8, <1>9, <1>10 DEF Next

-----------------------------------------------------------------------------
(* One program at a time *)

\* Intakes begin and end to copy, and ClientSyn begins and ends to read.
LEMMA AtWork ==
  ASSUME TypeOK, [Next]_vars
  PROVE  /\ overlap => overlap'
         /\ \A i \in Intakes : Copying(i)' => Copying(i) \/ Begin(i)
         /\ Reading' => Reading \/ FindTask
         /\ \A i \in Intakes : Begin(i) => \A j \in Intakes : j # i => pc'[j] = pc[j]
         /\ FindTask => UNCHANGED pc
         /\ \A i \in Intakes : Begin(i) => UNCHANGED <<rpc, taskId>>
  <1>1. ASSUME NEW i \in Intakes,
               \/ Begin(i) \/ OpenFails(i) \/ Open(i) \/ CopyChunk(i) \/ WriteFails(i)
               \/ CloseCopy(i) \/ EnterId(i) \/ Die(i)
        PROVE  /\ overlap => overlap'
               /\ \A j \in Intakes : Copying(j)' => Copying(j) \/ Begin(j)
               /\ UNCHANGED <<rpc, taskId>>
    <2>1. \A j \in Intakes : j # i => pc'[j] = pc[j]
      BY <1>1 DEF Begin, OpenFails, Open, CopyChunk, WriteFails, CloseCopy, EnterId, Die, TypeOK
    <2>2. Copying(i)' => Copying(i) \/ Begin(i)
      <3>1. Begin(i) \/ Copying(i) \/ UNCHANGED pc
        BY <1>1 DEF OpenFails, Open, CopyChunk, WriteFails, CloseCopy, EnterId, Die, Copying
      <3>. QED  BY <3>1 DEF Copying
    <2>3. UNCHANGED <<rpc, taskId>>
      BY <1>1 DEF Begin, OpenFails, Open, CopyChunk, WriteFails, CloseCopy, EnterId, Die, readVars
    <2>4. UNCHANGED overlap \/ Begin(i)
      BY <1>1 DEF OpenFails, Open, CopyChunk, WriteFails, CloseCopy, EnterId, Die, history
    <2>5. overlap => overlap'
      BY <2>4 DEF Begin
    <2>. QED  BY <2>1, <2>2, <2>3, <2>5 DEF Copying
  <1>2. ASSUME \/ TestEnters \/ TestPrints \/ TestFails \/ Scan \/ UNCHANGED vars
               \/ \E f \in Files : ReadChunk(f) \/ EndFile(f)
        PROVE  (overlap => overlap') /\ UNCHANGED pc /\ (Reading' => Reading)
    <2>1. UNCHANGED overlap /\ UNCHANGED pc
      BY <1>2 DEF TestEnters, TestPrints, TestFails, Scan, ReadChunk, EndFile, vars, intakeVars, history
    <2>2. Reading' => Reading
      BY <1>2 DEF TestEnters, TestPrints, TestFails, Scan, ReadChunk, EndFile, vars, readVars, Reading,
                  Files
    <2>. QED  BY <2>1, <2>2
  <1>3. ASSUME FindTask PROVE (overlap => overlap') /\ UNCHANGED pc
    <2>1. overlap' = (overlap \/ \E i \in Intakes : Copying(i)) \/ overlap' = overlap
      BY <1>3 DEF FindTask
    <2>2. UNCHANGED pc
      BY <1>3 DEF FindTask, intakeVars
    <2>. QED  BY <2>1, <2>2 DEF TypeOK
  <1>4. \A i \in Intakes : Begin(i) => \A j \in Intakes : j # i => pc'[j] = pc[j]
    BY DEF Begin, TypeOK
  <1>5. \A i \in Intakes : Copying(i)' /\ UNCHANGED pc => Copying(i)
    BY DEF Copying
  <1>6. UNCHANGED <<rpc, taskId>> /\ Reading' => Reading
    BY DEF Reading
  <1>. QED  BY <1>1, <1>2, <1>3, <1>4, <1>5, <1>6 DEF Next

\* An intake that begins before ClientSyn is the last one; nothing else changes which it is.
LEMMA LastNext ==
  ASSUME TypeOK, [Next]_vars
  PROVE  /\ last' = last \/ (rpc = "begin" /\ \E i \in Intakes : Begin(i) /\ last' = i)
         /\ \A i \in Intakes : Begin(i) => last' = IF rpc = "begin" THEN i ELSE last
         /\ \A i \in Intakes : pc[i] # "begin" => pc'[i] # "begin" /\ ~Begin(i)
         /\ \A i \in Intakes : Begin(i) => pc'[i] = "open"
         /\ rpc' = "begin" => rpc = "begin"
         /\ FindTask \/ UNCHANGED taskId
  <1>1. ASSUME NEW i \in Intakes, Begin(i)
        PROVE  /\ last' = IF rpc = "begin" THEN i ELSE last
               /\ pc'[i] = "open"
               /\ \A j \in Intakes : pc[j] # "begin" => pc'[j] # "begin"
    BY <1>1 DEF Begin, TypeOK
  <1>2. (\A i \in Intakes : ~Begin(i)) => last' = last
    BY DEF Next, OpenFails, Open, CopyChunk, WriteFails, CloseCopy, EnterId, Die, TestEnters,
           TestPrints, TestFails, FindTask, Scan, ReadChunk, EndFile, history, vars
  <1>3. ASSUME \A i \in Intakes : ~Begin(i)
        PROVE  \A j \in Intakes : pc[j] # "begin" => pc'[j] # "begin"
    <2>1. ASSUME NEW i \in Intakes,
                 \/ OpenFails(i) \/ Open(i) \/ CopyChunk(i) \/ WriteFails(i)
                 \/ CloseCopy(i) \/ EnterId(i) \/ Die(i)
          PROVE  \A j \in Intakes : pc[j] # "begin" => pc'[j] # "begin"
      BY <2>1 DEF OpenFails, Open, CopyChunk, WriteFails, CloseCopy, EnterId, Die, TypeOK
    <2>2. \/ UNCHANGED pc
          \/ \E i \in Intakes : \/ OpenFails(i) \/ Open(i) \/ CopyChunk(i) \/ WriteFails(i)
                               \/ CloseCopy(i) \/ EnterId(i) \/ Die(i)
      BY <1>3 DEF Next, TestEnters, TestPrints, TestFails, FindTask, Scan, ReadChunk, EndFile,
                  intakeVars, vars
    <2>. QED  BY <2>1, <2>2
  <1>4. \A i \in Intakes : Begin(i) => pc[i] = "begin"
    BY DEF Begin
  <1>5. /\ rpc' = "begin" => rpc = "begin"
        /\ FindTask \/ UNCHANGED taskId
    BY DEF Next, Begin, OpenFails, Open, CopyChunk, WriteFails, CloseCopy, EnterId, Die, TestEnters,
           TestPrints, TestFails, FindTask, Scan, ReadChunk, EndFile, readVars, vars
  <1>. QED  BY <1>1, <1>2, <1>3, <1>4, <1>5

LEMMA AloneNext ==
  TypeOK /\ FilesInv /\ (overlap \/ Alone) /\ [Next]_vars => overlap' \/ Alone'
  <1> SUFFICES ASSUME TypeOK, FilesInv, Alone, [Next]_vars, ~overlap' PROVE Alone'
    BY AtWork
  <1> USE IntakeAssumption
  <1>1. ASSUME NEW i \in Intakes, Begin(i) PROVE Alone'
    <2>1. ~Reading /\ \A j \in Intakes : ~Copying(j)
      BY <1>1 DEF Begin
    <2>2. ~Reading' /\ \A j \in Intakes : j # i => ~Copying(j)'
      <3>1. UNCHANGED <<rpc, taskId>> /\ \A j \in Intakes : j # i => pc'[j] = pc[j]
        BY <1>1, AtWork
      <3>. QED  BY <2>1, <3>1 DEF Reading, Copying
    <2>3. rpc' = "begin" => i = last'
      BY <1>1, LastNext
    <2>4. ASSUME NEW j \in Intakes, j = last'
          PROVE  pc'[j] # "begin" /\ (taskId' = "13666" => ~Copying(j)')
      <3>1. CASE rpc = "begin"
        <4>1. j = i /\ pc'[i] = "open" /\ taskId' = taskId /\ taskId = ""
          BY <1>1, <2>4, <3>1, LastNext, AtWork DEF FilesInv
        <4>. QED  BY <4>1
      <3>2. CASE rpc # "begin"
        <4>1. j = last /\ j # i /\ taskId' = taskId /\ pc'[j] # "begin"
          BY <1>1, <2>4, <3>2, LastNext, AtWork DEF Alone
        <4>. QED  BY <2>2, <4>1
      <3>. QED  BY <3>1, <3>2
    <2>. QED  BY <2>2, <2>3, <2>4 DEF Alone
  <1>2. CASE FindTask
    <2>1. UNCHANGED pc /\ last' = last /\ rpc' # "begin"
      BY <1>2, AtWork DEF FindTask
    <2>2. taskId' = "13666" => \A j \in Intakes : ~Copying(j)
      BY <1>2 DEF FindTask, FilesInv
    <2>3. Reading' => taskId' = "13666"
      BY DEF Reading
    <2>. QED  BY <2>1, <2>2, <2>3 DEF Alone, Copying
  <1>3. CASE ~FindTask /\ \A i \in Intakes : ~Begin(i)
    <2>1. (Reading' => Reading) /\ \A i \in Intakes : Copying(i)' => Copying(i)
      BY <1>3, AtWork
    <2>2. /\ last' = last /\ taskId' = taskId /\ (rpc' = "begin" => rpc = "begin")
          /\ \A i \in Intakes : pc[i] # "begin" => pc'[i] # "begin"
      BY <1>3, LastNext
    <2>. QED  BY <2>1, <2>2 DEF Alone
  <1>. QED  BY <1>1, <1>2, <1>3

\* What has been kept so far was kept before.
LEMMA KeptBefore ==
  ASSUME TypeOK, FilesInv, [Next]_vars, NEW i \in Intakes, Kept(i)'
  PROVE  Kept(i)
  <1>1. name' = name /\ inside' = inside
    BY FilesStay
  <1>2. lost \subseteq lost'
    BY DEF Next, Begin, OpenFails, Open, CopyChunk, WriteFails, CloseCopy, EnterId, Die, TestEnters,
           TestPrints, TestFails, FindTask, Scan, ReadChunk, EndFile, intakeVars, vars
  <1>. QED  BY <1>1, <1>2, LastNext DEF Kept

-----------------------------------------------------------------------------
(* Whole files of one intake *)

\* A file has the name of an intake that has begun, and ClientSyn reads after it has found.
LEMMA NamesNext == TypeOK /\ FilesInv /\ NamesInv /\ [Next]_vars => NamesInv'
  <1> SUFFICES ASSUME TypeOK, FilesInv, NamesInv, [Next]_vars PROVE NamesInv'
    OBVIOUS
  <1>1. name' = name /\ \A j \in Intakes : pc[j] # "begin" => pc'[j] # "begin"
    BY FilesStay, LastNext
  <1>2. ASSUME NEW i \in Intakes, Open(i) \/ CopyChunk(i),
               NEW f \in Files, NEW n \in Names, stored'[<<f, n>>] # None
        PROVE  \E j \in Intakes : pc'[j] # "begin" /\ n = name'[j]
    <2>1. /\ pc[i] # "begin"
          /\ \A p \in Files \X Names : p # Dest(i) => stored'[p] = stored[p]
      BY <1>2 DEF Open, CopyChunk, TypeOK
    <2>2. CASE <<f, n>> = Dest(i)
      BY <1>1, <2>1, <2>2 DEF Dest
    <2>3. CASE <<f, n>> # Dest(i)
      BY <1>1, <1>2, <2>1, <2>3 DEF NamesInv
    <2>. QED  BY <2>2, <2>3
  <1>3. UNCHANGED stored \/ \E i \in Intakes : Open(i) \/ CopyChunk(i)
    BY DEF Next, Begin, OpenFails, WriteFails, CloseCopy, EnterId, Die, TestEnters,
           TestPrints, TestFails, FindTask, Scan, ReadChunk, EndFile, vars
  <1>4. \A f \in Files, n \in Names :
          stored'[<<f, n>>] # None => \E j \in Intakes : pc'[j] # "begin" /\ n = name'[j]
    BY <1>1, <1>2, <1>3 DEF NamesInv
  <1>5. UNCHANGED sent \/ \E f \in Files : ReadChunk(f)
    BY DEF Next, Begin, OpenFails, Open, CopyChunk, WriteFails, CloseCopy, EnterId, Die, TestEnters,
           TestPrints, TestFails, FindTask, Scan, EndFile, readVars, vars
  <1>6. rpc' \in {"begin", "scan"} => rpc \in {"begin", "scan"}
    BY DEF Next, Begin, OpenFails, Open, CopyChunk, WriteFails, CloseCopy, EnterId, Die, TestEnters,
           TestPrints, TestFails, FindTask, Scan, ReadChunk, EndFile, Files, readVars, vars
  <1>7. ASSUME NEW f \in Files, ReadChunk(f) PROVE rpc' \notin {"begin", "scan"}
    BY <1>7 DEF ReadChunk, Files
  <1>. QED  BY <1>4, <1>5, <1>6, <1>7 DEF NamesInv

\* An intake at work on the directory, alone.
LEMMA CopyNext ==
  ASSUME IInv, [Next]_vars, ~overlap', NEW l \in Intakes, l = last', Kept(l)', NEW i \in Intakes,
         \/ Begin(i) \/ OpenFails(i) \/ Open(i) \/ CopyChunk(i) \/ WriteFails(i)
         \/ CloseCopy(i) \/ EnterId(i) \/ Die(i)
  PROVE  LastInv(l)'
  <1> USE IntakeAssumption
  <1>0. /\ TypeOK /\ FilesInv /\ Alone /\ Alone' /\ Kept(l) /\ (l = last => LastInv(l))
        /\ name' = name /\ inside' = inside
    <2>1. TypeOK /\ FilesInv /\ Kept(l) /\ name' = name /\ inside' = inside /\ ~overlap
      BY KeptBefore, FilesStay, AtWork DEF IInv
    <2>. QED  BY <2>1, AloneNext DEF IInv
  <1>1. /\ UNCHANGED readVars
        /\ \A j \in Intakes : j # i => pc'[j] = pc[j]
        /\ ~Begin(i) => Copying(i) /\ last' = last
    BY <1>0 DEF Begin, OpenFails, Open, CopyChunk, WriteFails, CloseCopy, EnterId, Die, Copying,
                history, TypeOK
  <1>2. rpc = "begin" => taskId = ""
    BY <1>0 DEF FilesInv
  <1>3. CASE rpc # "begin"
    <2>1. ~Reading /\ ~Reading' /\ rpc' # "begin"
      <3>1. ~Reading
        BY <1>0, <1>1 DEF Begin, Alone
      <3>. QED  BY <1>1, <1>3, <3>1 DEF Reading, readVars
    <2>2. l = last /\ pc[l] # "begin"
      BY <1>0, <1>1, <1>3, LastNext DEF Alone
    <2>3. taskId = "13666" => l # i
      <3>1. taskId = "13666" => ~Copying(l)
        BY <1>0, <2>2 DEF Alone
      <3>. QED  BY <1>1, <2>2, <3>1 DEF Begin
    <2>4. taskId = "13666" => pc'[l] = pc[l]
      BY <1>1, <2>3
    <2>5. UNCHANGED <<rpc, taskId, pick, sent>>
      BY <1>1 DEF readVars
    <2>6. taskId = "13666" => rpc \notin {"data", "model"}
      BY <2>1 DEF Reading
    <2>. QED  BY <1>0, <2>1, <2>2, <2>4, <2>5, <2>6 DEF LastInv
  <1>4. ASSUME rpc = "begin" PROVE i = l /\ taskId' = ""
    <2>1. Begin(i) => l = i
      BY <1>0, <1>4, LastNext
    <2>2. ~Begin(i) => l = i
      BY <1>0, <1>1, <1>4 DEF Alone
    <2>. QED  BY <1>1, <1>2, <1>4, <2>1, <2>2 DEF readVars
  <1>5. /\ Dest(i) = <<file[i], name[i]>> /\ Dest(i) \in Files \X Names /\ OpenedInv(i)
        /\ name[i] \in Names /\ (rpc = "begin" /\ ~Begin(i) => Progress(i))
    <2>1. rpc = "begin" /\ ~Begin(i) => LastInv(i) /\ Copying(i)
      BY <1>0, <1>1, <1>4
    <2>2. rpc = "begin" /\ ~Begin(i) => Progress(i)
      BY <2>1 DEF LastInv
    <2>. QED  BY <1>0, <2>2 DEF Dest, FilesInv, TypeOK
  <1>6. ASSUME rpc = "begin", Copying(i)' => Progress(i)', pc'[i] = "done" => TaskOf(i)'
        PROVE  LastInv(l)'
    <2>1. l = i /\ taskId' # "13666"
      BY <1>4, <1>6
    <2>. QED  BY <1>6, <2>1 DEF LastInv
  <1>7. ASSUME rpc = "begin", Begin(i) PROVE LastInv(l)'
    <2>1. pc'[i] = "open" /\ file'[i] = "model" /\ UNCHANGED stored
      BY <1>0, <1>5, <1>7 DEF Begin, OpenedInv, TypeOK
    <2>. QED  BY <1>6, <1>7, <2>1 DEF Progress, Copying
  <1>8. ASSUME rpc = "begin", Open(i) PROVE LastInv(l)'
    <2>1. /\ pc[i] = "open" /\ pc'[i] = "copy" /\ file'[i] = file[i] /\ off'[i] = 0 /\ left'[i] = Chunks
          /\ stored'[Dest(i)] = <<>>
          /\ \A p \in Files \X Names : p # Dest(i) => stored'[p] = stored[p]
      BY <1>0, <1>4, <1>5, <1>8 DEF Open, Kept, TypeOK
    <2>2. Progress(i)'
      <3>1. off'[i] + left'[i] = Chunks
        BY <2>1
      <3>2. stored'[<<file'[i], name'[i]>>] = Part(i, off'[i])
        BY <1>0, <1>5, <2>1, PartGrows
      <3>3. file'[i] = "data" => stored'[<<"model", name'[i]>>] = Whole(i)
        <4>1. <<"model", name[i]>> \in Files \X Names
          BY <1>5 DEF Files
        <4>2. file[i] = "data" => stored[<<"model", name[i]>>] = Whole(i)
          BY <1>5, <1>8, <2>1 DEF Progress, Begin
        <4>. QED  BY <1>0, <1>5, <2>1, <4>1, <4>2
      <3>. QED  BY <2>1, <3>1, <3>2, <3>3 DEF Progress, Dest
    <2>. QED  BY <1>6, <1>8, <2>1, <2>2
  <1>9. ASSUME rpc = "begin", CopyChunk(i) PROVE LastInv(l)'
    <2>1. /\ pc[i] = "copy" /\ pc'[i] = "copy" /\ file'[i] = file[i]
          /\ off'[i] = off[i] + 1 /\ left'[i] = left[i] - 1
          /\ stored'[Dest(i)] = Put(stored[Dest(i)], off[i] + 1, i)
          /\ \A p \in Files \X Names : p # Dest(i) => stored'[p] = stored[p]
      BY <1>0, <1>5, <1>9 DEF CopyChunk, TypeOK
    <2>2. Progress(i)
      BY <1>5, <1>9, <2>1 DEF Begin
    <2>3. Progress(i)'
      <3>1. off'[i] + left'[i] = Chunks /\ off[i] \in Nat
        <4>1. off[i] \in Nat /\ left[i] \in Nat /\ off[i] + left[i] = Chunks
          BY <1>0, <2>1, <2>2 DEF Progress, TypeOK
        <4>. QED  BY <2>1, <4>1
      <3>2. stored'[<<file'[i], name'[i]>>] = Part(i, off'[i])
        BY <1>0, <1>5, <2>1, <2>2, <3>1, PartGrows DEF Progress
      <3>3. file'[i] = "data" => stored'[<<"model", name'[i]>>] = Whole(i)
        <4>1. <<"model", name[i]>> \in Files \X Names
          BY <1>5 DEF Files
        <4>. QED  BY <1>0, <1>5, <2>1, <2>2, <4>1 DEF Progress
      <3>. QED  BY <2>1, <3>1, <3>2, <3>3 DEF Progress, Dest
    <2>. QED  BY <1>6, <1>9, <2>1, <2>3
  <1>10. ASSUME rpc = "begin", CloseCopy(i) PROVE LastInv(l)'
    <2>1. /\ pc[i] = "copy" /\ left[i] = 0 /\ file'[i] = "data" /\ UNCHANGED <<stored, off, left>>
          /\ pc'[i] = IF file[i] = "model" THEN "open" ELSE "redis"
      BY <1>0, <1>10 DEF CloseCopy, Copied, TypeOK
    <2>2. Progress(i)
      BY <1>5, <1>10, <2>1 DEF Begin
    <2>3. stored[<<file[i], name[i]>>] = Whole(i)
      <3>1. off[i] = Chunks
        <4>1. off[i] \in Nat /\ off[i] + 0 = Chunks
          BY <1>0, <2>1, <2>2 DEF Progress, TypeOK
        <4>. QED  BY <4>1
      <3>. QED  BY <1>5, <2>1, <2>2, <3>1 DEF Progress, Part, Whole
    <2>4. Progress(i)'
      <3>1. file[i] = "model" \/ file[i] = "data"
        BY <1>0 DEF TypeOK, Files
      <3>. QED  BY <1>0, <2>1, <2>2, <2>3, <3>1 DEF Progress
    <2>. QED  BY <1>6, <1>10, <2>1, <2>4
  <1>11. ASSUME rpc = "begin", EnterId(i) PROVE LastInv(l)'
    <2>1. pc[i] = "redis" /\ UNCHANGED stored
      BY <1>11 DEF EnterId
    <2>2. TaskOf(i)
      BY <1>5, <1>11, <2>1 DEF Progress, OpenedInv, TaskOf, Files, Begin
    <2>3. ~Copying(i)'
      BY <1>0, <1>11 DEF EnterId, Copying, TypeOK
    <2>. QED  BY <1>0, <1>6, <1>11, <2>1, <2>2, <2>3 DEF TaskOf
  <1>12. ASSUME rpc = "begin", OpenFails(i) \/ Die(i) PROVE LastInv(l)'
    <2>1. pc'[i] \in {"failed", "dead"}
      BY <1>0, <1>12 DEF OpenFails, Die, TypeOK
    <2>. QED  BY <1>6, <1>12, <2>1 DEF Copying
  <1>13. rpc = "begin" => ~WriteFails(i)
    BY <1>4 DEF WriteFails, Kept
  <1>. QED  BY <1>3, <1>7, <1>8, <1>9, <1>10, <1>11, <1>12, <1>13

\* ClientSyn at work on the directory, alone; or test, which touches no file.
LEMMA ReadNext ==
  ASSUME IInv, [Next]_vars, ~overlap', NEW i \in Intakes, i = last', Kept(i)',
         \/ TestEnters \/ TestPrints \/ TestFails \/ FindTask \/ Scan \/ UNCHANGED vars
         \/ \E f \in Files : ReadChunk(f) \/ EndFile(f)
  PROVE  LastInv(i)'
  <1> USE IntakeAssumption
  <1>0. /\ TypeOK /\ FilesInv /\ NamesInv /\ Alone /\ Kept(i) /\ LastInv(i)
        /\ UNCHANGED <<name, inside, intakeVars, stored, last>>
    <2>1. TypeOK /\ FilesInv /\ NamesInv /\ Kept(i) /\ ~overlap
      BY KeptBefore, AtWork DEF IInv
    <2>2. UNCHANGED <<name, inside, intakeVars, stored, last>>
      BY DEF TestEnters, TestPrints, TestFails, FindTask, Scan, ReadChunk, EndFile, history, vars
    <2>. QED  BY <2>1, <2>2 DEF IInv
  <1>1. ASSUME rpc' = "begin" \/ Reading' => rpc = "begin" \/ Reading,
               pc[i] = "done" /\ taskId' = "13666" =>
                 /\ rpc' \in {"data", "model"} => ReadFrom(i)'
                 /\ rpc' = "sent" => \A f \in Files : sent'[f] = Whole(i)
        PROVE  LastInv(i)'
    <2>1. rpc' = "begin" \/ Reading' => (Copying(i) => Progress(i)) /\ (pc[i] = "done" => TaskOf(i))
      BY <1>0, <1>1 DEF LastInv
    <2>2. rpc' = "begin" \/ Reading' =>
            (Copying(i)' => Progress(i)') /\ (pc'[i] = "done" => TaskOf(i)')
      BY <1>0, <2>1 DEF intakeVars, Copying, Progress, Dest, TaskOf
    <2>. QED  BY <1>0, <1>1, <2>2 DEF LastInv, intakeVars
  <1>2. CASE TestEnters \/ TestPrints \/ TestFails \/ UNCHANGED vars
    <2>1. UNCHANGED <<rpc, taskId, pick, sent>>
      BY <1>2 DEF TestEnters, TestPrints, TestFails, readVars, vars
    <2>. QED  BY <1>0, <1>1, <2>1 DEF LastInv, ReadFrom, Reading
  <1>3. CASE FindTask
    <2>1. rpc = "begin" /\ rpc' \in {"scan", "failed", "crashed"}
      BY <1>3 DEF FindTask
    <2>. QED  BY <1>1, <2>1
  <1>4. CASE Scan
    <2>1. /\ UNCHANGED <<taskId, sent>> /\ rpc = "scan" /\ rpc' = "data"
          /\ \A f \in Files : IF Present(f) = {} THEN pick'[f] = None ELSE pick'[f] \in Present(f)
      BY <1>4 DEF Scan
    <2>2. ASSUME pc[i] = "done", taskId' = "13666" PROVE ReadFrom(i)'
      <3>1. TaskOf(i)
        BY <1>0, <2>1, <2>2 DEF LastInv, Reading
      <3>2. ASSUME NEW f \in Files PROVE stored'[<<f, pick'[f]>>] = Whole(i) /\ sent'[f] = Part(i, 0)
        <4>1. pick'[f] \in Names /\ stored[<<f, pick'[f]>>] # None
          BY <1>0, <2>1, <2>2 DEF FilesInv, There, Present, Content
        <4>2. pick'[f] = name[i]
          BY <1>0, <4>1 DEF NamesInv, Kept
        <4>3. sent'[f] = <<>>
          BY <1>0, <2>1 DEF NamesInv
        <4>. QED  BY <1>0, <3>1, <4>2, <4>3, PartGrows DEF TaskOf
      <3>3. 0 \in 0..Chunks
        OBVIOUS
      <3>. QED  BY <2>1, <3>2, <3>3 DEF ReadFrom
    <2>3. Reading' => Reading
      BY <2>1 DEF Reading
    <2>. QED  BY <1>1, <2>1, <2>2, <2>3
  <1>5. ASSUME NEW f \in Files, ReadChunk(f) \/ EndFile(f)
        PROVE  LastInv(i)'
    <2>1. /\ rpc = f /\ f \in {"data", "model"} /\ UNCHANGED <<taskId, pick>>
          /\ rpc' \in {"data", "model", "sent"}
      BY <1>5 DEF ReadChunk, EndFile, Files
    <2>2. Reading' => Reading
      BY <2>1 DEF Reading
    <2>3. CASE pc[i] # "done" \/ taskId' # "13666"
      BY <1>1, <2>1, <2>2, <2>3
    <2>4. CASE pc[i] = "done" /\ taskId' = "13666"
      <3>1. ReadFrom(i) /\ taskId = "13666" /\ pick[f] # None
        BY <1>0, <2>1, <2>4 DEF LastInv, FilesInv, TaskHasItsFiles
      <3>2. PICK k \in 0..Chunks : sent[f] = Part(i, k)
        BY <3>1 DEF ReadFrom
      <3>3. /\ k \in Nat /\ Len(sent[f]) = k /\ Content(f, pick[f]) = Part(i, Chunks)
            /\ Len(Content(f, pick[f])) = Chunks
        <4>1. k \in Nat
          OBVIOUS
        <4>2. Content(f, pick[f]) = Part(i, Chunks)
          BY <3>1 DEF ReadFrom, Part, Whole, Content
        <4>. QED  BY <3>2, <4>1, <4>2, PartGrows
      <3>4. CASE ReadChunk(f)
        <4>1. k < Chunks
          <5>1. ~(Len(sent[f]) >= Len(Content(f, pick[f])))
            BY <3>4 DEF ReadChunk, AtEnd
          <5>. QED  BY <3>3, <5>1
        <4>2. sent'[f] = Part(i, k + 1) /\ k + 1 \in 0..Chunks
          <5>1. sent'[f] = Append(sent[f], Content(f, pick[f])[k + 1])
            BY <1>0, <3>3, <3>4 DEF ReadChunk, TypeOK
          <5>2. k + 1 \in 1..Chunks
            BY <3>3, <4>1
          <5>3. Content(f, pick[f])[k + 1] = i
            BY <3>3, <5>2 DEF Part
          <5>4. sent'[f] = Append(Part(i, k), i)
            BY <3>2, <5>1, <5>3
          <5>5. Append(Part(i, k), i) = Part(i, k + 1)
            BY <3>3, PartGrows
          <5>6. k + 1 \in 0..Chunks
            BY <3>3, <5>2
          <5>. QED  BY <5>4, <5>5, <5>6
        <4>3. UNCHANGED rpc /\ \A g \in Files : g # f => sent'[g] = sent[g]
          BY <1>0, <3>4 DEF ReadChunk, TypeOK
        <4>4. ReadFrom(i)'
          <5>1. \A g \in Files : stored'[<<g, pick'[g]>>] = Whole(i)
            BY <1>0, <2>1, <3>1 DEF ReadFrom
          <5>2. \A g \in Files : \E n \in 0..Chunks : sent'[g] = Part(i, n)
            BY <3>1, <4>2, <4>3 DEF ReadFrom
          <5>3. rpc' = "model" => sent'["data"] = Whole(i)
            BY <2>1, <3>1, <4>3 DEF ReadFrom, Files
          <5>. QED  BY <5>1, <5>2, <5>3 DEF ReadFrom
        <4>. QED  BY <1>1, <2>1, <2>2, <4>3, <4>4
      <3>5. CASE EndFile(f)
        <4>1. UNCHANGED sent /\ rpc' = IF f = "data" THEN "model" ELSE "sent"
          BY <3>5 DEF EndFile
        <4>2. sent[f] = Whole(i)
          <5>1. Len(sent[f]) >= Len(Content(f, pick[f]))
            BY <3>1, <3>5 DEF EndFile, AtEnd
          <5>2. k = Chunks
            BY <3>3, <5>1
          <5>. QED  BY <3>2, <5>2 DEF Part, Whole
        <4>3. CASE f = "data"
          <5>1. ReadFrom(i)'
            BY <1>0, <2>1, <3>1, <4>1, <4>2, <4>3 DEF ReadFrom
          <5>. QED  BY <1>1, <2>1, <2>2, <4>1, <4>3, <5>1
        <4>4. CASE f = "model"
          <5>1. \A g \in Files : sent'[g] = Whole(i)
            BY <2>1, <3>1, <4>1, <4>2, <4>4 DEF ReadFrom, Files
          <5>. QED  BY <1>1, <2>1, <2>2, <4>1, <4>4, <5>1
        <4>. QED  BY <2>1, <4>3, <4>4
      <3>. QED  BY <1>5, <3>4, <3>5
    <2>. QED  BY <2>3, <2>4
  <1>. QED  BY <1>2, <1>3, <1>4, <1>5

-----------------------------------------------------------------------------
(* The theorems *)

LEMMA IInvInit == Init => IInv
  <1> SUFFICES ASSUME Init PROVE IInv
    OBVIOUS
  <1>1. FilesInv
    BY DEF Init, FilesInv, OpenedInv, Copying, TaskHasItsFiles, Content
  <1>2. Alone
    BY IntakeAssumption DEF Init, Alone, Copying, Reading
  <1>3. NamesInv /\ \A i \in Intakes : i # last
    BY IntakeAssumption DEF Init, NamesInv
  <1>. QED  BY <1>1, <1>2, <1>3, TypeInit DEF IInv

LEMMA IInvNext == IInv /\ [Next]_vars => IInv'
  <1> SUFFICES ASSUME IInv, [Next]_vars PROVE IInv'
    OBVIOUS
  <1>1. TypeOK' /\ FilesInv' /\ NamesInv' /\ (overlap' \/ Alone')
    BY TypeNext, FilesNext, NamesNext, AloneNext DEF IInv
  <1>2. ~overlap' => \A l \in Intakes : l = last' /\ Kept(l)' => LastInv(l)'
    BY CopyNext, ReadNext DEF Next
  <1>. QED  BY <1>1, <1>2 DEF IInv

\* The invariant above holds however intakes, ClientSyn and test come and go.
THEOREM IInvHolds == Spec => []IInv
  <1>. QED  BY IInvInit, IInvNext, PTL DEF Spec

\* Once ClientSyn has read the id, it has found a file of each kind to send, whatever
\* failed or died and however programs overlapped: CliGetFile enters the id last.
THEOREM FilesComeFirst == Spec => []TaskHasItsFiles
  <1>1. IInv => TaskHasItsFiles
    BY DEF IInv, FilesInv
  <1>. QED  BY <1>1, IInvHolds, PTL

\* For files of any length and any number of intakes that broke off, ran out of disk or
\* left their files before, the two files that go out under an id that redis gave are those
\* of the last intake, if that one was complete and no two programs were at work at once.
THEOREM OneTaskIsSent == Spec => []SentIsOneTask
  <1>1. IInv => SentIsOneTask
    BY DEF IInv, LastInv, Kept, Complete, SentIsOneTask
  <1>. QED  BY <1>1, IInvHolds, PTL

-----------------------------------------------------------------------------
(* What is sent is what lies in the directory *)

\* The file that ClientSyn reads: with no name it opens the directory, and reads nothing.
Source(f) == IF pick[f] = None THEN <<>> ELSE Content(f, pick[f])

\* Without an overlap, what ClientSyn has read of a file is the beginning of it.
ReadInv ==
  ~overlap =>
    /\ rpc \in {"data", "model"} =>
         \A f \in Files : /\ Len(sent[f]) <= Len(Source(f))
                          /\ \A k \in 1..Len(sent[f]) : sent[f][k] = Source(f)[k]
    /\ rpc = "model" => sent["data"] = Source("data")

\* It is a file.
LEMMA SourceType ==
  ASSUME TypeOK, FilesInv, NEW f \in Files
  PROVE  Source(f) \in Contents
  <1>1. CASE pick[f] = None
    BY <1>1, EmptySeq DEF Source, Contents
  <1>2. CASE pick[f] # None
    <2>1. pick[f] \in Names
      BY <1>2 DEF TypeOK
    <2>. QED  BY <1>2, <2>1, ContentType DEF Source, FilesInv
  <1>. QED  BY <1>1, <1>2

\* A file that has been read to its end has been read.
LEMMA ReadToEnd ==
  ASSUME IInv, ReadInv, ~overlap, NEW f \in Files, EndFile(f)
  PROVE  sent[f] = Source(f)
  <1>1. f \in {"data", "model"} /\ rpc = f
    BY DEF EndFile, Files
  <1>2. Source(f) \in Contents /\ sent[f] \in Contents
    BY SourceType DEF IInv, TypeOK
  <1>3. Len(sent[f]) \in Nat /\ Len(Source(f)) \in Nat
    BY <1>2, LenProperties DEF Contents
  <1>4. /\ Len(sent[f]) <= Len(Source(f))
        /\ \A k \in 1..Len(sent[f]) : sent[f][k] = Source(f)[k]
    BY <1>1 DEF ReadInv
  <1>5. Len(sent[f]) >= Len(Source(f))
    <2>1. CASE pick[f] = None
      <3>1. Len(<<>>) = 0
        BY EmptySeq
      <3>. QED  BY <1>3, <2>1, <3>1 DEF Source
    <2>2. CASE pick[f] # None
      BY <2>2 DEF EndFile, AtEnd, Source
    <2>. QED  BY <2>1, <2>2
  <1>6. Len(sent[f]) = Len(Source(f))
    BY <1>3, <1>4, <1>5
  <1>. QED  BY <1>2, <1>4, <1>6, SeqEqual DEF Contents

\* While ClientSyn reads and nothing overlaps, the files in the directory do not change.
LEMMA FilesRest ==
  ASSUME IInv, ~overlap', [Next]_vars
  PROVE  /\ ~overlap
         /\ rpc \in {"scan", "data", "model"} /\ UNCHANGED <<taskId, pick>> =>
              \A f \in Files : Source(f)' = Source(f)
  <1>1. ~overlap /\ Alone
    BY AtWork DEF IInv
  <1>2. ASSUME NEW i \in Intakes, Reading, Open(i) \/ CopyChunk(i) PROVE FALSE
    BY <1>1, <1>2 DEF Open, CopyChunk, Copying, Alone
  <1>3. (\A i \in Intakes : ~Open(i) /\ ~CopyChunk(i)) => stored' = stored
    BY DEF Next, Begin, OpenFails, WriteFails, CloseCopy, EnterId, Die, TestEnters, TestPrints,
           TestFails, FindTask, Scan, ReadChunk, EndFile, vars
  <1>4. ASSUME rpc \in {"scan", "data", "model"}, UNCHANGED <<taskId, pick>>, NEW f \in Files
        PROVE  Source(f)' = Source(f)
    <2>1. taskId = "13666" => stored' = stored
      BY <1>2, <1>3, <1>4 DEF Reading
    <2>. QED  BY <1>4, <2>1 DEF Source, Content
  <1>. QED  BY <1>1, <1>4

LEMMA ReadInvNext == IInv /\ ReadInv /\ [Next]_vars => ReadInv'
  <1> SUFFICES ASSUME IInv, ReadInv, [Next]_vars, ~overlap' PROVE ReadInv'
    BY DEF ReadInv
  <1>0. /\ TypeOK /\ FilesInv /\ NamesInv /\ ~overlap
        /\ rpc \in {"scan", "data", "model"} /\ UNCHANGED <<taskId, pick>> =>
             \A f \in Files : Source(f)' = Source(f)
    BY FilesRest DEF IInv
  <1>1. ASSUME UNCHANGED readVars PROVE ReadInv'
    <2>1. UNCHANGED <<rpc, taskId, pick, sent>>
      BY <1>1 DEF readVars
    <2>2. rpc \in {"data", "model"} => \A f \in Files : Source(f)' = Source(f)
      BY <1>0, <2>1
    <2>. QED  BY <1>0, <2>1, <2>2 DEF ReadInv, Files
  <1>2. CASE FindTask
    <2>1. rpc' \in {"scan", "failed", "crashed"}
      BY <1>2 DEF FindTask
    <2>. QED  BY <2>1 DEF ReadInv
  <1>3. CASE Scan
    <2>1. UNCHANGED sent /\ rpc = "scan" /\ rpc' = "data"
      BY <1>3 DEF Scan
    <2>2. ASSUME NEW f \in Files
          PROVE  /\ Len(sent'[f]) <= Len(Source(f)') /\ 1..Len(sent'[f]) = {}
      <3>1. TypeOK' /\ FilesInv'
        BY <1>0, TypeNext, FilesNext
      <3>2. Source(f)' \in Contents
        <4>1. CASE pick'[f] = None
          BY <4>1, EmptySeq DEF Source, Contents
        <4>2. CASE pick'[f] # None
          <5>1. pick'[f] \in Names /\ Content(f, pick[f])' # None
            BY <3>1, <4>2 DEF TypeOK, FilesInv
          <5>2. stored'[<<f, pick'[f]>>] \in Contents \cup {None} /\ <<Hole>> \in Contents
            <6>1. stored'[<<f, pick'[f]>>] \in Contents \cup {None}
              BY <3>1, <5>1 DEF TypeOK
            <6>2. <<Hole>> \in Contents
              BY DEF Contents
            <6>. QED  BY <6>1, <6>2
          <5>. QED  BY <4>2, <5>1, <5>2 DEF Source, Content
        <4>. QED  BY <4>1, <4>2
      <3>3. Len(Source(f)') \in Nat
        BY <3>2, LenProperties DEF Contents
      <3>4. sent'[f] = <<>> /\ Len(<<>>) = 0
        BY <1>0, <2>1, EmptySeq DEF NamesInv
      <3>. QED  BY <3>3, <3>4
    <2>. QED  BY <2>1, <2>2 DEF ReadInv
  <1>4. ASSUME NEW f \in Files, ReadChunk(f) PROVE ReadInv'
    <2>1. /\ f \in {"data", "model"} /\ rpc = f /\ UNCHANGED <<rpc, taskId, pick>>
          /\ pick[f] # None /\ ~(Len(sent[f]) >= Len(Source(f)))
          /\ sent' = [sent EXCEPT ![f] = Append(@, Source(f)[Len(@) + 1])]
      BY <1>4 DEF ReadChunk, Files, AtEnd, Source
    <2>3. Source(f) \in Contents /\ sent[f] \in Contents
      BY <1>0, SourceType DEF TypeOK
    <2>4. /\ Len(sent[f]) \in Nat /\ Len(Source(f)) \in Nat
          /\ Len(sent[f]) + 1 \in 1..Len(Source(f))
      <3>1. Len(sent[f]) \in Nat /\ Len(Source(f)) \in Nat
        BY <2>3, LenProperties DEF Contents
      <3>. QED  BY <2>1, <3>1
    <2>5. Source(f)[Len(sent[f]) + 1] \in Intakes \cup {Hole}
      BY <2>3, <2>4, ElementOfSeq DEF Contents
    <2>6. sent'[f] = Append(sent[f], Source(f)[Len(sent[f]) + 1])
      BY <1>0, <2>1 DEF TypeOK
    <2>7. /\ Len(sent'[f]) = Len(sent[f]) + 1
          /\ sent'[f][Len(sent[f]) + 1] = Source(f)[Len(sent[f]) + 1]
          /\ \A k \in 1..Len(sent[f]) : sent'[f][k] = sent[f][k]
      BY <2>3, <2>5, <2>6, AppendProperties DEF Contents
    <2>8. /\ Len(sent'[f]) <= Len(Source(f))
          /\ \A k \in 1..Len(sent'[f]) : sent'[f][k] = Source(f)[k]
      <3>1. \A k \in 1..Len(sent[f]) : sent[f][k] = Source(f)[k]
        BY <1>0, <2>1 DEF ReadInv
      <3>2. \A k \in 1..(Len(sent[f]) + 1) : k \in 1..Len(sent[f]) \/ k = Len(sent[f]) + 1
        BY <2>4
      <3>. QED  BY <2>4, <2>7, <3>1, <3>2
    <2>9. \A g \in Files : g # f => sent'[g] = sent[g]
      BY <1>0, <2>1 DEF TypeOK
    <2>10. \A g \in Files : Source(g)' = Source(g)
      BY <1>0, <2>1
    <2>11. \A g \in Files : /\ Len(sent'[g]) <= Len(Source(g)')
                            /\ \A k \in 1..Len(sent'[g]) : sent'[g][k] = Source(g)'[k]
      BY <1>0, <2>1, <2>8, <2>9, <2>10 DEF ReadInv
    <2>12. rpc' = "model" => sent'["data"] = Source("data")'
      BY <1>0, <2>1, <2>9, <2>10 DEF ReadInv, Files
    <2>. QED  BY <2>1, <2>11, <2>12 DEF ReadInv
  <1>5. ASSUME NEW f \in Files, EndFile(f) PROVE ReadInv'
    <2>1. /\ f \in {"data", "model"} /\ rpc = f /\ UNCHANGED <<sent, taskId, pick>>
          /\ rpc' = IF f = "data" THEN "model" ELSE "sent"
      BY <1>5 DEF EndFile, Files
    <2>2. sent[f] = Source(f)
      BY <1>0, <1>5, ReadToEnd
    <2>3. \A g \in Files : Source(g)' = Source(g)
      BY <1>0, <2>1
    <2>. QED  BY <1>0, <2>1, <2>2, <2>3 DEF ReadInv, Files
  <1>6. CASE TestEnters \/ TestPrints \/ TestFails \/ UNCHANGED vars
    BY <1>1, <1>6 DEF TestEnters, TestPrints, TestFails, vars
  <1>7. ASSUME NEW i \in Intakes,
               \/ Begin(i) \/ OpenFails(i) \/ Open(i) \/ CopyChunk(i) \/ WriteFails(i)
               \/ CloseCopy(i) \/ EnterId(i) \/ Die(i)
        PROVE  ReadInv'
    BY <1>1, <1>7 DEF Begin, OpenFails, Open, CopyChunk, WriteFails, CloseCopy, EnterId, Die
  <1>. QED  BY <1>2, <1>3, <1>4, <1>5, <1>6, <1>7 DEF Next

\* Whatever intakes fail, die, find no room on the disk or leave behind, what is sent is
\* what lies in the directory unless a program was at work on the task's directory together
\* with another: ClientSyn reads each of its two files to the end and nothing else.
THEOREM SentIsWhatIsStored ==
  Spec => [][rpc = "model" /\ rpc' = "sent" /\ ~overlap => \A f \in Files : sent'[f] = Source(f)]_vars
  <1>1. Init => ReadInv
    BY DEF Init, ReadInv
  <1>2. IInv /\ ReadInv /\ [Next]_vars => ReadInv'
    BY ReadInvNext
  <1>3. IInv /\ ReadInv /\ [Next]_vars =>
          [rpc = "model" /\ rpc' = "sent" /\ ~overlap => \A f \in Files : sent'[f] = Source(f)]_vars
    <2> SUFFICES ASSUME IInv, ReadInv, Next, rpc = "model", rpc' = "sent", ~overlap
                 PROVE  \A f \in Files : sent'[f] = Source(f)
      OBVIOUS
    <2>1. EndFile("model")
      BY DEF Next, Begin, OpenFails, Open, CopyChunk, WriteFails, CloseCopy, EnterId, Die, TestEnters,
             TestPrints, TestFails, FindTask, Scan, ReadChunk, EndFile, readVars
    <2>2. sent["model"] = Source("model") /\ sent["data"] = Source("data")
      BY <2>1, ReadToEnd DEF ReadInv, Files
    <2>. QED  BY <2>1, <2>2 DEF EndFile, Files
  <1>. QED  BY <1>1, <1>2, <1>3, IInvHolds, PTL DEF Spec
=============================================================================
