----------------------------- MODULE TaskIntake -----------------------------
(***************************************************************************)
(* How a task gets into model/<task id>/ and out of it: CliGetFile         *)
(* (synchronous.h) over LocalCopy (file-transfer.h) puts it there and      *)
(* enters the id in redis; ClientSyn finds the id, looks for a .npy and a  *)
(* .h5 in that directory, and reads them for sending (TaskSync).           *)
(*                                                                         *)
(* The id is a constant (synchronous.h:24), so all tasks of a host share   *)
(* one directory and one entry.  An intake is one run of the program that  *)
(* calls CliGetFile; intakes and ClientSyn are processes that know nothing *)
(* of each other, nor of test (hiredis/hello.h), which enters an id that   *)
(* has no directory.  When redis answers with an error ClientSyn goes on   *)
(* with an empty id, that is with model/ itself, in which files lie too.   *)
(* A file is a sequence of chunks, each named after the intake that wrote  *)
(* it; a path is a suffix and a name.                                      *)
(***************************************************************************)
EXTENDS Naturals, Sequences

CONSTANTS Intakes,
          Names,     \* the names a user's files may have, without suffix
          Chunks,    \* the chunks of each of a user's files
          Outside,   \* the files that lie in model/ itself
          Hole,      \* a chunk no intake wrote
          None       \* no file

Files == {"model", "data"}    \* *.h5 and *.npy

ASSUME IntakeAssumption ==
  /\ Chunks \in Nat \ {0} /\ Hole \notin Intakes /\ Outside \subseteq Files \X Names
  /\ None \notin Names \cup Intakes /\ None \notin Seq(Intakes \cup {Hole})

VARIABLES name,      \* the name of each intake's two files
          inside,    \* the intakes of files that lie in the directory already
          pc,        \* where each CliGetFile is
          file,      \* the file it copies
          off, left, \* LocalCopy: chunks written, and to be written
          lost,      \* history: the intakes of which a write has failed
          stored,    \* the files in the directory: chunks, or None
          taskid,    \* the members of the sorted set taskid
          tpc,       \* where test is
          rpc,       \* where ClientSyn is
          taskId,    \* the id it has read, empty at first
          pick,      \* the file it found for each suffix, or None
          sent,      \* the chunks it has read of each
          overlap,   \* history: an intake began while another, or ClientSyn, ran
          last       \* history: the last intake to begin before ClientSyn did

intakeVars == <<pc, file, off, left, lost>>
dbVars == <<taskid, tpc>>
readVars == <<rpc, taskId, pick, sent>>
history == <<overlap, last>>
vars == <<name, inside, intakeVars, stored, dbVars, readVars, history>>

Init ==
  /\ name \in [Intakes -> Names]
  /\ inside \in SUBSET Intakes
  /\ pc = [i \in Intakes |-> "begin"]
  /\ file = [i \in Intakes |-> "model"]
  /\ off = [i \in Intakes |-> 0] /\ left = [i \in Intakes |-> 0]
  /\ stored = [p \in Files \X Names |-> None]
  /\ taskid = {} /\ tpc = "begin"
  /\ rpc = "begin" /\ taskId = ""
  /\ pick = [f \in Files |-> None] /\ sent = [f \in Files |-> <<>>]
  /\ lost = {} /\ overlap = FALSE /\ last = None

Copying(i) == pc[i] \in {"open", "copy", "redis"}

\* ClientSyn is at work on the task's directory.
Reading == rpc \in {"scan", "data", "model"} /\ taskId = "13666"

-----------------------------------------------------------------------------
(* CliGetFile *)

\* The directory is made, if it is not there.
Begin(i) ==
  /\ pc[i] = "begin"
  /\ pc' = [pc EXCEPT ![i] = "open"]
  /\ overlap' = (overlap \/ Reading \/ \E j \in Intakes : Copying(j))
  /\ last' = IF rpc = "begin" THEN i ELSE last
  /\ UNCHANGED <<name, inside, file, off, left, lost, stored, dbVars, readVars>>

Dest(i) == <<file[i], name[i]>>

\* The user's file or the copy does not open: CliGetFile returns -1.
OpenFails(i) ==
  /\ pc[i] = "open"
  /\ pc' = [pc EXCEPT ![i] = "failed"]
  /\ UNCHANGED <<name, inside, file, off, left, lost, stored, dbVars, readVars, history>>

\* The copy is created or truncated, then the length of the user's file is
\* taken: it is 0 if the two are one file.
Open(i) ==
  /\ pc[i] = "open"
  /\ i \in inside => stored[Dest(i)] # None
  /\ stored' = [stored EXCEPT ![Dest(i)] = <<>>]
  /\ off' = [off EXCEPT ![i] = 0]
  /\ left' = [left EXCEPT ![i] = IF i \in inside THEN 0 ELSE Chunks]
  /\ pc' = [pc EXCEPT ![i] = "copy"]
  /\ UNCHANGED <<name, inside, file, lost, dbVars, readVars, history>>

\* s with chunk c at position n; what lies between is a hole.
Put(s, n, c) ==
  [k \in 1..(IF n > Len(s) THEN n ELSE Len(s)) |->
     IF k = n THEN c ELSE IF k <= Len(s) THEN s[k] ELSE Hole]

\* One turn of LocalCopy's loop, at this stream's own position.
CopyChunk(i) ==
  /\ pc[i] = "copy" /\ left[i] > 0
  /\ stored' = [stored EXCEPT ![Dest(i)] = Put(@, off[i] + 1, i)]
  /\ off' = [off EXCEPT ![i] = @ + 1]
  /\ left' = [left EXCEPT ![i] = @ - 1]
  /\ UNCHANGED <<name, inside, pc, file, lost, dbVars, readVars, history>>

\* A write fails, and with it all that follow; nobody asks the stream.
WriteFails(i) ==
  /\ pc[i] = "copy" /\ left[i] > 0
  /\ left' = [left EXCEPT ![i] = 0]
  /\ lost' = lost \cup {i}
  /\ UNCHANGED <<name, inside, pc, file, off, stored, dbVars, readVars, history>>

\* Mutant: the loop ends one buffer early.
CopiedAlmost(i) == left[i] <= 1

\* The loop of LocalCopy ends.
Copied(i) == left[i] = 0

\* Mutant: the id is entered between the two files.
CloseCopyOnce(i) ==
  /\ pc[i] = "copy" /\ Copied(i)
  /\ pc' = [pc EXCEPT ![i] = "redis"]
  /\ UNCHANGED <<name, inside, file, off, left, lost, stored, dbVars, readVars, history>>

\* LocalCopy returns true: the data file is next, then redis.
CloseCopy(i) ==
  /\ pc[i] = "copy" /\ Copied(i)
  /\ file' = [file EXCEPT ![i] = "data"]
  /\ pc' = [pc EXCEPT ![i] = IF file[i] = "model" THEN "open" ELSE "redis"]
  /\ UNCHANGED <<name, inside, off, left, lost, stored, dbVars, readVars, history>>

\* ZADD taskid 0 13666.  Without redis CliGetFile returns -1, with the files in place; if
\* redis leaves before the command, or refuses it, 0, as the reply is not looked at.
EnterId(i) ==
  /\ pc[i] = "redis"
  /\ \/ taskid' = taskid \cup {"13666"} /\ pc' = [pc EXCEPT ![i] = "done"]
     \/ UNCHANGED taskid /\ \E r \in {"failed", "done"} : pc' = [pc EXCEPT ![i] = r]
  /\ UNCHANGED <<name, inside, file, off, left, lost, stored, tpc, readVars, history>>

\* The process ends.
Die(i) ==
  /\ Copying(i)
  /\ pc' = [pc EXCEPT ![i] = "dead"]
  /\ UNCHANGED <<name, inside, file, off, left, lost, stored, dbVars, readVars, history>>

-----------------------------------------------------------------------------
(* test("10", 12333) of hello.h *)

\* ZADD taskid 10 12333.000000: the id is where the score belongs.
TestEnters ==
  /\ tpc = "begin"
  /\ taskid' = taskid \cup {"12333.000000"} /\ tpc' = "entered"
  /\ UNCHANGED <<name, inside, intakeVars, stored, readVars, history>>

\* The last member is printed; the reply is not empty any more.
TestPrints ==
  /\ tpc = "entered" /\ tpc' = "done"
  /\ UNCHANGED <<name, inside, intakeVars, stored, taskid, readVars, history>>

\* redis is not there, or leaves: test returns, or dereferences a reply it did not get.
TestFails ==
  /\ tpc \in {"begin", "entered"} /\ tpc' = "failed"
  /\ UNCHANGED <<name, inside, intakeVars, stored, taskid, readVars, history>>

-----------------------------------------------------------------------------
(* ClientSyn *)

Score(m) == IF m = "13666" THEN 0 ELSE 10

\* The last member in the order of the scores.
Last(m) == m \in taskid /\ \A n \in taskid : Score(n) <= Score(m)

\* ZRANGE taskid -1 -1.  The first element of an empty reply is dereferenced, and
\* so is the directory of an id that has none, or a reply that redis did not give.
\* After an error reply the id stays empty, and the directory is model/ itself.
FindTask ==
  /\ rpc = "begin"
  /\ \/ /\ Last("13666")
        /\ rpc' = "scan" /\ taskId' = "13666"
        /\ overlap' = (overlap \/ \E i \in Intakes : Copying(i))
     \/ rpc' = "scan" /\ UNCHANGED <<taskId, overlap>>
     \/ ~Last("13666") /\ rpc' = "crashed" /\ UNCHANGED <<taskId, overlap>>
     \/ rpc' \in {"failed", "crashed"} /\ UNCHANGED <<taskId, overlap>>
  /\ UNCHANGED <<name, inside, intakeVars, stored, dbVars, pick, sent, last>>

\* What lies under a name in the directory that ClientSyn has opened.
Content(f, n) ==
  IF taskId = "13666" THEN stored[<<f, n>>] ELSE IF <<f, n>> \in Outside THEN <<Hole>> ELSE None

Present(f) == {n \in Names : Content(f, n) # None}

\* Of several files with a suffix the last one that readdir returns is taken, and
\* readdir returns them in no order.  With none the name stays empty.
Scan ==
  /\ rpc = "scan"
  /\ pick' \in {p \in [Files -> Names \cup {None}] :
                  \A f \in Files : IF Present(f) = {} THEN p[f] = None ELSE p[f] \in Present(f)}
  /\ rpc' = "data"
  /\ UNCHANGED <<name, inside, intakeVars, stored, dbVars, taskId, sent, history>>

\* SendFile reads on from where it is, up to the end that the file then has.
AtEnd(f) == pick[f] # None => Len(sent[f]) >= Len(Content(f, pick[f]))

ReadChunk(f) ==
  /\ rpc = f /\ ~AtEnd(f)
  /\ sent' = [sent EXCEPT ![f] = Append(@, Content(f, pick[f])[Len(@) + 1])]
  /\ UNCHANGED <<name, inside, intakeVars, stored, dbVars, rpc, taskId, pick, history>>

EndFile(f) ==
  /\ rpc = f /\ AtEnd(f)
  /\ rpc' = IF f = "data" THEN "model" ELSE "sent"
  /\ UNCHANGED <<name, inside, intakeVars, stored, dbVars, taskId, pick, sent, history>>

Next ==
  \/ \E i \in Intakes : \/ Begin(i) \/ OpenFails(i) \/ Open(i) \/ CopyChunk(i) \/ WriteFails(i)
                        \/ CloseCopy(i) \/ EnterId(i) \/ Die(i)
  \/ TestEnters \/ TestPrints \/ TestFails
  \/ FindTask \/ Scan
  \/ \E f \in Files : ReadChunk(f) \/ EndFile(f)

Spec == Init /\ [][Next]_vars

-----------------------------------------------------------------------------
(* Correctness *)

\* Whatever fails or dies on the way, and however intakes overlap, ClientSyn finds
\* files of the task once it has read the id: the files come before the id.
TaskHasItsFiles ==
  rpc \in {"data", "model", "sent"} /\ taskId = "13666" => \A f \in Files : pick[f] # None

\* All of the user's file of intake i.
Whole(i) == [k \in 1..Chunks |-> i]

\* Intake i came to its end, none of its own writes failed, its files were not
\* copied onto themselves, and no intake has brought files of another name.
Complete(i) ==
  /\ pc[i] = "done" /\ i \notin inside \cup lost
  /\ \A j \in Intakes : pc[j] # "begin" => name[j] = name[i]

\* If the last intake before ClientSyn was complete, and redis told ClientSyn an id, and
\* no two programs were at work on the directory at once, then the two files that are
\* sent are those of that intake from the first chunk to the last, whatever intakes
\* before it broke off, lost or left there: copies are not checked and the directory
\* is neither locked nor emptied, but each copy begins by truncating what was there.
SentIsOneTask ==
  rpc = "sent" /\ taskId = "13666" /\ ~overlap =>
    \A i \in Intakes : i = last /\ Complete(i) => \A f \in Files : sent[f] = Whole(i)
=============================================================================
