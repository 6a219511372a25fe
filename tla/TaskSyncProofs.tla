--------------------------- MODULE TaskSyncProofs ---------------------------
(***************************************************************************)
(* Machine-checked proofs about TaskSync, for any number of sessions, any  *)
(* lengths of files and any size of the buffer.                            *)
(***************************************************************************)
EXTENDS TaskSync, TLAPS

-----------------------------------------------------------------------------
(* The inductive invariant.  What a session has sent and stored depends on *)
(* its own variables only, of which a failure of the process takes none    *)
(* but replies.                                                            *)

\* Where ClientSyn is in its files.  The message after the loop is the last one.
ClientInv(s) ==
  /\ cpc[s] \in {"begin", "idAck", "failed"} => cfile[s] = "data" /\ off[s] = 0
  /\ length[s][cfile[s]] = Unreadable => off[s] = 0
  /\ length[s][cfile[s]] # Unreadable => off[s] <= length[s][cfile[s]]
  /\ cpc[s] # "ack" => tail[s] = FALSE
  /\ cpc[s] = "ack" => length[s][cfile[s]] # Unreadable
  /\ cpc[s] = "ack" /\ tail[s] = TRUE => off[s] = length[s][cfile[s]]
  /\ cpc[s] = "done" => cfile[s] = "model"
  /\ cpc[s] = "done" /\ length[s]["model"] # Unreadable => off[s] = length[s]["model"]

InFlight(s) == req[s] # NoMsg /\ req[s].file # "id"

\* A request and its reply take turns, and the empty message gets no reply.
ExchangeInv(s) ==
  /\ rep[s] = TRUE => req[s] = NoMsg /\ cpc[s] \in {"idAck", "ack"} /\ owes[s] = FALSE
  /\ cpc[s] \notin {"idAck", "ack"} => req[s] = NoMsg
  /\ cpc[s] = "idAck" /\ req[s] # NoMsg => req[s].file = "id"
  /\ cpc[s] = "ack" /\ req[s] # NoMsg =>
       req[s].file = cfile[s] /\ (tail[s] = TRUE <=> req[s].size < BuffSize)
  /\ owes[s] = TRUE => cpc[s] = "ack" /\ tail[s] = TRUE /\ req[s] = NoMsg

\* The file that ReceiveFile stores file g of the session in: the model takes the
\* place of data that could not be read.
Place(s, g) == IF g = "model" /\ length[s]["data"] # Unreadable THEN "model" ELSE "data"

\* The worker has received all of the file the client is at.
HandedOver(s) ==
  \/ cpc[s] = "ack" /\ tail[s] = TRUE /\ req[s] = NoMsg
  \/ cpc[s] = "done" /\ length[s]["model"] # Unreadable

\* ServerSyn is at the file the client is sending, or past it.
ServerInv(s) ==
  /\ cpc[s] \in {"begin", "failed"} => spc[s] = "id"
  /\ cpc[s] = "idAck" /\ req[s] # NoMsg => spc[s] = "id"
  /\ cpc[s] = "idAck" /\ req[s] = NoMsg => spc[s] = "data"
  /\ cpc[s] \in {"send", "ack", "done"} /\ ~HandedOver(s) => spc[s] = Place(s, cfile[s])
  /\ HandedOver(s) =>
       \/ Place(s, cfile[s]) = "data" /\ spc[s] = "model"
       \/ Place(s, cfile[s]) = "model" /\ spc[s] \in {"register", "done", "failed"}

Stored(s, f, g) == disk[f][<<s, g>>]

\* The bytes sent are those stored and those in flight, each file in its place.
StoredInv(s) ==
  /\ \A f, g \in Files : f # Place(s, g) => Stored(s, f, g) = 0
  /\ ~InFlight(s) => off[s] = Stored(s, Place(s, cfile[s]), cfile[s])
  /\ InFlight(s) => off[s] = Stored(s, Place(s, cfile[s]), cfile[s]) + req[s].size
  /\ cfile[s] = "data" => Stored(s, Place(s, "model"), "model") = 0
  /\ cfile[s] = "model" /\ length[s]["data"] # Unreadable =>
       Stored(s, "data", "data") = length[s]["data"]
  /\ cfile[s] = "model" /\ length[s]["data"] = Unreadable => Stored(s, "data", "data") = 0

SessionInv(s) == ClientInv(s) /\ ExchangeInv(s) /\ ServerInv(s) /\ StoredInv(s)

IInv ==
  /\ TypeOK
  /\ \A s \in Sessions : SessionInv(s)
  /\ \A s \in registered : spc[s] = "done"

-----------------------------------------------------------------------------
(* Facts of the state functions *)

\* Typed values of one session.
LEMMA SessionType ==
  ASSUME TypeOK, NEW s \in Sessions
  PROVE  /\ cpc[s] \in ClientPC /\ cfile[s] \in Files /\ off[s] \in Nat /\ tail[s] \in BOOLEAN
         /\ req[s] \in Msg \cup {NoMsg} /\ rep[s] \in BOOLEAN /\ spc[s] \in ServerPC
         /\ owes[s] \in BOOLEAN
         /\ \A f \in Files : length[s][f] \in Nat \cup {Unreadable}
         /\ \A f, g \in Files : Stored(s, f, g) \in Nat
  BY SyncAssumption DEF TypeOK, Stored

\* The data has its place always, the model unless the data could not be read.
LEMMA PlaceFacts ==
  ASSUME NEW s, NEW g \in Files
  PROVE  /\ Place(s, g) \in Files /\ Place(s, "data") = "data"
         /\ length[s]["data"] # Unreadable => Place(s, g) = g
         /\ length[s]["data"] = Unreadable => Place(s, g) = "data"
         /\ Place(s, g) = "model" => g = "model" /\ length[s]["data"] # Unreadable
  BY DEF Place, Files

\* A message is what is left of the file, or a full buffer of it.
LEMMA NextSizeFacts ==
  ASSUME TypeOK, NEW s \in Sessions, length[s][cfile[s]] # Unreadable,
         off[s] <= length[s][cfile[s]]
  PROVE  /\ NextSize(s) \in Nat /\ off[s] + NextSize(s) <= length[s][cfile[s]]
         /\ NextSize(s) < BuffSize => off[s] + NextSize(s) = length[s][cfile[s]]
  <1>1. off[s] \in Nat /\ length[s][cfile[s]] \in Nat /\ BuffSize \in Nat
    BY SessionType, SyncAssumption
  <1>. QED  BY <1>1 DEF NextSize, Remaining

\* What a step of another session leaves alone.
Same(r) ==
  /\ length' = length /\ cpc'[r] = cpc[r] /\ cfile'[r] = cfile[r] /\ off'[r] = off[r]
  /\ tail'[r] = tail[r] /\ req'[r] = req[r] /\ (rep'[r] = TRUE => rep[r] = TRUE)
  /\ spc'[r] = spc[r] /\ owes'[r] = owes[r]
  /\ \A f, g \in Files : Stored(r, f, g)' = Stored(r, f, g)

\* A session keeps its invariant while nothing of it changes but a reply that is lost.
LEMMA SameKeeps ==
  ASSUME TypeOK, NEW r \in Sessions, SessionInv(r), Same(r)
  PROVE  SessionInv(r)'
  <1>1. cfile[r] \in Files /\ "data" \in Files /\ "model" \in Files
    BY SessionType DEF Files
  <1>2. \A g : Place(r, g)' = Place(r, g)
    BY DEF Same, Place
  <1>3. \A g \in Files : Place(r, g) \in Files
    BY PlaceFacts
  <1>4. ClientInv(r)' /\ ExchangeInv(r)'
    BY DEF Same, SessionInv, ClientInv, ExchangeInv
  <1>5. ServerInv(r)'
    BY <1>2 DEF Same, SessionInv, ServerInv, HandedOver
  <1>6. StoredInv(r)'
    BY <1>1, <1>2, <1>3 DEF Same, SessionInv, StoredInv, InFlight
  <1>. QED  BY <1>4, <1>5, <1>6 DEF SessionInv

-----------------------------------------------------------------------------
(* Types *)

LEMMA TypeInit == Init => TypeOK
  <1> SUFFICES ASSUME Init PROVE TypeOK
    OBVIOUS
  <1>1. /\ length \in [Sessions -> [Files -> Lengths \cup {Unreadable}]]
        /\ cpc \in [Sessions -> ClientPC] /\ cfile \in [Sessions -> Files]
        /\ off \in [Sessions -> Nat] /\ tail \in [Sessions -> BOOLEAN]
    BY DEF Init, ClientPC, Files
  <1>2. /\ req \in [Sessions -> Msg \cup {NoMsg}] /\ rep \in [Sessions -> BOOLEAN]
        /\ spc \in [Sessions -> ServerPC] /\ owes \in [Sessions -> BOOLEAN]
    BY DEF Init, ServerPC
  <1>3. /\ crashed \in BOOLEAN /\ disk \in [Files -> [Sessions \X Files -> Nat]]
        /\ registered \subseteq Sessions
    BY DEF Init
  <1>. QED  BY <1>1, <1>2, <1>3 DEF TypeOK

LEMMA TypeNext == IInv /\ [Next]_vars => TypeOK'
  <1> SUFFICES ASSUME IInv, [Next]_vars PROVE TypeOK'
    OBVIOUS
  <1> USE SyncAssumption, NoMsgAssumption
  <1>0. TypeOK /\ \A s \in Sessions : SessionInv(s)
    BY DEF IInv
  <1>1. ASSUME NEW s \in Sessions, SendId(s) PROVE TypeOK'
    <2>1. [file |-> "id", size |-> 1] \in Msg
      BY DEF Msg
    <2> DEFINE m == [file |-> "id", size |-> 1]
    <2>2. req' \in {req, [req EXCEPT ![s] = m]} /\ cpc' \in [Sessions -> ClientPC]
      BY <1>0, <1>1 DEF SendId, TypeOK, ClientPC
    <2> HIDE DEF m
    <2>3. req' \in [Sessions -> Msg \cup {NoMsg}]
      BY <1>0, <2>1, <2>2 DEF TypeOK, m
    <2>. QED  BY <1>0, <1>1, <2>2, <2>3 DEF SendId, serverVars, TypeOK
  <1>2. ASSUME NEW s \in Sessions, RecvIdAck(s) PROVE TypeOK'
    BY <1>0, <1>2 DEF RecvIdAck, serverVars, TypeOK, ClientPC
  <1>3. ASSUME NEW s \in Sessions, NextFile(s)
        PROVE  /\ cpc' \in [Sessions -> ClientPC] /\ cfile' \in [Sessions -> Files]
               /\ off' \in [Sessions -> Nat] /\ tail' \in [Sessions -> BOOLEAN]
    BY <1>0, <1>3 DEF NextFile, TypeOK, ClientPC, Files
  <1>4. ASSUME NEW s \in Sessions, SkipUnreadable(s) PROVE TypeOK'
    BY <1>0, <1>3, <1>4 DEF SkipUnreadable, serverVars, TypeOK
  <1>5. ASSUME NEW s \in Sessions, SendPiece(s) PROVE TypeOK'
    <2>1. NextSize(s) \in Nat /\ cfile[s] \in Files
      BY <1>0, <1>5, NextSizeFacts, SessionType DEF SendPiece, SessionInv, ClientInv
    <2>2. [file |-> cfile[s], size |-> NextSize(s)] \in Msg
      BY <2>1 DEF Msg
    <2> DEFINE m == [file |-> cfile[s], size |-> NextSize(s)]
    <2>3. req' = [req EXCEPT ![s] = m] /\ m \in Msg
      BY <1>5, <2>2 DEF SendPiece
    <2> HIDE DEF m
    <2>4. req' \in [Sessions -> Msg \cup {NoMsg}]
      BY <1>0, <2>3 DEF TypeOK
    <2>5. cpc' \in [Sessions -> ClientPC] /\ tail' \in [Sessions -> BOOLEAN]
      BY <1>0, <1>5 DEF SendPiece, TypeOK, ClientPC
    <2>6. off' \in [Sessions -> Nat]
      BY <1>0, <1>5, <2>1 DEF SendPiece, TypeOK
    <2>. QED  BY <1>0, <1>5, <2>4, <2>5, <2>6 DEF SendPiece, serverVars, TypeOK
  <1>6. ASSUME NEW s \in Sessions, RecvAck(s) PROVE TypeOK'
    <2>1. CASE tail[s]
      BY <1>0, <1>3, <1>6, <2>1 DEF RecvAck, serverVars, TypeOK
    <2>2. CASE ~tail[s]
      BY <1>0, <1>6, <2>2 DEF RecvAck, serverVars, TypeOK, ClientPC
    <2>. QED  BY <2>1, <2>2
  <1>7. ASSUME NEW s \in Sessions, RecvId(s) PROVE TypeOK'
    BY <1>0, <1>7 DEF RecvId, clientVars, TypeOK, ServerPC
  <1>8. ASSUME NEW s \in Sessions, NEW f \in Files, RecvPiece(s, f) PROVE TypeOK'
    <2>1. req[s].file \in Files /\ req[s].size \in Nat
      <3>1. req[s] \in Msg /\ req[s].file # "id"
        BY <1>0, <1>8, SessionType
           DEF RecvPiece, SessionInv, ExchangeInv, ServerInv, Files, ClientPC
      <3>. QED  BY <3>1 DEF Msg
    <2>2. disk' \in [Files -> [Sessions \X Files -> Nat]]
      <3> DEFINE i == <<s, req[s].file>>
      <3>1. i \in Sessions \X Files
        BY <2>1
      <3>2. disk' = [disk EXCEPT ![f] = [disk[f] EXCEPT ![i] = disk[f][i] + req[s].size]]
        BY <1>8 DEF RecvPiece, Written
      <3> HIDE DEF i
      <3>3. disk[f] \in [Sessions \X Files -> Nat] /\ disk[f][i] + req[s].size \in Nat
        <4>1. disk[f] \in [Sessions \X Files -> Nat]
          BY <1>0 DEF TypeOK
        <4>2. disk[f][i] \in Nat
          BY <3>1, <4>1
        <4>. QED  BY <2>1, <4>1, <4>2
      <3>. QED  BY <1>0, <3>2, <3>3 DEF TypeOK
    <2>. QED  BY <1>0, <1>8, <2>2 DEF RecvPiece, clientVars, TypeOK, ServerPC, After, Files
  <1>9. ASSUME NEW s \in Sessions, NEW f \in Files, RecvEmpty(s, f) PROVE TypeOK'
    BY <1>0, <1>9 DEF RecvEmpty, clientVars, TypeOK, ServerPC, After, Files
  <1>10. ASSUME NEW s \in Sessions, NEW f \in Files, RecvRefused(s, f) PROVE TypeOK'
    BY <1>0, <1>10 DEF RecvRefused, clientVars, TypeOK
  <1>11. ASSUME NEW s \in Sessions, Register(s) PROVE TypeOK'
    BY <1>0, <1>11 DEF Register, clientVars, TypeOK, ServerPC
  <1>12. CASE UNCHANGED vars
    BY <1>0, <1>12 DEF vars, clientVars, serverVars, TypeOK
  <1>. QED
    BY <1>1, <1>2, <1>4, <1>5, <1>6, <1>7, <1>8, <1>9, <1>10, <1>11, <1>12
       DEF Next, ClientStep, ServerStep

-----------------------------------------------------------------------------
(* One session moves, the others keep what they have *)

Step(s) ==
  \/ ClientStep(s) \/ RecvId(s) \/ Register(s)
  \/ \E f \in Files : RecvPiece(s, f) \/ RecvEmpty(s, f) \/ RecvRefused(s, f)

\* A message in flight that is not the task id is a piece of the file being sent.
LEMMA PieceFacts ==
  ASSUME TypeOK, NEW s \in Sessions, SessionInv(s), req[s] # NoMsg, spc[s] \in Files
  PROVE  /\ cpc[s] = "ack" /\ req[s].file = cfile[s] /\ req[s].size \in Nat
         /\ InFlight(s) /\ ~HandedOver(s) /\ spc[s] = Place(s, cfile[s])
         /\ tail[s] = TRUE <=> req[s].size < BuffSize
         /\ off[s] = Stored(s, spc[s], cfile[s]) + req[s].size
  <1>1. cpc[s] = "ack" /\ req[s].file = cfile[s] /\ cfile[s] \in Files
    BY SessionType DEF SessionInv, ExchangeInv, ServerInv, Files
  <1>2. req[s].size \in Nat
    BY SessionType DEF Msg
  <1>3. InFlight(s) /\ ~HandedOver(s)
    BY <1>1 DEF InFlight, HandedOver, Files
  <1>4. spc[s] = Place(s, cfile[s])
    BY <1>1, <1>3 DEF SessionInv, ServerInv
  <1>. QED  BY <1>1, <1>2, <1>3, <1>4 DEF SessionInv, ExchangeInv, StoredInv

\* What WriteFile does to the counts of the bytes stored.
LEMMA WrittenFacts ==
  ASSUME TypeOK, NEW s \in Sessions, NEW f \in Files, NEW g \in Files,
         req[s].file = g, disk' = Written(s, f)
  PROVE  /\ Stored(s, f, g)' = Stored(s, f, g) + req[s].size
         /\ \A r \in Sessions, h, k \in Files :
              r # s \/ h # f \/ k # g => Stored(r, h, k)' = Stored(r, h, k)
  <1> DEFINE i == <<s, g>>
  <1>1. i \in Sessions \X Files
    OBVIOUS
  <1>2. disk' = [disk EXCEPT ![f] = [disk[f] EXCEPT ![i] = disk[f][i] + req[s].size]]
    BY DEF Written
  <1>3. \A r \in Sessions, k \in Files :
          <<r, k>> \in Sessions \X Files /\ (r # s \/ k # g => <<r, k>> # i)
    OBVIOUS
  <1> HIDE DEF i
  <1>4. disk \in [Files -> [Sessions \X Files -> Nat]]
    BY DEF TypeOK
  <1>5. disk'[f] = [disk[f] EXCEPT ![i] = disk[f][i] + req[s].size]
    BY <1>2, <1>4
  <1>6. \A h \in Files : h # f => disk'[h] = disk[h]
    BY <1>2, <1>4
  <1>7. disk'[f][i] = disk[f][i] + req[s].size
    BY <1>1, <1>4, <1>5
  <1>8. \A j \in Sessions \X Files : j # i => disk'[f][j] = disk[f][j]
    BY <1>4, <1>5
  <1>9. \A r \in Sessions, h, k \in Files :
           r # s \/ h # f \/ k # g => disk'[h][<<r, k>>] = disk[h][<<r, k>>]
    BY <1>3, <1>6, <1>8
  <1>. QED  BY <1>7, <1>9 DEF Stored, i

\* A step of session s leaves the others alone, or takes replies from them.
LEMMA OthersNext ==
  ASSUME IInv, NEW s \in Sessions, Step(s), NEW r \in Sessions, r # s
  PROVE  Same(r)
  <1>0. TypeOK /\ SessionInv(s)
    BY DEF IInv
  <1>1. disk' = disk => \A f, g \in Files : Stored(r, f, g)' = Stored(r, f, g)
    BY DEF Stored
  <1>2. CASE SendId(s) \/ RecvIdAck(s)
    BY <1>0, <1>1, <1>2 DEF SendId, RecvIdAck, serverVars, Same, TypeOK
  <1>3. CASE SkipUnreadable(s)
    BY <1>0, <1>1, <1>3 DEF SkipUnreadable, NextFile, serverVars, Same, TypeOK
  <1>4. CASE SendPiece(s)
    BY <1>0, <1>1, <1>4 DEF SendPiece, serverVars, Same, TypeOK
  <1>5. CASE RecvAck(s)
    BY <1>0, <1>1, <1>5 DEF RecvAck, NextFile, serverVars, Same, TypeOK
  <1>6. CASE RecvId(s) \/ Register(s)
    BY <1>0, <1>1, <1>6 DEF RecvId, Register, clientVars, Same, TypeOK
  <1>7. ASSUME NEW f \in Files, RecvPiece(s, f) PROVE Same(r)
    <2>1. req[s] # NoMsg /\ spc[s] \in Files /\ disk' = Written(s, f)
      BY <1>7 DEF RecvPiece
    <2>2. req[s].file \in Files
      BY <1>0, <2>1, PieceFacts, SessionType
    <2>3. \A h, g \in Files : Stored(r, h, g)' = Stored(r, h, g)
      BY <1>0, <2>1, <2>2, WrittenFacts
    <2>. QED  BY <1>0, <1>7, <2>3 DEF RecvPiece, clientVars, Same, TypeOK
  <1>8. ASSUME NEW f \in Files, RecvEmpty(s, f) PROVE Same(r)
    BY <1>0, <1>1, <1>8 DEF RecvEmpty, clientVars, Same, TypeOK
  <1>9. ASSUME NEW f \in Files, RecvRefused(s, f) PROVE Same(r)
    BY <1>0, <1>1, <1>9 DEF RecvRefused, clientVars, Same, TypeOK
  <1>. QED  BY <1>2, <1>3, <1>4, <1>5, <1>6, <1>7, <1>8, <1>9 DEF Step, ClientStep

-----------------------------------------------------------------------------
(* The session that moves keeps its invariant *)

\* The client's steps.
LEMMA ClientNext ==
  ASSUME IInv, NEW s \in Sessions, ClientStep(s)
  PROVE  SessionInv(s)'
  <1>0. TypeOK /\ ClientInv(s) /\ ExchangeInv(s) /\ ServerInv(s) /\ StoredInv(s)
    BY DEF IInv, SessionInv
  <1>a. /\ cfile[s] \in Files /\ off[s] \in Nat /\ tail[s] \in BOOLEAN /\ rep[s] \in BOOLEAN
        /\ "data" \in Files /\ "model" \in Files /\ Files = {"data", "model"}
    BY <1>0, SessionType DEF Files
  <1>b. \A g \in Files : Place(s, g) \in Files /\ (Place(s, g) = "model" => g = "model")
    BY PlaceFacts
  <1>c. ASSUME length' = length, disk' = disk
        PROVE  /\ \A g : Place(s, g)' = Place(s, g)
               /\ \A f, g \in Files : Stored(s, f, g)' = Stored(s, f, g)
    BY <1>c DEF Place, Stored
  <1>1. CASE SendId(s)
    <2>1. /\ cpc[s] = "begin" /\ UNCHANGED <<length, cfile, off, tail, rep, spc, owes, disk>>
          /\ \/ cpc'[s] = "failed" /\ req' = req
             \/ cpc'[s] = "idAck" /\ req'[s] = [file |-> "id", size |-> 1]
      BY <1>0, <1>1 DEF SendId, serverVars, TypeOK
    <2>2. [file |-> "id", size |-> 1] # NoMsg
      BY NoMsgAssumption DEF Msg
    <2>3. ClientInv(s)' /\ ExchangeInv(s)'
      BY <1>0, <2>1, <2>2 DEF ClientInv, ExchangeInv
    <2>4. ServerInv(s)'
      BY <1>0, <2>1, <2>2 DEF ServerInv, HandedOver
    <2>5. StoredInv(s)'
      BY <1>0, <1>a, <1>b, <1>c, <2>1, <2>2 DEF StoredInv, ExchangeInv, InFlight
    <2>. QED  BY <2>3, <2>4, <2>5 DEF SessionInv
  <1>2. CASE RecvIdAck(s)
    <2>1. /\ cpc[s] = "idAck" /\ cpc'[s] = "send" /\ rep[s] = TRUE /\ rep'[s] = FALSE
          /\ UNCHANGED <<length, cfile, off, tail, req, spc, owes, disk>>
      BY <1>0, <1>a, <1>2 DEF RecvIdAck, serverVars, TypeOK
    <2>2. req[s] = NoMsg /\ cfile[s] = "data" /\ off[s] = 0 /\ Place(s, "data") = "data"
      BY <1>0, <1>a, <2>1, PlaceFacts DEF ExchangeInv, ClientInv
    <2>3. ClientInv(s)'
      <3>1. length[s]["data"] \in Nat \cup {Unreadable}
        BY <1>0, SessionType DEF Files
      <3>. QED  BY <1>0, <2>1, <2>2, <3>1 DEF ClientInv
    <2>4. ExchangeInv(s)'
      BY <1>0, <2>1, <2>2 DEF ExchangeInv
    <2>5. ServerInv(s)'
      BY <1>0, <1>c, <2>1, <2>2 DEF ServerInv, HandedOver
    <2>6. StoredInv(s)'
      BY <1>0, <1>a, <1>b, <1>c, <2>1 DEF StoredInv, InFlight
    <2>. QED  BY <2>3, <2>4, <2>5, <2>6 DEF SessionInv
  <1>3. ASSUME cpc[s] \in {"send", "ack"}, req[s] = NoMsg, NextFile(s), rep'[s] = FALSE,
               UNCHANGED <<length, req, spc, owes, disk>>, owes[s] = FALSE,
               \/ cpc[s] = "send" /\ length[s][cfile[s]] = Unreadable
               \/ cpc[s] = "ack" /\ tail[s] = TRUE
        PROVE  SessionInv(s)'
    <2>1. /\ cfile'[s] = "model" /\ tail'[s] = FALSE
          /\ cfile[s] = "data" => cpc'[s] = "send" /\ off'[s] = 0
          /\ cfile[s] = "model" => cpc'[s] = "done" /\ off'[s] = off[s]
      BY <1>0, <1>3 DEF NextFile, TypeOK
    <2>2. length[s]["model"] \in Nat \cup {Unreadable}
      BY <1>0, SessionType DEF Files
    <2>3. cpc[s] = "ack" => length[s][cfile[s]] # Unreadable /\ off[s] = length[s][cfile[s]]
      BY <1>0, <1>3 DEF ClientInv
    <2>4. ClientInv(s)'
      <3>1. CASE cfile[s] = "data"
        BY <1>0, <1>3, <2>1, <2>2, <3>1 DEF ClientInv
      <3>2. CASE cfile[s] = "model"
        BY <1>0, <1>3, <2>1, <2>2, <2>3, <3>2 DEF ClientInv
      <3>. QED  BY <1>a, <3>1, <3>2
    <2>5. ExchangeInv(s)'
      BY <1>a, <1>3, <2>1 DEF ExchangeInv
    <2>6. /\ length[s]["data"] # Unreadable => Place(s, "model") = "model"
          /\ length[s]["data"] = Unreadable => Place(s, "model") = "data"
          /\ Place(s, "data") = "data"
      BY <1>a, PlaceFacts
    <2>7. ServerInv(s)'
      <3>1. CASE cfile[s] = "data"
        BY <1>0, <1>a, <1>c, <1>3, <2>1, <2>3, <2>6, <3>1 DEF ServerInv, HandedOver
      <3>2. CASE cfile[s] = "model"
        BY <1>0, <1>a, <1>c, <1>3, <2>1, <2>3, <2>6, <3>2 DEF ServerInv, HandedOver
      <3>. QED  BY <1>a, <3>1, <3>2
    <2>8. StoredInv(s)'
      <3>1. off[s] = Stored(s, Place(s, cfile[s]), cfile[s])
        BY <1>0, <1>3 DEF StoredInv, InFlight
      <3>2. length[s][cfile[s]] = Unreadable => off[s] = 0
        BY <1>0 DEF ClientInv
      <3>3. CASE cfile[s] = "data"
        BY <1>0, <1>a, <1>b, <1>c, <1>3, <2>1, <2>3, <2>6, <3>1, <3>2, <3>3
           DEF StoredInv, InFlight
      <3>4. CASE cfile[s] = "model"
        BY <1>0, <1>a, <1>b, <1>c, <1>3, <2>1, <3>1, <3>4 DEF StoredInv, InFlight
      <3>. QED  BY <1>a, <3>3, <3>4
    <2>. QED  BY <2>4, <2>5, <2>7, <2>8 DEF SessionInv
  <1>4. CASE SkipUnreadable(s)
    <2>1. /\ cpc[s] = "send" /\ length[s][cfile[s]] = Unreadable /\ NextFile(s)
          /\ UNCHANGED <<length, req, rep, spc, owes, disk>>
      BY <1>4 DEF SkipUnreadable, serverVars
    <2>2. req[s] = NoMsg /\ rep[s] = FALSE /\ owes[s] = FALSE
      <3>1. owes[s] \in BOOLEAN
        BY <1>0, SessionType
      <3>. QED  BY <1>0, <1>a, <2>1, <3>1 DEF ExchangeInv
    <2>. QED  BY <1>3, <2>1, <2>2
  <1>5. CASE SendPiece(s)
    <2> DEFINE c == cfile[s]
               n == NextSize(s)
               m == [file |-> c, size |-> n]
    <2>1. /\ cpc[s] = "send" /\ length[s][c] # Unreadable /\ cpc'[s] = "ack"
          /\ req'[s] = m /\ off'[s] = off[s] + n /\ (tail'[s] = TRUE <=> n < BuffSize)
          /\ UNCHANGED <<length, cfile, rep, spc, owes, disk>>
      BY <1>0, <1>5 DEF SendPiece, serverVars, TypeOK
    <2>2. off[s] <= length[s][c]
      BY <1>0, <2>1 DEF ClientInv
    <2>3. /\ n \in Nat /\ off[s] + n <= length[s][c]
          /\ n < BuffSize => off[s] + n = length[s][c]
      BY <1>0, <2>1, <2>2, NextSizeFacts
    <2>4. m \in Msg /\ m.file = c /\ m.size = n
      BY <1>a, <2>3 DEF Msg
    <2>5. m # NoMsg /\ c # "id"
      BY <1>a, <2>4, NoMsgAssumption
    <2> HIDE DEF n, m
    <2>6. req[s] = NoMsg /\ rep[s] = FALSE /\ owes[s] = FALSE
      <3>1. owes[s] \in BOOLEAN
        BY <1>0, SessionType
      <3>. QED  BY <1>0, <1>a, <2>1, <3>1 DEF ExchangeInv
    <2>7. ClientInv(s)'
      BY <1>0, <2>1, <2>3 DEF ClientInv
    <2>8. ExchangeInv(s)'
      BY <2>1, <2>4, <2>5, <2>6 DEF ExchangeInv
    <2>9. ServerInv(s)'
      BY <1>0, <1>c, <2>1, <2>5 DEF ServerInv, HandedOver
    <2>10. StoredInv(s)'
      <3>1. off[s] = Stored(s, Place(s, c), c)
        BY <1>0, <2>6 DEF StoredInv, InFlight
      <3>. QED  BY <1>0, <1>a, <1>b, <1>c, <2>1, <2>4, <2>5, <3>1 DEF StoredInv, InFlight
    <2>. QED  BY <2>7, <2>8, <2>9, <2>10 DEF SessionInv
  <1>6. CASE RecvAck(s)
    <2>1. /\ cpc[s] = "ack" /\ rep[s] = TRUE /\ rep'[s] = FALSE
          /\ UNCHANGED <<length, req, spc, owes, disk>>
      BY <1>0, <1>a, <1>6 DEF RecvAck, serverVars, TypeOK
    <2>2. req[s] = NoMsg /\ owes[s] = FALSE
      BY <1>0, <2>1 DEF ExchangeInv
    <2>3. CASE tail[s] = TRUE
      BY <1>3, <1>6, <2>1, <2>2, <2>3 DEF RecvAck
    <2>4. CASE tail[s] = FALSE
      <3>1. cpc'[s] = "send" /\ UNCHANGED <<cfile, off, tail>>
        BY <1>0, <1>6, <2>4 DEF RecvAck, TypeOK
      <3>2. ClientInv(s)' /\ ExchangeInv(s)'
        BY <1>0, <2>1, <2>2, <2>4, <3>1 DEF ClientInv, ExchangeInv
      <3>3. ServerInv(s)'
        BY <1>0, <1>c, <2>1, <2>4, <3>1 DEF ServerInv, HandedOver
      <3>4. StoredInv(s)'
        BY <1>0, <1>a, <1>b, <1>c, <2>1, <3>1 DEF StoredInv, InFlight
      <3>. QED  BY <3>2, <3>3, <3>4 DEF SessionInv
    <2>. QED  BY <1>a, <2>3, <2>4
  <1>. QED  BY <1>1, <1>2, <1>4, <1>5, <1>6 DEF ClientStep

\* The worker's steps.
LEMMA ServerNext ==
  ASSUME IInv, NEW s \in Sessions, ServerStep(s)
  PROVE  SessionInv(s)'
  <1>0. TypeOK /\ ClientInv(s) /\ ExchangeInv(s) /\ ServerInv(s) /\ StoredInv(s)
    BY DEF IInv, SessionInv
  <1>a. /\ cfile[s] \in Files /\ off[s] \in Nat /\ tail[s] \in BOOLEAN /\ rep[s] \in BOOLEAN
        /\ owes[s] \in BOOLEAN /\ cpc[s] \in ClientPC
        /\ "data" \in Files /\ "model" \in Files /\ Files = {"data", "model"}
    BY <1>0, SessionType DEF Files
  <1>b. \A g \in Files : Place(s, g) \in Files /\ (Place(s, g) = "model" => g = "model")
    BY PlaceFacts
  <1>c. length' = length => \A g : Place(s, g)' = Place(s, g)
    BY DEF Place
  <1>d. disk' = disk => \A f, g \in Files : Stored(s, f, g)' = Stored(s, f, g)
    BY DEF Stored
  <1>1. CASE RecvId(s)
    <2>1. /\ spc[s] = "id" /\ spc'[s] = "data" /\ req[s] # NoMsg /\ req'[s] = NoMsg
          /\ rep'[s] = TRUE
          /\ UNCHANGED <<length, cpc, cfile, off, tail, owes, disk>>
      BY <1>0, <1>1 DEF RecvId, clientVars, TypeOK
    <2>2. cpc[s] = "idAck" /\ req[s].file = "id"
      <3>1. cpc[s] \in {"idAck", "ack"}
        BY <1>0, <2>1 DEF ExchangeInv
      <3>2. cpc[s] # "ack"
        BY <1>0, <1>a, <1>b, <2>1 DEF ServerInv, HandedOver
      <3>. QED  BY <1>0, <2>1, <3>1, <3>2 DEF ExchangeInv
    <2>3. owes[s] = FALSE
      BY <1>0, <1>a, <2>2 DEF ExchangeInv
    <2>4. ClientInv(s)' /\ ExchangeInv(s)'
      BY <1>0, <2>1, <2>2, <2>3 DEF ClientInv, ExchangeInv
    <2>5. ServerInv(s)'
      BY <2>1, <2>2 DEF ServerInv, HandedOver
    <2>6. StoredInv(s)'
      BY <1>0, <1>a, <1>b, <1>c, <1>d, <2>1, <2>2 DEF StoredInv, InFlight
    <2>. QED  BY <2>4, <2>5, <2>6 DEF SessionInv
  <1>2. ASSUME NEW f \in Files, RecvPiece(s, f) PROVE SessionInv(s)'
    <2>1. /\ spc[s] = f /\ owes[s] = FALSE /\ req[s] # NoMsg /\ disk' = Written(s, f)
          /\ req'[s] = NoMsg /\ rep'[s] = TRUE
          /\ req[s].size < BuffSize => spc'[s] = After(f)
          /\ ~(req[s].size < BuffSize) => spc'[s] = f
          /\ UNCHANGED <<length, cpc, cfile, off, tail, owes>>
      BY <1>0, <1>a, <1>2 DEF RecvPiece, clientVars, TypeOK, EndsFile
    <2>2. /\ cpc[s] = "ack" /\ req[s].file = cfile[s] /\ req[s].size \in Nat
          /\ ~HandedOver(s) /\ f = Place(s, cfile[s])
          /\ tail[s] = TRUE <=> req[s].size < BuffSize
          /\ off[s] = Stored(s, f, cfile[s]) + req[s].size
      BY <1>0, <2>1, PieceFacts DEF SessionInv
    <2>3. PICK g \in Files : g = cfile[s]
      BY <1>a
    <2>4. /\ Stored(s, f, g)' = Stored(s, f, g) + req[s].size
          /\ \A h, k \in Files : h # f \/ k # g => Stored(s, h, k)' = Stored(s, h, k)
      BY <1>0, <2>1, <2>2, <2>3, WrittenFacts
    <2>5. ClientInv(s)' /\ ExchangeInv(s)'
      BY <1>0, <2>1, <2>2 DEF ClientInv, ExchangeInv
    <2>6. ServerInv(s)'
      BY <1>a, <1>c, <2>1, <2>2 DEF ServerInv, HandedOver, After
    <2>7. StoredInv(s)'
      <3>1. cfile'[s] = g /\ Place(s, g)' = f /\ ~InFlight(s)'
        BY <1>c, <2>1, <2>2, <2>3 DEF InFlight
      <3>2. \A h, k \in Files : h # Place(s, k) => Stored(s, h, k)' = 0
        <4> SUFFICES ASSUME NEW h \in Files, NEW k \in Files, h # Place(s, k)
                     PROVE  Stored(s, h, k)' = 0
          OBVIOUS
        <4>1. Stored(s, h, k) = 0 /\ (k = g => h # f)
          BY <1>0, <2>2, <2>3 DEF StoredInv
        <4>. QED  BY <2>4, <4>1
      <3>3. off'[s] = Stored(s, f, g)'
        BY <2>1, <2>2, <2>3, <2>4
      <3>4. \A h \in Files : g = "data" /\ h = Place(s, "model") => Stored(s, h, "model")' = 0
        <4> SUFFICES ASSUME NEW h \in Files, g = "data", h = Place(s, "model")
                     PROVE  Stored(s, h, "model")' = 0
          OBVIOUS
        <4>1. Stored(s, h, "model") = 0
          BY <1>0, <2>3 DEF StoredInv
        <4>. QED  BY <1>a, <2>4, <4>1
      <3>5. cfile'[s] = "model" => Stored(s, "data", "data")' = Stored(s, "data", "data")
        BY <1>a, <2>1, <2>3, <2>4
      <3>. QED
        BY <1>0, <1>a, <1>b, <1>c, <2>1, <2>2, <2>3, <3>1, <3>2, <3>3, <3>4, <3>5 DEF StoredInv
    <2>. QED  BY <2>5, <2>6, <2>7 DEF SessionInv
  <1>3. ASSUME NEW f \in Files, RecvEmpty(s, f) PROVE SessionInv(s)'
    <2>1. /\ spc[s] = f /\ owes'[s] = TRUE /\ req[s] # NoMsg /\ req[s].size = 0
          /\ req'[s] = NoMsg /\ spc'[s] = After(f)
          /\ UNCHANGED <<length, cpc, cfile, off, tail, rep, disk>>
      BY <1>0, <1>3 DEF RecvEmpty, clientVars, TypeOK
    <2>2. /\ cpc[s] = "ack" /\ f = Place(s, cfile[s])
          /\ tail[s] = TRUE <=> req[s].size < BuffSize
          /\ off[s] = Stored(s, f, cfile[s]) + req[s].size
      BY <1>0, <2>1, PieceFacts DEF SessionInv
    <2>3. tail[s] = TRUE
      BY <2>1, <2>2, SyncAssumption
    <2>4. rep[s] = FALSE
      BY <1>0, <1>a, <2>1 DEF ExchangeInv
    <2>5. ClientInv(s)' /\ ExchangeInv(s)'
      BY <1>0, <2>1, <2>2, <2>3, <2>4 DEF ClientInv, ExchangeInv
    <2>6. ServerInv(s)'
      BY <1>a, <1>c, <2>1, <2>2, <2>3 DEF ServerInv, HandedOver, After
    <2>7. StoredInv(s)'
      <3>1. off[s] = Stored(s, f, cfile[s])
        <4>1. Stored(s, f, cfile[s]) \in Nat
          BY <1>0, <1>a, SessionType
        <4>. QED  BY <2>1, <2>2, <4>1
      <3>. QED  BY <1>0, <1>a, <1>b, <1>c, <1>d, <2>1, <2>2, <3>1 DEF StoredInv, InFlight
    <2>. QED  BY <2>5, <2>6, <2>7 DEF SessionInv
  <1>4. ASSUME NEW f \in Files, RecvRefused(s, f) PROVE SessionInv(s)'
    <2>1. Same(s)
      BY <1>0, <1>d, <1>4 DEF RecvRefused, clientVars, Same
    <2>. QED  BY <1>0, <2>1, SameKeeps DEF SessionInv
  <1>5. CASE Register(s)
    <2>1. /\ spc[s] = "register" /\ spc'[s] \in {"done", "failed"}
          /\ UNCHANGED <<length, cpc, cfile, off, tail, req, rep, owes, disk>>
      BY <1>0, <1>5 DEF Register, clientVars, TypeOK
    <2>2. HandedOver(s) /\ Place(s, cfile[s]) = "model" /\ cpc[s] \in {"ack", "done"}
      BY <1>0, <1>a, <1>b, <2>1 DEF ServerInv, HandedOver, ClientPC
    <2>3. ClientInv(s)' /\ ExchangeInv(s)'
      BY <1>0, <2>1 DEF ClientInv, ExchangeInv
    <2>4. ServerInv(s)'
      BY <1>c, <2>1, <2>2 DEF ServerInv, HandedOver
    <2>5. StoredInv(s)'
      BY <1>0, <1>a, <1>b, <1>c, <1>d, <2>1 DEF StoredInv, InFlight
    <2>. QED  BY <2>3, <2>4, <2>5 DEF SessionInv
  <1>. QED  BY <1>1, <1>2, <1>3, <1>4, <1>5 DEF ServerStep

-----------------------------------------------------------------------------
(* The theorems *)

LEMMA IInvInit == Init => IInv
  <1> SUFFICES ASSUME Init PROVE IInv
    OBVIOUS
  <1>1. TypeOK /\ registered = {}
    BY TypeInit DEF Init
  <1>2. ASSUME NEW s \in Sessions PROVE SessionInv(s)
    <2>1. /\ cpc[s] = "begin" /\ cfile[s] = "data" /\ off[s] = 0 /\ tail[s] = FALSE
          /\ req[s] = NoMsg /\ rep[s] = FALSE /\ spc[s] = "id" /\ owes[s] = FALSE
      BY DEF Init
    <2>2. length[s]["data"] \in Nat \cup {Unreadable}
      BY <1>1, SessionType DEF Files
    <2>3. \A f, g \in Files : Stored(s, f, g) = 0
      BY DEF Init, Stored
    <2>4. "data" \in Files /\ "model" \in Files /\ \A g \in Files : Place(s, g) \in Files
      BY PlaceFacts DEF Files
    <2>. QED
      BY <2>1, <2>2, <2>3, <2>4
         DEF SessionInv, ClientInv, ExchangeInv, ServerInv, StoredInv, HandedOver, InFlight
  <1>. QED  BY <1>1, <1>2 DEF IInv

LEMMA IInvNext == IInv /\ [Next]_vars => IInv'
  <1> SUFFICES ASSUME IInv, [Next]_vars PROVE IInv'
    OBVIOUS
  <1>0. TypeOK /\ TypeOK' /\ registered \subseteq Sessions
    BY TypeNext DEF IInv, TypeOK
  <1>1. CASE UNCHANGED vars
    <2>1. \A s \in Sessions : Same(s)
      BY <1>1 DEF vars, clientVars, serverVars, Same, Stored
    <2>2. \A s \in Sessions : SessionInv(s)'
      BY <1>0, <2>1, SameKeeps DEF IInv
    <2>. QED  BY <1>0, <1>1, <2>2 DEF IInv, vars, serverVars
  <1>2. ASSUME NEW s \in Sessions, ClientStep(s) \/ ServerStep(s) PROVE IInv'
    <2>1. Step(s)
      BY <1>2 DEF Step, ServerStep
    <2>2. SessionInv(s)'
      BY <1>2, ClientNext, ServerNext
    <2>3. \A r \in Sessions : r # s => Same(r)
      BY <2>1, OthersNext
    <2>4. \A r \in Sessions : r # s => SessionInv(r)'
      BY <1>0, <2>3, SameKeeps DEF IInv
    <2>5. \A r \in registered' : spc'[r] = "done"
      <3> SUFFICES ASSUME NEW r \in registered' PROVE spc'[r] = "done"
        OBVIOUS
      <3>1. r \in Sessions
        BY <1>0 DEF TypeOK
      <3>2. \/ r \in registered
            \/ r = s /\ spc'[s] = "done"
        BY <1>0, <1>2 DEF ClientStep, SendId, RecvIdAck, SkipUnreadable, SendPiece, RecvAck,
                          ServerStep, RecvId, RecvPiece, RecvEmpty, RecvRefused, Register,
                          serverVars, TypeOK
      <3>3. spc[s] = "done" => spc'[s] = "done"
        BY <1>0, <1>2 DEF ClientStep, SendId, RecvIdAck, SkipUnreadable, SendPiece, RecvAck,
                          ServerStep, RecvId, RecvPiece, RecvEmpty, RecvRefused, Register,
                          serverVars, TypeOK, Files
      <3>. QED  BY <2>3, <3>1, <3>2, <3>3 DEF IInv, Same
    <2>. QED  BY <1>0, <2>2, <2>4, <2>5 DEF IInv
  <1>. QED  BY <1>1, <1>2 DEF Next

\* Every reachable state satisfies the inductive invariant.
THEOREM IInvHolds == Spec => []IInv
  <1>1. Init => IInv
    BY IInvInit
  <1>2. IInv /\ [Next]_vars => IInv'
    BY IInvNext
  <1>. QED  BY <1>1, <1>2, PTL DEF Spec

\* The variables keep their types.
THEOREM TypeCorrect == Spec => []TypeOK
  <1>1. IInv => TypeOK
    BY DEF IInv
  <1>. QED  BY <1>1, IInvHolds, PTL

\* When the worker is past the model, all of both files is stored.
LEMMA HandedOverIsComplete ==
  ASSUME IInv, NEW s \in Sessions, HandedOver(s), Place(s, cfile[s]) = "model"
  PROVE  Complete(s)
  <1>0. TypeOK /\ ClientInv(s) /\ ExchangeInv(s) /\ ServerInv(s) /\ StoredInv(s)
    BY DEF IInv, SessionInv
  <1>1. cfile[s] = "model" /\ length[s]["data"] # Unreadable
    BY <1>0, SessionType, PlaceFacts
  <1>2. length[s]["model"] # Unreadable /\ off[s] = length[s]["model"]
    BY <1>0, <1>1 DEF HandedOver, ClientInv
  <1>3. req[s] = NoMsg
    BY <1>0 DEF HandedOver, ExchangeInv
  <1>4. \A g \in Files : Place(s, g) = g
    BY <1>1, PlaceFacts
  <1>5. Stored(s, "model", "model") = length[s]["model"]
    BY <1>0, <1>1, <1>2, <1>3, <1>4 DEF StoredInv, InFlight, Files
  <1>6. Stored(s, "data", "data") = length[s]["data"]
    BY <1>0, <1>1 DEF StoredInv
  <1>7. \A f, g \in Files : f # g => Stored(s, f, g) = 0
    BY <1>0, <1>4 DEF StoredInv
  <1>. QED  BY <1>1, <1>2, <1>5, <1>6, <1>7 DEF Complete, Readable, Files, Stored

\* Whatever the lengths of the files, whichever of them cannot be read, and whatever
\* other sessions do to the process, what is announced on receive-task is complete.
THEOREM AnnouncedIsComplete == Spec => []RegisteredIsComplete
  <1>1. IInv => RegisteredIsComplete
    <2> SUFFICES ASSUME IInv, NEW s \in registered PROVE Complete(s)
      BY DEF RegisteredIsComplete
    <2>1. s \in Sessions /\ spc[s] = "done" /\ ServerInv(s) /\ TypeOK
      BY DEF IInv, TypeOK, SessionInv
    <2>2. cpc[s] \in ClientPC /\ Place(s, cfile[s]) \in Files
      BY <2>1, SessionType, PlaceFacts
    <2>3. HandedOver(s) /\ Place(s, cfile[s]) = "model"
      <3>1. cpc[s] \in {"send", "ack", "done"}
        BY <2>1, <2>2 DEF ServerInv, ClientPC
      <3>. QED  BY <2>1, <2>2, <3>1 DEF ServerInv, Files
    <2>. QED  BY <2>1, <2>3, HandedOverIsComplete
  <1>. QED  BY <1>1, IInvHolds, PTL

\* Nothing is in flight or missing when ClientSyn has returned 0 for two files it
\* could read, which no acknowledgement of the model as a whole says.
THEOREM DoneIsStored == Spec => []ClientDoneIsStored
  <1>1. IInv => ClientDoneIsStored
    <2> SUFFICES ASSUME IInv, NEW s \in Sessions, cpc[s] = "done", Readable(s)
                 PROVE  Complete(s)
      BY DEF ClientDoneIsStored
    <2>1. HandedOver(s) /\ cfile[s] = "model" /\ length[s]["data"] # Unreadable
      BY DEF IInv, SessionInv, ClientInv, HandedOver, Readable, Files
    <2>. QED  BY <2>1, HandedOverIsComplete DEF Place
  <1>. QED  BY <1>1, IInvHolds, PTL

\* Of the file being sent, every byte sent is stored once or in the one message in
\* flight.
THEOREM NoByteIsLost == Spec => []BytesConserved
  <1>1. IInv => BytesConserved
    <2> SUFFICES ASSUME IInv, NEW s \in Sessions, cpc[s] \in {"send", "ack"}, Readable(s)
                 PROVE  off[s] = disk[cfile[s]][<<s, cfile[s]>>] +
                                   (IF req[s] = NoMsg THEN 0 ELSE req[s].size)
      BY DEF BytesConserved
    <2>0. PICK f \in Files : f = cfile[s]
      BY SessionType DEF IInv
    <2>1. TypeOK /\ ExchangeInv(s) /\ StoredInv(s)
      BY DEF IInv, SessionInv
    <2>2. Place(s, f) = f
      BY PlaceFacts DEF Readable, Files
    <2>3. off[s] \in Nat /\ Stored(s, f, f) \in Nat
      BY <2>1, SessionType
    <2>4. req[s] # NoMsg => req[s].file = f
      BY <2>0, <2>1 DEF ExchangeInv
    <2>5. /\ req[s] = NoMsg => off[s] = Stored(s, f, f)
          /\ req[s] # NoMsg => off[s] = Stored(s, f, f) + req[s].size
      BY <2>0, <2>1, <2>2, <2>4 DEF StoredInv, InFlight, Files
    <2>. QED  BY <2>0, <2>3, <2>5 DEF Stored
  <1>. QED  BY <1>1, IInvHolds, PTL

\* What is announced stays announced, and what is stored of its session is final: no
\* message of it is taken for its files any more, whatever its client and others do.
THEOREM AnnouncedIsFinal ==
  Spec => [][\A s \in registered :
               s \in registered' /\ \A f, g \in Files : Stored(s, f, g)' = Stored(s, f, g)]_vars
  <1>1. IInv /\ [Next]_vars =>
          [\A s \in registered :
             s \in registered' /\ \A f, g \in Files : Stored(s, f, g)' = Stored(s, f, g)]_vars
    <2> SUFFICES ASSUME IInv, [Next]_vars, NEW s \in registered
                 PROVE  s \in registered' /\ \A f, g \in Files : Stored(s, f, g)' = Stored(s, f, g)
      OBVIOUS
    <2>0. TypeOK /\ s \in Sessions /\ spc[s] = "done"
      BY DEF IInv, TypeOK
    <2>1. ASSUME NEW r \in Sessions, ClientStep(r)
          PROVE  UNCHANGED <<registered, disk>>
      BY <2>1 DEF ClientStep, SendId, RecvIdAck, SkipUnreadable, SendPiece, RecvAck, serverVars
    <2>2. ASSUME NEW r \in Sessions, ServerStep(r)
          PROVE  s \in registered' /\ \A f, g \in Files : Stored(s, f, g)' = Stored(s, f, g)
      <3>1. s \in registered'
        BY <2>2 DEF ServerStep, RecvId, RecvPiece, RecvEmpty, RecvRefused, Register
      <3>2. ASSUME NEW f \in Files, RecvPiece(r, f)
            PROVE  \A h, g \in Files : Stored(s, h, g)' = Stored(s, h, g)
        <4>1. r # s
          BY <2>0, <3>2 DEF RecvPiece, Files
        <4>2. req[r] # NoMsg /\ spc[r] \in Files /\ disk' = Written(r, f) /\ SessionInv(r)
          BY <3>2 DEF RecvPiece, IInv
        <4>3. PICK k \in Files : req[r].file = k
          BY <2>0, <4>2, PieceFacts, SessionType
        <4>4. \A q \in Sessions, h, g \in Files : q # r => Stored(q, h, g)' = Stored(q, h, g)
          BY <2>0, <4>2, <4>3, WrittenFacts
        <4>. QED  BY <2>0, <4>1, <4>4
      <3>3. CASE UNCHANGED disk
        BY <3>1, <3>3 DEF Stored
      <3>4. CASE RecvId(r) \/ Register(r) \/ \E f \in Files : RecvEmpty(r, f) \/ RecvRefused(r, f)
        BY <3>3, <3>4 DEF RecvId, Register, RecvEmpty, RecvRefused
      <3>. QED  BY <2>2, <3>1, <3>2, <3>4 DEF ServerStep
    <2>3. CASE UNCHANGED vars
      BY <2>3 DEF vars, serverVars, Stored
    <2>. QED  BY <2>1, <2>2, <2>3 DEF Next, Stored
  <1>. QED  BY <1>1, IInvHolds, PTL DEF Spec

-----------------------------------------------------------------------------
(* How a file is cut into messages, and who waits for what.  A file ends with a *)
(* message shorter than the buffer; it is empty, and never answered, exactly    *)
(* when the length is a multiple of BUFFSIZE.                                   *)

Multiple(n) == \E k \in Nat : n = k * BuffSize

\* The last message of file f is not empty.
EndsShort(s, f) == length[s][f] # Unreadable => length[s][f] % BuffSize # 0

\* The loop sends full buffers; the message after it is what is left.  A file that has
\* been acknowledged as a whole ended with a message that was not empty.
CutInv(s) ==
  /\ cpc[s] \in {"send", "ack"} /\ tail[s] = FALSE => Multiple(off[s])
  /\ cpc[s] = "ack" /\ tail[s] = TRUE /\ req[s] # NoMsg =>
       \E k \in Nat : off[s] = k * BuffSize + req[s].size
  /\ owes[s] = TRUE => Multiple(length[s][cfile[s]])
  /\ cpc[s] = "ack" /\ tail[s] = TRUE /\ rep[s] = TRUE => EndsShort(s, cfile[s])
  /\ cfile[s] = "model" => EndsShort(s, "data")
  /\ cpc[s] = "done" => EndsShort(s, "model")

\* A client that waits for a reply has its request or the reply under way, unless the
\* worker's socket is the one that owes it, or the process is gone.
DueInv(s) ==
  cpc[s] \in {"idAck", "ack"} =>
    req[s] # NoMsg \/ rep[s] = TRUE \/ owes[s] = TRUE \/ crashed = TRUE

\* The process dies of a socket that owes a reply, of any session.
CrashInv == crashed = TRUE => \E s \in Sessions : owes[s] = TRUE

WaitInv == IInv /\ CrashInv /\ \A s \in Sessions : CutInv(s) /\ DueInv(s)

\* Multiples, and what is not one.
LEMMA MultipleFacts ==
  ASSUME NEW n \in Nat
  PROVE  /\ Multiple(0)
         /\ Multiple(n) => Multiple(n + BuffSize) /\ n % BuffSize = 0
         /\ \A k, m \in Nat : n = k * BuffSize + m /\ m < BuffSize => n % BuffSize = m
  <1> USE SyncAssumption
  <1>1. 0 \in Nat /\ 0 = 0 * BuffSize
    OBVIOUS
  <1>2. ASSUME NEW k \in Nat, n = k * BuffSize
        PROVE  /\ k + 1 \in Nat /\ n + BuffSize = (k + 1) * BuffSize
               /\ n % BuffSize = 0
    BY <1>2
  <1>3. ASSUME NEW k \in Nat, NEW m \in Nat, n = k * BuffSize + m, m < BuffSize
        PROVE  n % BuffSize = m
    BY <1>3
  <1>4. Multiple(n) => Multiple(n + BuffSize) /\ n % BuffSize = 0
    BY <1>2 DEF Multiple
  <1>. QED  BY <1>1, <1>3, <1>4 DEF Multiple

\* A step of another session leaves the cut alone; what it takes, it takes with the process.
LEMMA WaitOthers ==
  ASSUME IInv, NEW s \in Sessions, Step(s), NEW r \in Sessions, r # s, CutInv(r), DueInv(r)
  PROVE  CutInv(r)' /\ DueInv(r)'
  <1>1. Same(r)
    BY OthersNext
  <1>2. (crashed = TRUE => crashed' = TRUE) /\ (rep'[r] = rep[r] \/ crashed' = TRUE)
    BY DEF Step, ClientStep, SendId, RecvIdAck, SkipUnreadable, SendPiece, RecvAck, RecvId,
           Register, RecvPiece, RecvEmpty, RecvRefused, clientVars, serverVars, IInv, TypeOK
  <1>. QED  BY <1>1, <1>2 DEF Same, CutInv, DueInv, EndsShort

\* SendFile cuts, and goes on to the next file.
LEMMA WaitClient ==
  ASSUME IInv, NEW s \in Sessions, ClientStep(s), CutInv(s), DueInv(s)
  PROVE  CutInv(s)' /\ DueInv(s)'
  <1>0. TypeOK /\ ClientInv(s) /\ ExchangeInv(s)
    BY DEF IInv, SessionInv
  <1>a. /\ cfile[s] \in Files /\ off[s] \in Nat /\ tail[s] \in BOOLEAN /\ rep[s] \in BOOLEAN
        /\ owes[s] \in BOOLEAN /\ Files = {"data", "model"}
        /\ length[s][cfile[s]] \in Nat \cup {Unreadable}
    BY <1>0, SessionType DEF Files
  <1>b. Multiple(0)
    BY MultipleFacts
  <1>1. CASE SendId(s)
    <2>1. /\ cpc[s] = "begin" /\ UNCHANGED <<length, cfile, off, tail, rep, owes>>
          /\ \/ cpc'[s] = "failed"
             \/ cpc'[s] = "idAck" /\ req'[s] = [file |-> "id", size |-> 1]
      BY <1>0, <1>1 DEF SendId, serverVars, TypeOK
    <2>2. [file |-> "id", size |-> 1] # NoMsg
      BY NoMsgAssumption DEF Msg
    <2>. QED  BY <1>0, <2>1, <2>2 DEF CutInv, DueInv, EndsShort, ExchangeInv
  <1>2. CASE RecvIdAck(s)
    <2>1. /\ cpc[s] = "idAck" /\ cpc'[s] = "send"
          /\ UNCHANGED <<length, cfile, off, tail, req, owes>>
      BY <1>0, <1>2 DEF RecvIdAck, serverVars, TypeOK
    <2>2. off[s] = 0
      BY <1>0, <2>1 DEF ClientInv
    <2>. QED  BY <1>b, <2>1, <2>2 DEF CutInv, DueInv, EndsShort
  <1>3. ASSUME NextFile(s), EndsShort(s, cfile[s]), owes[s] = FALSE, UNCHANGED <<length, owes>>
        PROVE  CutInv(s)' /\ DueInv(s)'
    <2>1. /\ cfile'[s] = "model" /\ tail'[s] = FALSE
          /\ cfile[s] = "data" => cpc'[s] = "send" /\ off'[s] = 0
          /\ cfile[s] = "model" => cpc'[s] = "done"
      BY <1>0, <1>3 DEF NextFile, TypeOK
    <2>. QED  BY <1>a, <1>b, <1>3, <2>1 DEF CutInv, DueInv, EndsShort
  <1>4. CASE SkipUnreadable(s)
    <2>1. cpc[s] = "send" /\ NextFile(s) /\ EndsShort(s, cfile[s]) /\ UNCHANGED <<length, owes>>
      BY <1>4 DEF SkipUnreadable, EndsShort, serverVars
    <2>. QED  BY <1>0, <1>a, <1>3, <2>1 DEF ExchangeInv
  <1>5. CASE SendPiece(s)
    <2> DEFINE n == NextSize(s)
               m == [file |-> cfile[s], size |-> n]
    <2>1. /\ cpc[s] = "send" /\ length[s][cfile[s]] # Unreadable /\ cpc'[s] = "ack"
          /\ req'[s] = m /\ off'[s] = off[s] + n /\ tail'[s] = (n < BuffSize)
          /\ UNCHANGED <<length, cfile, rep, owes>>
      BY <1>0, <1>5 DEF SendPiece, serverVars, TypeOK
    <2>2. off[s] <= length[s][cfile[s]] /\ tail[s] = FALSE /\ rep[s] = FALSE /\ owes[s] = FALSE
      BY <1>0, <1>a, <2>1 DEF ClientInv, ExchangeInv
    <2>3. n \in Nat /\ (n < BuffSize \/ n = BuffSize)
      BY <1>0, <1>a, <2>1, <2>2, NextSizeFacts, SyncAssumption DEF NextSize
    <2>4. m \in Msg /\ m.size = n /\ m # NoMsg
      BY <1>a, <2>3, NoMsgAssumption DEF Msg
    <2>5. Multiple(off[s])
      BY <2>1, <2>2 DEF CutInv
    <2>6. \E k \in Nat : off[s] + n = k * BuffSize + n
      BY <2>5 DEF Multiple
    <2> HIDE DEF n, m
    <2>7. tail'[s] = FALSE => Multiple(off'[s])
      BY <1>a, <2>1, <2>3, <2>5, MultipleFacts
    <2>. QED  BY <2>1, <2>2, <2>4, <2>6, <2>7 DEF CutInv, DueInv, EndsShort
  <1>6. CASE RecvAck(s)
    <2>1. cpc[s] = "ack" /\ rep[s] = TRUE /\ owes[s] = FALSE /\ UNCHANGED <<length, req, owes>>
      BY <1>0, <1>a, <1>6 DEF RecvAck, serverVars, ExchangeInv
    <2>2. CASE tail[s] = TRUE
      <3>1. EndsShort(s, cfile[s]) /\ NextFile(s)
        BY <1>6, <2>1, <2>2 DEF CutInv, RecvAck
      <3>. QED  BY <1>3, <2>1, <3>1
    <2>3. CASE tail[s] = FALSE
      <3>1. cpc'[s] = "send" /\ UNCHANGED <<cfile, off, tail>>
        BY <1>0, <1>6, <2>3 DEF RecvAck, TypeOK
      <3>. QED  BY <2>1, <2>3, <3>1 DEF CutInv, DueInv, EndsShort
    <2>. QED  BY <1>a, <2>2, <2>3
  <1>. QED  BY <1>1, <1>2, <1>4, <1>5, <1>6 DEF ClientStep

\* ReceiveFile answers every message but the empty one.
LEMMA WaitServer ==
  ASSUME IInv, NEW s \in Sessions, ServerStep(s), CutInv(s), DueInv(s)
  PROVE  CutInv(s)' /\ DueInv(s)'
  <1>0. TypeOK /\ SessionInv(s) /\ ClientInv(s) /\ ExchangeInv(s) /\ ServerInv(s)
    BY DEF IInv, SessionInv
  <1>a. cfile[s] \in Files /\ off[s] \in Nat /\ length[s][cfile[s]] \in Nat \cup {Unreadable}
    BY <1>0, SessionType
  <1>1. CASE RecvId(s)
    <2>1. /\ req[s] # NoMsg /\ req'[s] = NoMsg /\ rep'[s] = TRUE /\ spc[s] = "id"
          /\ UNCHANGED <<length, cpc, cfile, off, tail, owes>>
      BY <1>0, <1>1 DEF RecvId, clientVars, TypeOK
    <2>2. cpc[s] # "ack"
      <3>1. Place(s, cfile[s]) \in Files
        BY <1>a, PlaceFacts
      <3>. QED  BY <1>0, <2>1, <3>1 DEF ServerInv, HandedOver, Files
    <2>. QED  BY <2>1, <2>2 DEF CutInv, DueInv, EndsShort
  <1>2. ASSUME NEW f \in Files, RecvPiece(s, f) PROVE CutInv(s)' /\ DueInv(s)'
    <2>1. /\ spc[s] = f /\ req[s] # NoMsg /\ req[s].size > 0 /\ req'[s] = NoMsg /\ rep'[s] = TRUE
          /\ UNCHANGED <<length, cpc, cfile, off, tail, owes>>
      BY <1>0, <1>2 DEF RecvPiece, clientVars, TypeOK
    <2>2. /\ cpc[s] = "ack" /\ req[s].size \in Nat
          /\ tail[s] = TRUE <=> req[s].size < BuffSize
      BY <1>0, <2>1, PieceFacts
    <2>3. tail[s] = TRUE => EndsShort(s, cfile[s])
      <3> SUFFICES ASSUME tail[s] = TRUE PROVE EndsShort(s, cfile[s])
        OBVIOUS
      <3>1. PICK k \in Nat : off[s] = k * BuffSize + req[s].size
        BY <2>1, <2>2 DEF CutInv
      <3>2. off[s] = length[s][cfile[s]] /\ req[s].size < BuffSize
        BY <1>0, <2>2 DEF ClientInv
      <3>3. off[s] % BuffSize = req[s].size
        BY <1>a, <2>2, <3>1, <3>2, MultipleFacts
      <3>. QED  BY <2>1, <2>2, <3>2, <3>3 DEF EndsShort
    <2>. QED  BY <2>1, <2>2, <2>3 DEF CutInv, DueInv, EndsShort
  <1>3. ASSUME NEW f \in Files, RecvEmpty(s, f) PROVE CutInv(s)' /\ DueInv(s)'
    <2>1. /\ spc[s] = f /\ req[s] # NoMsg /\ req[s].size = 0 /\ req'[s] = NoMsg /\ owes'[s] = TRUE
          /\ UNCHANGED <<length, cpc, cfile, off, tail, rep>>
      BY <1>0, <1>3 DEF RecvEmpty, clientVars, TypeOK
    <2>2. cpc[s] = "ack" /\ tail[s] = TRUE
      <3>1. cpc[s] = "ack" /\ (tail[s] = TRUE <=> req[s].size < BuffSize)
        BY <1>0, <2>1, PieceFacts
      <3>. QED  BY <2>1, <3>1, SyncAssumption
    <2>3. Multiple(off[s]) /\ off[s] = length[s][cfile[s]]
      <3>1. PICK k \in Nat : off[s] = k * BuffSize + 0
        BY <2>1, <2>2 DEF CutInv
      <3>2. off[s] = k * BuffSize
        BY <3>1, SyncAssumption
      <3>. QED  BY <1>0, <2>2, <3>2 DEF Multiple, ClientInv
    <2>. QED  BY <2>1, <2>2, <2>3 DEF CutInv, DueInv, EndsShort
  <1>4. ASSUME NEW f \in Files, RecvRefused(s, f) PROVE CutInv(s)' /\ DueInv(s)'
    <2>1. /\ crashed' = TRUE /\ (rep'[s] = TRUE => rep[s] = TRUE)
          /\ UNCHANGED <<length, cpc, cfile, off, tail, req, owes>>
      BY <1>0, <1>4 DEF RecvRefused, clientVars, TypeOK
    <2>. QED  BY <2>1 DEF CutInv, DueInv, EndsShort
  <1>5. CASE Register(s)
    <2>1. UNCHANGED <<length, cpc, cfile, off, tail, req, rep, owes, crashed>>
      BY <1>5 DEF Register, clientVars
    <2>. QED  BY <2>1 DEF CutInv, DueInv, EndsShort
  <1>. QED  BY <1>1, <1>2, <1>3, <1>4, <1>5 DEF ServerStep

LEMMA WaitInvHolds == Spec => []WaitInv
  <1>1. Init => WaitInv
    <2> SUFFICES ASSUME Init PROVE WaitInv
      OBVIOUS
    <2>1. ASSUME NEW s \in Sessions PROVE CutInv(s) /\ DueInv(s)
      BY DEF Init, CutInv, DueInv, EndsShort
    <2>. QED  BY <2>1, IInvInit DEF WaitInv, CrashInv, Init
  <1>2. WaitInv /\ [Next]_vars => WaitInv'
    <2> SUFFICES ASSUME WaitInv, [Next]_vars PROVE WaitInv'
      OBVIOUS
    <2>0. IInv /\ IInv' /\ TypeOK
      BY IInvNext DEF WaitInv, IInv
    <2>1. CASE UNCHANGED vars
      BY <2>0, <2>1
         DEF vars, clientVars, serverVars, WaitInv, CrashInv, CutInv, DueInv, EndsShort
    <2>2. ASSUME NEW s \in Sessions, ClientStep(s) \/ ServerStep(s) PROVE WaitInv'
      <3>1. Step(s)
        BY <2>2 DEF Step, ServerStep
      <3>2. ASSUME NEW r \in Sessions PROVE CutInv(r)' /\ DueInv(r)'
        BY <2>0, <2>2, <3>1, <3>2, WaitOthers, WaitClient, WaitServer DEF WaitInv
      <3>3. \A r \in Sessions : owes[r] = TRUE => owes'[r] = TRUE
        BY <2>0, <3>1 DEF Step, ClientStep, SendId, RecvIdAck, SkipUnreadable, SendPiece, RecvAck,
                          RecvId, Register, RecvPiece, RecvEmpty, RecvRefused, clientVars,
                          serverVars, TypeOK
      <3>4. (crashed' = TRUE) => crashed = TRUE \/ owes[s] = TRUE
        BY <2>0, <3>1 DEF Step, ClientStep, SendId, RecvIdAck, SkipUnreadable, SendPiece, RecvAck,
                          RecvId, Register, RecvPiece, RecvEmpty, RecvRefused, clientVars,
                          serverVars, TypeOK
      <3>5. CrashInv'
        BY <3>3, <3>4 DEF WaitInv, CrashInv
      <3>. QED  BY <2>0, <3>2, <3>5 DEF WaitInv
    <2>. QED  BY <2>1, <2>2 DEF Next
  <1>. QED  BY <1>1, <1>2, PTL DEF Spec

\* A REP socket is left owing a reply, and the worker's process dies of one, only by a
\* file whose length is a multiple of BUFFSIZE: its own, or that of another session.
THEOREM OnlyMultiplesCrash ==
  Spec => []/\ \A s \in Sessions : owes[s] = TRUE => length[s][cfile[s]] % BuffSize = 0
            /\ crashed = TRUE => \E s \in Sessions : ~Ordinary(s)
  <1>1. WaitInv => /\ \A s \in Sessions : owes[s] = TRUE => length[s][cfile[s]] % BuffSize = 0
                   /\ crashed = TRUE => \E s \in Sessions : ~Ordinary(s)
    <2> SUFFICES ASSUME WaitInv
                 PROVE  /\ \A s \in Sessions : owes[s] = TRUE => length[s][cfile[s]] % BuffSize = 0
                        /\ crashed = TRUE => \E s \in Sessions : ~Ordinary(s)
      OBVIOUS
    <2>1. ASSUME NEW s \in Sessions, owes[s] = TRUE
          PROVE  cfile[s] \in Files /\ length[s][cfile[s]] % BuffSize = 0
      <3>1. cfile[s] \in Files /\ length[s][cfile[s]] \in Nat \cup {Unreadable}
        BY SessionType DEF WaitInv, IInv
      <3>2. length[s][cfile[s]] # Unreadable /\ Multiple(length[s][cfile[s]])
        BY <2>1 DEF WaitInv, IInv, SessionInv, ExchangeInv, ClientInv, CutInv
      <3>. QED  BY <3>1, <3>2, MultipleFacts
    <2>. QED  BY <2>1 DEF WaitInv, CrashInv, Ordinary
  <1>. QED  BY <1>1, WaitInvHolds, PTL

\* The transfer of a file whose length is a multiple of BUFFSIZE never ends, whatever the
\* length and the buffer: when ClientSyn has returned 0 for two files it could read,
\* neither was one.
THEOREM OnlyOrdinaryEnds ==
  Spec => [](\A s \in Sessions : cpc[s] = "done" /\ Readable(s) => Ordinary(s))
  <1>1. WaitInv => \A s \in Sessions : cpc[s] = "done" /\ Readable(s) => Ordinary(s)
    BY DEF WaitInv, IInv, SessionInv, ClientInv, CutInv, EndsShort, Readable, Ordinary, Files
  <1>. QED  BY <1>1, WaitInvHolds, PTL

\* A session is over on both sides.
Over(s) == cpc[s] = "failed" \/ (cpc[s] = "done" /\ spc[s] \in {"done", "failed"})

\* The guard of one of the session's steps holds: the client has something to send, or
\* the reply it waits for has come; the worker has a request it can receive, or is about
\* to announce the task.
MayGoOn(s) ==
  \/ cpc[s] \in {"begin", "send"}
  \/ cpc[s] \in {"idAck", "ack"} /\ rep[s] = TRUE
  \/ crashed = FALSE /\ spc[s] \in {"id"} \cup Files /\ owes[s] = FALSE /\ req[s] # NoMsg
  \/ crashed = FALSE /\ spc[s] = "register"

\* Where all files are ordinary, client and worker never wait for each other: a session
\* that is not over has a step to take.  The safety half of OrdinarySessionsEnd.
THEOREM OrdinaryNeverStuck ==
  Spec => []((\A r \in Sessions : Ordinary(r)) => \A s \in Sessions : Over(s) \/ MayGoOn(s))
  <1>1. ASSUME WaitInv, \A r \in Sessions : Ordinary(r), NEW s \in Sessions
        PROVE  Over(s) \/ MayGoOn(s)
    <2>0. TypeOK /\ ClientInv(s) /\ ExchangeInv(s) /\ ServerInv(s) /\ DueInv(s)
      BY <1>1 DEF WaitInv, IInv, SessionInv
    <2>1. \A r \in Sessions : owes[r] = FALSE
      <3> SUFFICES ASSUME NEW r \in Sessions, owes[r] = TRUE PROVE FALSE
        BY <2>0, SessionType
      <3>1. cfile[r] \in Files /\ length[r][cfile[r]] \in Nat \cup {Unreadable}
        BY <2>0, SessionType
      <3>2. length[r][cfile[r]] # Unreadable /\ Multiple(length[r][cfile[r]])
        BY <1>1, <3>1 DEF WaitInv, CutInv, Ordinary, Readable
      <3>3. length[r][cfile[r]] % BuffSize = 0
        BY <3>1, <3>2, MultipleFacts
      <3>. QED  BY <1>1, <3>1, <3>3 DEF Ordinary
    <2>2. crashed = FALSE
      BY <1>1, <2>0, <2>1 DEF WaitInv, CrashInv, TypeOK
    <2>3. cpc[s] \in ClientPC /\ cfile[s] \in Files /\ Place(s, cfile[s]) \in Files
      BY <2>0, SessionType, PlaceFacts
    <2>4. CASE cpc[s] \in {"idAck", "ack"}
      <3>1. req[s] # NoMsg => spc[s] \in {"id"} \cup Files
        BY <2>0, <2>3, <2>4 DEF ServerInv, HandedOver
      <3>. QED  BY <2>0, <2>1, <2>2, <2>4, <3>1 DEF DueInv, MayGoOn
    <2>5. CASE cpc[s] = "done"
      <3>1. length[s]["data"] # Unreadable /\ length[s]["model"] # Unreadable
        BY <1>1 DEF Ordinary, Readable, Files
      <3>2. HandedOver(s) /\ Place(s, cfile[s]) = "model"
        BY <2>0, <2>5, <3>1 DEF HandedOver, ClientInv, Place
      <3>. QED  BY <2>0, <2>2, <2>5, <3>2 DEF ServerInv, Over, MayGoOn
    <2>. QED  BY <2>3, <2>4, <2>5 DEF ClientPC, Over, MayGoOn
  <1>2. WaitInv => ((\A r \in Sessions : Ordinary(r)) => \A s \in Sessions : Over(s) \/ MayGoOn(s))
    BY <1>1
  <1>. QED  BY <1>2, WaitInvHolds, PTL

-----------------------------------------------------------------------------
(* Every step brings a session nearer to its end *)

\* How far the two sides of a session are: to 0, where the side is over.
ClientStage(s) ==
  CASE cpc[s] = "begin" -> 4
    [] cpc[s] = "idAck" -> 3
    [] cpc[s] \in {"send", "ack"} -> IF cfile[s] = "data" THEN 2 ELSE 1
    [] cpc[s] \in {"done", "failed"} -> 0
ServerStage(s) ==
  CASE spc[s] = "id" -> 4 [] spc[s] = "data" -> 3 [] spc[s] = "model" -> 2
    [] spc[s] = "register" -> 1 [] spc[s] \in {"done", "failed"} -> 0

\* A step that brings session s nearer to its end: one side goes on to its next stage,
\* or more of the file has been sent, or what was sent last has been received, or what
\* was received has been acknowledged.
Nearer(s) ==
  \/ ClientStage(s)' < ClientStage(s) /\ ServerStage(s)' = ServerStage(s)
  \/ ServerStage(s)' < ServerStage(s) /\ ClientStage(s)' = ClientStage(s)
  \/ /\ ClientStage(s)' = ClientStage(s) /\ ServerStage(s)' = ServerStage(s)
     /\ \/ off'[s] > off[s]
        \/ /\ off'[s] = off[s]
           /\ \/ tail[s] = FALSE /\ tail'[s] = TRUE
              \/ /\ tail'[s] = tail[s]
                 /\ \/ req[s] # NoMsg /\ req'[s] = NoMsg
                    \/ req'[s] = req[s] /\ rep[s] = TRUE /\ rep'[s] = FALSE

LEMMA ClientNearer ==
  ASSUME IInv, NEW s \in Sessions, ClientStep(s)
  PROVE  Nearer(s)
  <1> USE SyncAssumption
  <1>0. /\ TypeOK /\ ClientInv(s) /\ ExchangeInv(s)
        /\ cpc[s] \in ClientPC /\ cfile[s] \in Files /\ off[s] \in Nat /\ tail[s] \in BOOLEAN
        /\ rep[s] \in BOOLEAN
    BY SessionType DEF IInv, SessionInv
  <1>a. spc' = spc => ServerStage(s)' = ServerStage(s)
    BY DEF ServerStage
  <1>1. CASE SendId(s)
    <2>1. cpc[s] = "begin" /\ cpc'[s] \in {"failed", "idAck"} /\ spc' = spc
      BY <1>0, <1>1 DEF SendId, serverVars, TypeOK
    <2>2. ClientStage(s)' < ClientStage(s)
      BY <2>1 DEF ClientStage
    <2>. QED  BY <1>a, <2>1, <2>2 DEF Nearer
  <1>2. CASE RecvIdAck(s)
    <2>1. cpc[s] = "idAck" /\ cpc'[s] = "send" /\ spc' = spc
      BY <1>0, <1>2 DEF RecvIdAck, serverVars, TypeOK
    <2>2. ClientStage(s)' < ClientStage(s)
      BY <2>1 DEF ClientStage
    <2>. QED  BY <1>a, <2>1, <2>2 DEF Nearer
  <1>3. ASSUME NextFile(s), cpc[s] \in {"send", "ack"}, spc' = spc PROVE Nearer(s)
    <2>1. cpc'[s] = (IF cfile[s] = "data" THEN "send" ELSE "done") /\ cfile'[s] = "model"
      BY <1>0, <1>3 DEF NextFile, TypeOK
    <2>2. ClientStage(s)' < ClientStage(s)
      BY <1>3, <2>1 DEF ClientStage
    <2>. QED  BY <1>3, <1>a, <2>2 DEF Nearer
  <1>4. CASE SkipUnreadable(s)
    BY <1>3, <1>4 DEF SkipUnreadable, serverVars
  <1>5. CASE SendPiece(s)
    <2>1. /\ cpc[s] = "send" /\ cpc'[s] = "ack" /\ cfile' = cfile /\ spc' = spc
          /\ off'[s] = off[s] + NextSize(s) /\ tail'[s] = (NextSize(s) < BuffSize)
      BY <1>0, <1>5 DEF SendPiece, serverVars, TypeOK
    <2>2. NextSize(s) \in Nat
      BY <1>0, <1>5, NextSizeFacts DEF SendPiece, ClientInv
    <2>3. ClientStage(s)' = ClientStage(s)
      BY <2>1 DEF ClientStage
    <2>4. tail[s] = FALSE
      BY <1>0, <2>1 DEF ClientInv
    <2>5. CASE NextSize(s) = 0
      <3>1. off'[s] = off[s] /\ NextSize(s) < BuffSize
        BY <1>0, <2>1, <2>5
      <3>2. tail'[s] = TRUE
        BY <2>1, <3>1, Zenon
      <3>. QED  BY <1>a, <2>1, <2>3, <2>4, <3>1, <3>2 DEF Nearer
    <2>6. CASE NextSize(s) # 0
      <3>1. off'[s] > off[s]
        BY <1>0, <2>1, <2>2, <2>6
      <3>. QED  BY <1>a, <2>1, <2>3, <3>1 DEF Nearer
    <2>. QED  BY <2>5, <2>6
  <1>6. CASE RecvAck(s)
    <2>1. cpc[s] = "ack" /\ rep[s] = TRUE /\ rep'[s] = FALSE /\ req' = req /\ spc' = spc
      BY <1>0, <1>6 DEF RecvAck, serverVars, TypeOK
    <2>2. CASE tail[s]
      BY <1>3, <1>6, <2>1, <2>2 DEF RecvAck
    <2>3. CASE ~tail[s]
      <3>1. cpc'[s] = "send" /\ UNCHANGED <<cfile, off, tail>>
        BY <1>0, <1>6, <2>3 DEF RecvAck, TypeOK
      <3>2. ClientStage(s)' = ClientStage(s)
        BY <2>1, <3>1 DEF ClientStage
      <3>. QED  BY <1>a, <2>1, <3>1, <3>2 DEF Nearer
    <2>. QED  BY <2>2, <2>3
  <1>. QED  BY <1>1, <1>2, <1>4, <1>5, <1>6 DEF ClientStep

LEMMA ServerNearer ==
  ASSUME IInv, NEW s \in Sessions, ServerStep(s), ~(crashed = FALSE /\ crashed' = TRUE)
  PROVE  Nearer(s)
  <1>0. TypeOK /\ spc[s] \in ServerPC /\ req[s] \in Msg \cup {NoMsg}
    BY SessionType DEF IInv
  <1>a. UNCHANGED clientVars => ClientStage(s)' = ClientStage(s)
    BY DEF ClientStage, clientVars
  <1>1. CASE RecvId(s)
    <2>1. spc[s] = "id" /\ spc'[s] = "data" /\ UNCHANGED clientVars
      BY <1>0, <1>1 DEF RecvId, TypeOK
    <2>2. ServerStage(s)' < ServerStage(s)
      BY <2>1 DEF ServerStage
    <2>. QED  BY <1>a, <2>1, <2>2 DEF Nearer
  <1>2. ASSUME NEW f \in Files, RecvPiece(s, f) PROVE Nearer(s)
    <2>1. /\ spc[s] = f /\ spc'[s] \in {f, After(f)} /\ UNCHANGED clientVars
          /\ req[s] # NoMsg /\ req'[s] = NoMsg
      BY <1>0, <1>2 DEF RecvPiece, TypeOK
    <2>2. CASE spc'[s] = f
      <3>1. ServerStage(s)' = ServerStage(s)
        BY <2>1, <2>2 DEF ServerStage
      <3>. QED  BY <1>a, <2>1, <3>1 DEF Nearer, clientVars
    <2>3. CASE spc'[s] = After(f)
      <3>1. ServerStage(s)' < ServerStage(s)
        BY <2>1, <2>3 DEF ServerStage, After, Files
      <3>. QED  BY <1>a, <2>1, <3>1 DEF Nearer
    <2>. QED  BY <2>1, <2>2, <2>3
  <1>3. ASSUME NEW f \in Files, RecvEmpty(s, f) PROVE Nearer(s)
    <2>1. spc[s] = f /\ spc'[s] = After(f) /\ UNCHANGED clientVars
      BY <1>0, <1>3 DEF RecvEmpty, TypeOK
    <2>2. ServerStage(s)' < ServerStage(s)
      BY <2>1 DEF ServerStage, After, Files
    <2>. QED  BY <1>a, <2>1, <2>2 DEF Nearer
  <1>4. ASSUME NEW f \in Files, RecvRefused(s, f) PROVE FALSE
    BY <1>0, <1>4 DEF RecvRefused, TypeOK
  <1>5. CASE Register(s)
    <2>1. spc[s] = "register" /\ spc'[s] \in {"done", "failed"} /\ UNCHANGED clientVars
      BY <1>0, <1>5 DEF Register, TypeOK
    <2>2. ServerStage(s)' < ServerStage(s)
      BY <2>1 DEF ServerStage
    <2>. QED  BY <1>a, <2>1, <2>2 DEF Nearer
  <1>. QED  BY <1>1, <1>2, <1>3, <1>4, <1>5 DEF ServerStep

\* Client and worker never send for ever: whatever the lengths of the files, every step
\* of a session, except the one that ends the process, brings it nearer to its end, and
\* no more is sent of a file than it has.  A session that does not end stands still; with
\* OrdinaryNeverStuck, one whose files are ordinary does not, which leaves
\* OrdinarySessionsEnd to fairness alone.
THEOREM SessionsComeNearer ==
  Spec => /\ [](\A s \in Sessions : length[s][cfile[s]] # Unreadable => off[s] <= length[s][cfile[s]])
          /\ [][\A s \in Sessions : ClientStep(s) \/ ServerStep(s) =>
                  Nearer(s) \/ (crashed = FALSE /\ crashed' = TRUE)]_vars
  <1>1. IInv => \A s \in Sessions : length[s][cfile[s]] # Unreadable => off[s] <= length[s][cfile[s]]
    BY DEF IInv, SessionInv, ClientInv
  <1>2. IInv /\ [Next]_vars =>
          [\A s \in Sessions : ClientStep(s) \/ ServerStep(s) =>
             Nearer(s) \/ (crashed = FALSE /\ crashed' = TRUE)]_vars
    BY ClientNearer, ServerNearer
  <1>. QED  BY <1>1, <1>2, IInvHolds, PTL DEF Spec
=============================================================================
