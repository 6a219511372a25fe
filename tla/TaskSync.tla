------------------------------ MODULE TaskSync ------------------------------
(***************************************************************************)
(* The transfer of a task from a client to the worker chosen for it:       *)
(* ClientSyn and ServerSyn (synchronous.h) over SendFile and ReceiveFile   *)
(* (file-transfer.h).  A session is one client's call of ClientSyn on its  *)
(* REQ socket and the call of ServerSyn that the worker runs for it in a   *)
(* thread of its pool (LBWorker::CreateSocket), on a REP socket connected  *)
(* to that client.  All sessions modelled here are served by one worker    *)
(* process, whose failure ends all of them.                                *)
(*                                                                         *)
(* A file is its length in bytes.  A message is the file it comes from and *)
(* its size; a size that is 0 is a message too.  The directory a worker    *)
(* stores into is named after the task id, which is one constant in the    *)
(* code (synchronous.h:24), so all sessions write the same two files, and  *)
(* append to them.  What the files hold is counted per source.             *)
(***************************************************************************)
EXTENDS Naturals, FiniteSets

CONSTANTS Sessions,   \* client, worker pairs
          Lengths,    \* the lengths a file may have
          Unreadable, \* the "length" of a file that cannot be opened
          BuffSize,   \* BUFFSIZE, and the 1024 of ReceiveFile
          NoMsg       \* nothing is in flight

ASSUME SyncAssumption ==
  /\ BuffSize \in Nat \ {0}
  /\ Lengths \subseteq Nat
  /\ Unreadable \notin Nat

Files == {"data", "model"}

\* What a request carries: a piece of a file, or the task id.
Msg == [file : Files \cup {"id"}, size : Nat]

ASSUME NoMsgAssumption == NoMsg \notin Msg

VARIABLES length,     \* the files of each session's task
          cpc,        \* where ClientSyn is
          cfile,      \* the file SendFile is sending
          off,        \* the bytes of it sent so far
          tail,       \* the last message sent was the one after the loop
          req, rep,   \* in flight: the request, whether a reply is
          spc,        \* where ServerSyn is
          owes,       \* the REP socket has a request it has not replied to
          crashed,    \* the worker process has died
          disk,       \* the bytes appended to each stored file, by source
          registered  \* the sessions whose id was pushed on receive-task

clientVars == <<cpc, cfile, off, tail>>
serverVars == <<spc, owes, crashed, disk, registered>>
vars == <<length, clientVars, req, rep, serverVars>>

ClientPC == {"begin", "idAck", "send", "ack", "done", "failed"}
ServerPC == {"id", "data", "model", "register", "done", "failed"}

Init ==
  /\ length \in [Sessions -> [Files -> Lengths \cup {Unreadable}]]
  /\ cpc = [s \in Sessions |-> "begin"]
  /\ cfile = [s \in Sessions |-> "data"]
  /\ off = [s \in Sessions |-> 0]
  /\ tail = [s \in Sessions |-> FALSE]
  /\ req = [s \in Sessions |-> NoMsg]
  /\ rep = [s \in Sessions |-> FALSE]
  /\ spc = [s \in Sessions |-> "id"]
  /\ owes = [s \in Sessions |-> FALSE]
  /\ crashed = FALSE
  /\ disk = [f \in Files |-> [src \in Sessions \X Files |-> 0]]
  /\ registered = {}

-----------------------------------------------------------------------------
(* The client: ClientSyn *)

\* The task id is read from redis, which may be out of reach, and sent.
SendId(s) ==
  /\ cpc[s] = "begin"
  /\ \/ /\ cpc' = [cpc EXCEPT ![s] = "failed"]
        /\ UNCHANGED req
     \/ /\ cpc' = [cpc EXCEPT ![s] = "idAck"]
        /\ req' = [req EXCEPT ![s] = [file |-> "id", size |-> 1]]
  /\ UNCHANGED <<length, cfile, off, tail, rep, serverVars>>

\* "DATA_OK" has come: SendFile is called for the data file.
RecvIdAck(s) ==
  /\ cpc[s] = "idAck"
  /\ rep[s]
  /\ rep' = [rep EXCEPT ![s] = FALSE]
  /\ cpc' = [cpc EXCEPT ![s] = "send"]
  /\ UNCHANGED <<length, cfile, off, tail, req, serverVars>>

\* Mutant: the position is kept from one file to the next.
NextFileKeepsOffset(s) ==
  /\ cpc' = [cpc EXCEPT ![s] = IF cfile[s] = "data" THEN "send" ELSE "done"]
  /\ cfile' = [cfile EXCEPT ![s] = "model"]
  /\ tail' = [tail EXCEPT ![s] = FALSE]
  /\ UNCHANGED off

\* SendFile returns: ClientSyn goes on to the model file, or returns 0.
NextFile(s) ==
  /\ cpc' = [cpc EXCEPT ![s] = IF cfile[s] = "data" THEN "send" ELSE "done"]
  /\ cfile' = [cfile EXCEPT ![s] = "model"]
  /\ off' = [off EXCEPT ![s] = IF cfile[s] = "data" THEN 0 ELSE off[s]]
  /\ tail' = [tail EXCEPT ![s] = FALSE]

\* The file does not open: SendFile returns 0 and has sent nothing.
SkipUnreadable(s) ==
  /\ cpc[s] = "send"
  /\ length[s][cfile[s]] = Unreadable
  /\ NextFile(s)
  /\ UNCHANGED <<length, req, rep, serverVars>>

Remaining(s) == length[s][cfile[s]] - off[s]

\* The size of the message SendFile sends next: a full buffer in the loop, and
\* after it whatever is left, which is nothing when the last buffer was full.
NextSize(s) == IF Remaining(s) >= BuffSize THEN BuffSize ELSE Remaining(s)

SendPiece(s) ==
  /\ cpc[s] = "send"
  /\ length[s][cfile[s]] # Unreadable
  /\ req' = [req EXCEPT ![s] = [file |-> cfile[s], size |-> NextSize(s)]]
  /\ off' = [off EXCEPT ![s] = off[s] + NextSize(s)]
  /\ tail' = [tail EXCEPT ![s] = NextSize(s) < BuffSize]
  /\ cpc' = [cpc EXCEPT ![s] = "ack"]
  /\ UNCHANGED <<length, cfile, rep, serverVars>>

\* Mutant: the acknowledgement is not waited for.
RecvAckNotAwaited(s) ==
  /\ cpc[s] = "ack"
  /\ rep' = [rep EXCEPT ![s] = FALSE]
  /\ IF tail[s] THEN NextFile(s)
                ELSE cpc' = [cpc EXCEPT ![s] = "send"] /\ UNCHANGED <<cfile, off, tail>>
  /\ UNCHANGED <<length, req, serverVars>>

\* zmq_msg_recv after each message sent: the next piece, or the next file.
RecvAck(s) ==
  /\ cpc[s] = "ack"
  /\ rep[s]
  /\ rep' = [rep EXCEPT ![s] = FALSE]
  /\ IF tail[s] THEN NextFile(s)
                ELSE cpc' = [cpc EXCEPT ![s] = "send"] /\ UNCHANGED <<cfile, off, tail>>
  /\ UNCHANGED <<length, req, serverVars>>

-----------------------------------------------------------------------------
(* The worker: ServerSyn *)

\* The id has come; "DATA_OK" is sent and the directory made, if it is not there.
RecvId(s) ==
  /\ ~crashed
  /\ spc[s] = "id"
  /\ req[s] # NoMsg
  /\ req' = [req EXCEPT ![s] = NoMsg]
  /\ rep' = [rep EXCEPT ![s] = TRUE]
  /\ spc' = [spc EXCEPT ![s] = "data"]
  /\ UNCHANGED <<length, owes, crashed, disk, registered, clientVars>>

\* ReceiveFile(data.npy) is followed by ReceiveFile(model.h5), then by redis.
After(f) == IF f = "data" THEN "model" ELSE "register"

\* Mutant: the file is opened without ios::app.
Overwritten(s, f) == [disk EXCEPT ![f][<<s, req[s].file>>] = req[s].size]

\* WriteFile: the bytes of the message are appended to file f.
Written(s, f) == [disk EXCEPT ![f][<<s, req[s].file>>] = @ + req[s].size]

\* Mutant: a full buffer ends the file.
EndsFileWhenFull(n) == n <= BuffSize

\* Mutant: only an empty message ends the file.
EndsFileNever(n) == n = 0

EndsFile(n) == n < BuffSize

\* One turn of ReceiveFile with a message that is not empty: it is appended and
\* acknowledged, and a short one ends the file.
RecvPiece(s, f) ==
  /\ ~crashed
  /\ spc[s] = f /\ ~owes[s]
  /\ req[s] # NoMsg /\ req[s].size > 0
  /\ disk' = Written(s, f)
  /\ req' = [req EXCEPT ![s] = NoMsg]
  /\ rep' = [rep EXCEPT ![s] = TRUE]
  /\ spc' = [spc EXCEPT ![s] = IF EndsFile(req[s].size) THEN After(f) ELSE f]
  /\ UNCHANGED <<length, owes, crashed, registered, clientVars>>

\* The condition of the loop is the size received: an empty message ends the
\* file too, but nothing is sent back.
RecvEmpty(s, f) ==
  /\ ~crashed
  /\ spc[s] = f /\ ~owes[s]
  /\ req[s] # NoMsg /\ req[s].size = 0
  /\ req' = [req EXCEPT ![s] = NoMsg]
  /\ owes' = [owes EXCEPT ![s] = TRUE]
  /\ spc' = [spc EXCEPT ![s] = After(f)]
  /\ UNCHANGED <<length, rep, crashed, disk, registered, clientVars>>

\* A REP socket that owes a reply refuses to receive: rc is -1, the buffer gets
\* that size, and the copy into it ends the process.  Replies of any session that
\* were handed to the socket and not yet sent are lost with it.
RecvRefused(s, f) ==
  /\ ~crashed
  /\ spc[s] = f /\ owes[s]
  /\ crashed' = TRUE
  /\ \E lost \in SUBSET Sessions : rep' = [r \in Sessions |-> rep[r] /\ r \notin lost]
  /\ UNCHANGED <<length, req, spc, owes, disk, registered, clientVars>>

\* LPUSH receive-task, unless redis is out of reach.  The socket is closed.
Register(s) ==
  /\ ~crashed
  /\ spc[s] = "register"
  /\ \/ spc' = [spc EXCEPT ![s] = "failed"] /\ UNCHANGED registered
     \/ spc' = [spc EXCEPT ![s] = "done"] /\ registered' = registered \cup {s}
  /\ UNCHANGED <<length, req, rep, owes, crashed, disk, clientVars>>

ClientStep(s) ==
  SendId(s) \/ RecvIdAck(s) \/ SkipUnreadable(s) \/ SendPiece(s) \/ RecvAck(s)

ServerStep(s) ==
  \/ RecvId(s)
  \/ \E f \in Files : RecvPiece(s, f) \/ RecvEmpty(s, f) \/ RecvRefused(s, f)
  \/ Register(s)

Next == \E s \in Sessions : ClientStep(s) \/ ServerStep(s)

Spec == Init /\ [][Next]_vars

\* Messages arrive and threads run: each side of each session goes on while it can.
Fairness == \A s \in Sessions : WF_vars(ClientStep(s)) /\ WF_vars(ServerStep(s))

FairSpec == Spec /\ Fairness

-----------------------------------------------------------------------------
(* Correctness *)

\* The values the variables range over.
TypeOK ==
  /\ length \in [Sessions -> [Files -> Lengths \cup {Unreadable}]]
  /\ cpc \in [Sessions -> ClientPC]
  /\ cfile \in [Sessions -> Files]
  /\ off \in [Sessions -> Nat]
  /\ tail \in [Sessions -> BOOLEAN]
  /\ req \in [Sessions -> Msg \cup {NoMsg}]
  /\ rep \in [Sessions -> BOOLEAN]
  /\ spc \in [Sessions -> ServerPC]
  /\ owes \in [Sessions -> BOOLEAN]
  /\ crashed \in BOOLEAN
  /\ disk \in [Files -> [Sessions \X Files -> Nat]]
  /\ registered \subseteq Sessions

Readable(s) == \A f \in Files : length[s][f] # Unreadable

\* Every file of the session has a last message that is short and not empty.
Ordinary(s) == Readable(s) /\ \A f \in Files : length[s][f] % BuffSize # 0

\* What the worker has stored of session s is exactly its two files, each in its
\* place.
Complete(s) ==
  /\ Readable(s)
  /\ \A f, g \in Files : disk[f][<<s, g>>] = IF f = g THEN length[s][f] ELSE 0

\* A task is announced on receive-task only when all of its data and all of its
\* model have been stored, whatever their lengths, also when one cannot be read,
\* and whatever other sessions do to the process.
RegisteredIsComplete == \A s \in registered : Complete(s)

\* ClientSyn returns 0 for files it could read only when the worker has stored
\* all of both: the acknowledgements leave no byte in flight.
ClientDoneIsStored ==
  \A s \in Sessions : cpc[s] = "done" /\ Readable(s) => Complete(s)

\* The request and its reply take turns: of the file being sent, what SendFile
\* has sent is what ReceiveFile has stored plus the message in flight.
BytesConserved ==
  \A s \in Sessions :
    cpc[s] \in {"send", "ack"} /\ Readable(s) =>
      LET f == cfile[s] IN
      off[s] = disk[f][<<s, f>>] + (IF req[s] = NoMsg THEN 0 ELSE req[s].size)

\* A transfer between two processes that find redis and whose files are ordinary
\* ends on both sides, if those of the other sessions on the worker are too: a
\* session that is not can take the process down.
OrdinarySessionsEnd ==
  \A s \in Sessions :
    (cpc[s] = "begin" /\ \A r \in Sessions : Ordinary(r)) ~>
      (cpc[s] = "failed" \/ (cpc[s] = "done" /\ spc[s] \in {"done", "failed"}))

\* "send the task id; when it is confirmed, send the data, send the model"
\* (readme-file/Edge AI future, deployment notes, the synchronisation step): for
\* files that can be read the transfer ends.  The code breaks it: when the length
\* is a multiple of BUFFSIZE the empty last message is never acknowledged.
TransferEnds ==
  \A s \in Sessions :
    (cpc[s] = "begin" /\ Readable(s)) ~> (cpc[s] \in {"done", "failed"})
=============================================================================
