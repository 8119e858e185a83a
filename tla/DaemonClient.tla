---------------------------- MODULE DaemonClient ----------------------------
(***************************************************************************)
(* One connection to qid and the goroutines that share it: Client.Call     *)
(* (internal/daemon/client/client.go) writes a request line and reads one  *)
(* response line under a mutex; Server.ServeConn (internal/daemon/         *)
(* server.go) answers the lines of a connection one after the other.  A    *)
(* call's deadline may pass before it has written its line, or before the  *)
(* reply's line is complete; the connection is used again all the same.    *)
(***************************************************************************)
EXTENDS Integers, Sequences, SequencesExt, FiniteSets

CONSTANTS
  Goroutines, \* the ones that share the connection
  MaxCalls    \* bound: calls made on it

ASSUME ClientAssumption == MaxCalls \in Nat \ {0} /\ IsFiniteSet(Goroutines)

CallIds == 1 .. MaxCalls
NoReplyId == 0   \* the id of a reply to a line that did not parse, and of none

VARIABLES
  call,       \* per caller: stage of its call and the id it sent
  nextID,
  toServer,   \* pieces of request lines not read by the daemon yet
  toClient,   \* pieces of response lines not read by the client yet
  replying,   \* the id of the reply qid is writing, or <<>>
  open,       \* FALSE once qid closed the connection
  outcome,    \* per id: "", "ok" or "error"
  accepted,   \* history: the id the reply that was returned belongs to
  timedOut    \* history: a deadline passed on this connection

clientVars == <<call, nextID, toServer, toClient, replying, open, outcome, accepted, timedOut>>

Piece(i, p) == [id |-> i, piece |-> p]

ClientInit ==
  /\ call = [c \in Goroutines |-> [stage |-> "idle", id |-> NoReplyId]]
  /\ nextID = 0 /\ toServer = <<>> /\ toClient = <<>> /\ replying = <<>> /\ open = TRUE
  /\ outcome = [i \in CallIds |-> ""] /\ accepted = [i \in CallIds |-> NoReplyId]
  /\ timedOut = FALSE

\* Call takes the mutex and a fresh id.
Lock(c) ==
  /\ \A d \in Goroutines : call[d].stage = "idle"
  /\ nextID < MaxCalls
  /\ nextID' = nextID + 1
  /\ call' = [call EXCEPT ![c] = [stage |-> "write", id |-> nextID + 1]]
  /\ UNCHANGED <<toServer, toClient, replying, open, outcome, accepted, timedOut>>

\* Call returns: the deferred unlock, and the deadline is cleared.
Return(c, result) ==
  /\ outcome' = [outcome EXCEPT ![call[c].id] = result]
  /\ call' = [call EXCEPT ![c] = [stage |-> "idle", id |-> NoReplyId]]

Write(c) ==
  /\ call[c].stage = "write"
  /\ IF open
     THEN /\ toServer' = toServer \o <<Piece(call[c].id, "head"), Piece(call[c].id, "tail")>>
          /\ call' = [call EXCEPT ![c].stage = "read"] /\ UNCHANGED outcome
     ELSE Return(c, "error") /\ UNCHANGED toServer
  /\ UNCHANGED <<nextID, toClient, replying, open, accepted, timedOut>>

\* The deadline passes in conn.Write: none or a part of the line is on its way.
WriteTimeout(c) ==
  /\ call[c].stage = "write" /\ open
  /\ toServer' \in {toServer, Append(toServer, Piece(call[c].id, "head"))}
  /\ Return(c, "error") /\ timedOut' = TRUE
  /\ UNCHANGED <<nextID, toClient, replying, open, accepted>>

\* Where the first complete line ends, 0 if none is complete.
LineEnd(pieces) == SelectInSeq(pieces, LAMBDA p : p.piece = "tail")

\* What the line parses as: a head and its own tail, or nothing.
LineId(line) ==
  IF Len(line) = 2 /\ line[1].id = line[2].id THEN line[1].id ELSE NoReplyId

\* Mutant of Read: the id of the reply is not compared.
ReadAnyId(c) ==
  LET e == LineEnd(toClient)
      id == LineId(SubSeq(toClient, 1, e))
  IN /\ call[c].stage = "read" /\ e > 0
     /\ toClient' = SubSeq(toClient, e + 1, Len(toClient))
     /\ Return(c, IF id # NoReplyId THEN "ok" ELSE "error")
     /\ accepted' = [accepted EXCEPT ![call[c].id] = id]
     /\ UNCHANGED <<nextID, toServer, replying, open, timedOut>>

\* ReadBytes, decode, compare the id.  Nothing more comes once qid has closed.
Read(c) ==
  LET e == LineEnd(toClient)
      id == LineId(SubSeq(toClient, 1, e))
      own == e > 0 /\ id = call[c].id
  IN /\ call[c].stage = "read" /\ (e > 0 \/ ~open)
     /\ toClient' = SubSeq(toClient, e + 1, Len(toClient))
     /\ Return(c, IF own THEN "ok" ELSE "error")
     /\ accepted' = IF own THEN [accepted EXCEPT ![call[c].id] = id] ELSE accepted
     /\ UNCHANGED <<nextID, toServer, replying, open, timedOut>>

\* The deadline passes in ReadBytes, which drops what it has of the line.
ReadTimeout(c) ==
  /\ call[c].stage = "read" /\ LineEnd(toClient) = 0 /\ open
  /\ toClient' = <<>>
  /\ Return(c, "error") /\ timedOut' = TRUE
  /\ UNCHANGED <<nextID, toServer, replying, open, accepted>>

\* ServeConn reads a line, handleLine runs it and starts to write the reply; a
\* line that does not parse is answered with a null id.
Handle ==
  LET e == LineEnd(toServer) IN
  /\ open /\ replying = <<>> /\ e > 0
  /\ toServer' = SubSeq(toServer, e + 1, Len(toServer))
  /\ replying' = <<LineId(SubSeq(toServer, 1, e))>>
  /\ toClient' = Append(toClient, Piece(Head(replying'), "head"))
  /\ UNCHANGED <<call, nextID, open, outcome, accepted, timedOut>>

Reply ==
  /\ open /\ replying # <<>>
  /\ toClient' = Append(toClient, Piece(Head(replying), "tail"))
  /\ replying' = <<>>
  /\ UNCHANGED <<call, nextID, toServer, open, outcome, accepted, timedOut>>

\* The serve context is cancelled: the connection closes under the call.
CloseConn ==
  /\ open /\ open' = FALSE /\ replying' = <<>>
  /\ UNCHANGED <<call, nextID, toServer, toClient, outcome, accepted, timedOut>>

ClientNext ==
  \/ \E c \in Goroutines : \/ Lock(c) \/ Write(c) \/ WriteTimeout(c)
                        \/ Read(c) \/ ReadTimeout(c)
  \/ Handle \/ Reply \/ CloseConn

ClientSpec == ClientInit /\ [][ClientNext]_clientVars

---------------------------------------------------------------------------
ReplyIsOwn == \A i \in CallIds : outcome[i] = "ok" => accepted[i] = i

SharedCallsSucceed ==
  (~timedOut /\ open) => \A i \in CallIds : outcome[i] # "error"

\* A call that succeeds returns the reply to its own request, whatever earlier
\* calls on the connection left behind when their deadlines passed
\* (client.go:127-129); and while no deadline has passed and qid has not closed
\* the connection, no call fails, however the goroutines that share it
\* interleave (client.go:40-42).  After a late reply every later call on the
\* connection fails: that is what the exception says.
CallsPaired == ReplyIsOwn /\ SharedCallsSucceed
=============================================================================
