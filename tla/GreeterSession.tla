--------------------------- MODULE GreeterSession ---------------------------
(***************************************************************************)
(* One bidirectional SayHello3 stream of the asynchronous greeter server   *)
(* (grpcdemo/server_async.cc, class GreeterSession) and the part of gRPC   *)
(* it drives: every Request/Read/Write it starts is an operation whose tag *)
(* comes back later from a completion queue.                               *)
(*                                                                         *)
(* A session is guarded by its own mutex_ and never waits for anything     *)
(* while it holds it, so each critical section is one step.                *)
(*                                                                         *)
(* Requests of a stream are numbered 1, 2, ...: request_ holds the number  *)
(* of the request last read, the reply to request n is the message n and   *)
(* the periodic broadcast is the message 0.                                *)
(***************************************************************************)
EXTENDS Naturals, Sequences

CONSTANTS
  MaxSessions,  \* bound: how many session ids the run may allocate
  MaxRequests,  \* bound: how many requests one client sends
  TagSpace      \* number of values of a tag: 2^64 for the code's void*

ASSUME SessionAssumption ==
  /\ MaxSessions \in Nat \ {0}
  /\ MaxRequests \in Nat
  /\ TagSpace \in Nat \ {0}
  /\ 4 * MaxSessions <= TagSpace  \* no id is shifted out of the tag

Ids == 0 .. MaxSessions - 1

(***************************************************************************)
(* Tags: the event in the two low bits, the session id above them.         *)
(***************************************************************************)
SessionEventConnected == 0
SessionEventReadDone  == 1
SessionEventWriteDone == 2
SessionEventFinished  == 3

\* The events some operation is started for; nothing ever starts a Finish.
Events == {SessionEventConnected, SessionEventReadDone, SessionEventWriteDone}

\* 1 << SESSION_EVENT_BIT_LENGTH
EventSpace == 4

\* Mutant: the bit length is one, so the events need more bits than they get.
OneBitTagify(id, event) == (id * 2 + event) % TagSpace

Tagify(id, event) == (id * EventSpace + event) % TagSpace

TagId(tag)    == tag \div EventSpace
TagEvent(tag) == tag % EventSpace

-----------------------------------------------------------------------------
VARIABLES
  status,         \* status_ of each session
  message_queue,  \* message_queue_ of each session
  request,        \* request_: the number of the request last read
  wire,           \* the messages given to stream_.Write, oldest first
  op,             \* the operation started for each event of a session
  call,           \* what gRPC knows of the call behind the session
  shut,           \* the completion queues on which Shutdown was called
  fault           \* the contract with gRPC the process broke, or "none"

sessionVars == <<status, message_queue, request, wire, op, call, shut, fault>>

WaitToConnect == "WaitToConnect"
ReadyToWrite  == "ReadyToWrite"
WaitWriteDone == "WaitWriteDone"

Statuses  == {WaitToConnect, ReadyToWrite, WaitWriteDone}
\* An operation is idle until it is started and again once its tag has been
\* taken from the queue; "ok" and "fail" are completions not yet taken.
OpStates  == {"idle", "pending", "ok", "fail"}
Calls     == {"none", "open", "half", "ended"}
Queues    == {"conn", "readwrite"}
\* overlap:    a second Read or a second Write while one is outstanding
\* shutQueue:  an operation started on a queue after its Shutdown
\* nullServer: server_->Shutdown() before server_ was built
\* freedOp:    a completion of an operation inside a destroyed session
Faults    == {"none", "overlap", "shutQueue", "nullServer", "freedOp"}

Broadcast == 0
Messages  == 0 .. MaxRequests

SessionInit ==
  /\ status        = [s \in Ids |-> WaitToConnect]
  /\ message_queue = [s \in Ids |-> <<>>]
  /\ request       = [s \in Ids |-> 0]
  /\ wire          = [s \in Ids |-> <<>>]
  /\ op            = [s \in Ids |-> [e \in Events |-> "idle"]]
  /\ call          = [s \in Ids |-> "none"]
  /\ shut          = {}
  /\ fault         = "none"

-----------------------------------------------------------------------------
(***************************************************************************)
(* gRPC, as server_async.cc uses it.                                       *)
(***************************************************************************)
Live(s)      == call[s] \in {"open", "half"}
Completed(s, e) == op[s][e] \in {"ok", "fail"}

\* Start the operations of the events E of session s on the queue q.
StartOps(s, E, q) ==
  /\ op' = [op EXCEPT ![s] = [e \in Events |->
                                IF e \in E THEN "pending" ELSE op[s][e]]]
  /\ fault' = IF E # {} /\ q \in shut              THEN "shutQueue"
              ELSE IF \E e \in E : op[s][e] # "idle" THEN "overlap"
              ELSE fault

\* The operation of event e completes: its tag is put on the queue.
CompleteOp(s, e, result) ==
  /\ op[s][e] = "pending"
  /\ op' = [op EXCEPT ![s][e] = result]

\* The client's next request completes the outstanding Read.
ClientRequest(s) ==
  /\ call[s] = "open"
  /\ request[s] < MaxRequests
  /\ CompleteOp(s, SessionEventReadDone, "ok")
  /\ request' = [request EXCEPT ![s] = @ + 1]
  /\ UNCHANGED <<status, message_queue, wire, call, shut, fault>>

\* The client calls WritesDone: it sends no more, but still receives.
ClientHalfClose(s) ==
  /\ call[s] = "open"
  /\ call' = [call EXCEPT ![s] = "half"]
  /\ UNCHANGED <<status, message_queue, request, wire, op, shut, fault>>

\* The client cancels or disconnects.
ClientLeave(s) ==
  /\ Live(s)
  /\ call' = [call EXCEPT ![s] = "ended"]
  /\ UNCHANGED <<status, message_queue, request, wire, op, shut, fault>>

ReadFails(s) ==
  /\ call[s] \in {"half", "ended"}
  /\ CompleteOp(s, SessionEventReadDone, "fail")
  /\ UNCHANGED <<status, message_queue, request, wire, call, shut, fault>>

WriteSucceeds(s) ==
  /\ Live(s)
  /\ CompleteOp(s, SessionEventWriteDone, "ok")
  /\ UNCHANGED <<status, message_queue, request, wire, call, shut, fault>>

WriteFails(s) ==
  /\ call[s] = "ended"
  /\ CompleteOp(s, SessionEventWriteDone, "fail")
  /\ UNCHANGED <<status, message_queue, request, wire, call, shut, fault>>

-----------------------------------------------------------------------------
(***************************************************************************)
(* GreeterSession.                                                         *)
(***************************************************************************)
\* The Write that SendResponse starts at once, if it starts one.
WritesNow(s) ==
  IF status[s] = ReadyToWrite THEN {SessionEventWriteDone} ELSE {}

\* Mutant: the response is queued in front of the older ones.
FrontSendResponse(s, m) ==
  \/ /\ status[s] = WaitToConnect
     /\ UNCHANGED <<status, message_queue, wire>>
  \/ /\ status[s] = ReadyToWrite
     /\ status' = [status EXCEPT ![s] = WaitWriteDone]
     /\ wire' = [wire EXCEPT ![s] = Append(@, m)]
     /\ UNCHANGED message_queue
  \/ /\ status[s] = WaitWriteDone
     /\ message_queue' = [message_queue EXCEPT ![s] = <<m>> \o @]
     /\ UNCHANGED <<status, wire>>

SendResponse(s, m) ==
  \/ /\ status[s] = WaitToConnect
     /\ UNCHANGED <<status, message_queue, wire>>
  \/ /\ status[s] = ReadyToWrite
     /\ status' = [status EXCEPT ![s] = WaitWriteDone]
     /\ wire' = [wire EXCEPT ![s] = Append(@, m)]
     /\ UNCHANGED message_queue
  \/ /\ status[s] = WaitWriteDone
     /\ message_queue' = [message_queue EXCEPT ![s] = Append(@, m)]
     /\ UNCHANGED <<status, wire>>

\* Mutant: no Read is started for the new connection.
DeafOnConnected(s) ==
  /\ status' = [status EXCEPT ![s] = ReadyToWrite]
  /\ UNCHANGED <<message_queue, wire, op, fault>>

OnConnected(s) ==
  /\ StartOps(s, {SessionEventReadDone}, "readwrite")
  /\ status' = [status EXCEPT ![s] = ReadyToWrite]
  /\ UNCHANGED <<message_queue, wire>>

OnReadDone(s) ==
  /\ SendResponse(s, request[s])
  /\ StartOps(s, WritesNow(s) \cup {SessionEventReadDone}, "readwrite")

\* Mutant: the status is reset even when a queued message was written.
ResettingOnWriteDone(s) ==
  /\ status' = [status EXCEPT ![s] = ReadyToWrite]
  /\ IF message_queue[s] # <<>>
     THEN /\ StartOps(s, {SessionEventWriteDone}, "readwrite")
          /\ wire' = [wire EXCEPT ![s] = Append(@, Head(message_queue[s]))]
          /\ message_queue' = [message_queue EXCEPT ![s] = Tail(@)]
     ELSE UNCHANGED <<message_queue, wire, op, fault>>

\* Mutant: a write completion only makes the session ready again.
IdleOnWriteDone(s) ==
  /\ status' = [status EXCEPT ![s] = ReadyToWrite]
  /\ UNCHANGED <<message_queue, wire, op, fault>>

OnWriteDone(s) ==
  \/ /\ message_queue[s] # <<>>
     /\ status' = [status EXCEPT ![s] = WaitWriteDone]
     /\ StartOps(s, {SessionEventWriteDone}, "readwrite")
     /\ wire' = [wire EXCEPT ![s] = Append(@, Head(message_queue[s]))]
     /\ message_queue' = [message_queue EXCEPT ![s] = Tail(@)]
  \/ /\ message_queue[s] = <<>>
     /\ status' = [status EXCEPT ![s] = ReadyToWrite]
     /\ UNCHANGED <<message_queue, wire, op, fault>>

\* The switch of ProcessEvent. Two bits leave no other event.
ProcessEvent(s, event) ==
  /\ \/ event = SessionEventConnected /\ OnConnected(s)
     \/ event = SessionEventReadDone  /\ OnReadDone(s)
     \/ event = SessionEventWriteDone /\ OnWriteDone(s)
     \/ /\ event = SessionEventFinished
        /\ UNCHANGED <<status, message_queue, wire, op, fault>>
  /\ UNCHANGED <<request, call, shut>>

\* context_.TryCancel(), which Stop calls on a session that has connected.
TryCancel(s) ==
  /\ call' = [call EXCEPT ![s] = IF status[s] # WaitToConnect /\ Live(s)
                                 THEN "ended" ELSE @]
  /\ UNCHANGED <<status, message_queue, request, wire, op, shut, fault>>

\* A destroyed session gives up its call: gRPC cancels what was not finished.
Destroy(s) ==
  /\ call' = [call EXCEPT ![s] = IF Live(s) THEN "ended" ELSE @]
  /\ UNCHANGED <<status, message_queue, request, wire, op, shut, fault>>

SessionTypeOK ==
  /\ status \in [Ids -> Statuses]
  /\ message_queue \in [Ids -> Seq(Messages)]
  /\ request \in [Ids -> 0 .. MaxRequests]
  /\ wire \in [Ids -> Seq(Messages)]
  /\ op \in [Ids -> [Events -> OpStates]]
  /\ call \in [Ids -> Calls]
  /\ shut \in SUBSET Queues
  /\ fault \in Faults
=============================================================================
