---------------------------- MODULE GreeterServer ----------------------------
(***************************************************************************)
(* The asynchronous greeter server (grpcdemo/server_async.cc): the main    *)
(* thread (Start, and Stop inside the signal handler that interrupts it),  *)
(* the accepter thread on cq_conn_, the worker thread on cq_readwrite_ and *)
(* the broadcast thread, over the sessions of GreeterSession.              *)
(*                                                                         *)
(* mutex_sessions_ is not a variable of its own: the broadcast thread owns *)
(* it shared, Stop exclusively, exactly at the program counters named by   *)
(* SharedHeld and ExclusiveHeld; AddNewSession, GetSession and             *)
(* RemoveSession own it for one step.                                      *)
(***************************************************************************)
EXTENDS GreeterSession, FiniteSets

CONSTANT MaxRounds  \* bound: how many rounds of broadcasts are sent

ASSUME RoundsAssumption == MaxRounds \in Nat

VARIABLES
  running,         \* running_
  server,          \* server_: "null", "up", or "stopping" after Shutdown
  sessions,        \* the keys of sessions_
  session_id_allocator,
  main_pc,         \* the main thread in Start
  stop_pc,         \* the signal handler in Stop, on top of the main thread
  stop_todo,       \* the sessions Stop has still to visit
  accepter_pc,
  accepter_got,    \* the tag and ok of the accepter's last Next
  worker_pc,
  worker_got,      \* the tag and ok of the worker's last Next
  broadcast_pc,
  broadcast_todo,  \* the sessions the round has still to visit
  rounds           \* how many rounds were begun

mapVars       == <<running, server, sessions, session_id_allocator>>
mainVars      == <<main_pc, stop_pc, stop_todo>>
accepterVars  == <<accepter_pc, accepter_got>>
workerVars    == <<worker_pc, worker_got>>
broadcastVars == <<broadcast_pc, broadcast_todo, rounds>>
threadVars    == <<mainVars, accepterVars, workerVars, broadcastVars>>
vars          == <<sessionVars, mapVars, threadVars>>

\* What a thread holds between two calls of Next.
NoEvent == [tag |-> 0, ok |-> FALSE]
Got(s, event, ok) == [tag |-> Tagify(s, event), ok |-> ok]

Init ==
  /\ SessionInit
  /\ running = FALSE
  /\ server = "null"
  /\ sessions = {}
  /\ session_id_allocator = 0
  /\ main_pc = "init"
  /\ stop_pc = "idle"
  /\ stop_todo = {}
  /\ accepter_pc = "unborn"
  /\ accepter_got = NoEvent
  /\ worker_pc = "unborn"
  /\ worker_got = NoEvent
  /\ broadcast_pc = "unborn"
  /\ broadcast_todo = {}
  /\ rounds = 0

\* The process is over: main returned, or a broken contract ended it.
Over == main_pc = "exited" \/ fault # "none"

SharedHeld    == broadcast_pc \in {"iter", "sleep"}
ExclusiveHeld == stop_pc = "cancel"

-----------------------------------------------------------------------------
(***************************************************************************)
(* The main thread: Start. The signal handler runs on top of it.           *)
(***************************************************************************)
MainRuns == ~Over /\ stop_pc \in {"idle", "done"}

StartEnter ==
  /\ MainRuns
  /\ main_pc = "init"
  /\ running' = TRUE
  /\ main_pc' = "build"
  /\ UNCHANGED <<sessionVars, server, sessions, session_id_allocator, stop_pc,
                 stop_todo, accepterVars, workerVars, broadcastVars>>

StartBuild ==
  /\ MainRuns
  /\ main_pc = "build"
  /\ server' = "up"
  /\ main_pc' = "spawn"
  /\ UNCHANGED <<sessionVars, running, sessions, session_id_allocator, stop_pc,
                 stop_todo, accepterVars, workerVars, broadcastVars>>

StartThreads ==
  /\ MainRuns
  /\ main_pc = "spawn"
  /\ main_pc' = "join"
  /\ accepter_pc'  = "check"
  /\ worker_pc'    = "check"
  /\ broadcast_pc' = "check"
  /\ UNCHANGED <<sessionVars, mapVars, stop_pc, stop_todo, accepter_got,
                 worker_got, broadcast_todo, rounds>>

\* The thread groups join their threads; main returns.
StartReturn ==
  /\ MainRuns
  /\ main_pc = "join"
  /\ {accepter_pc, worker_pc, broadcast_pc} = {"done"}
  /\ main_pc' = "exited"
  /\ UNCHANGED <<sessionVars, mapVars, stop_pc, stop_todo, accepterVars,
                 workerVars, broadcastVars>>

MainStep == StartEnter \/ StartBuild \/ StartThreads \/ StartReturn

-----------------------------------------------------------------------------
(***************************************************************************)
(* Stop. A signal that finds running_ false changes nothing.               *)
(***************************************************************************)
StopEnter ==
  /\ ~Over
  /\ stop_pc = "idle"
  /\ running
  /\ running' = FALSE
  /\ stop_pc' = "lock"
  /\ UNCHANGED <<sessionVars, server, sessions, session_id_allocator, main_pc,
                 stop_todo, accepterVars, workerVars, broadcastVars>>

StopLock ==
  /\ ~Over
  /\ stop_pc = "lock"
  /\ ~SharedHeld
  /\ stop_pc' = "cancel"
  /\ stop_todo' = sessions
  /\ UNCHANGED <<sessionVars, mapVars, main_pc, accepterVars, workerVars,
                 broadcastVars>>

StopCancel(s) ==
  /\ ~Over
  /\ stop_pc = "cancel"
  /\ s \in stop_todo
  /\ TryCancel(s)
  /\ stop_todo' = stop_todo \ {s}
  /\ UNCHANGED <<mapVars, main_pc, stop_pc, accepterVars, workerVars,
                 broadcastVars>>

StopUnlock ==
  /\ ~Over
  /\ stop_pc = "cancel"
  /\ stop_todo = {}
  /\ stop_pc' = "shutdown"
  /\ UNCHANGED <<sessionVars, mapVars, main_pc, stop_todo, accepterVars,
                 workerVars, broadcastVars>>

\* server_->Shutdown() refuses new calls and waits for the accepted ones.
StopShutdown ==
  /\ ~Over
  /\ stop_pc = "shutdown"
  /\ IF server = "null"
     THEN fault' = "nullServer" /\ UNCHANGED server
     ELSE server' = "stopping" /\ UNCHANGED fault
  /\ stop_pc' = "await"
  /\ UNCHANGED <<status, message_queue, request, wire, op, call, shut, running,
                 sessions, session_id_allocator, main_pc, stop_todo,
                 accepterVars, workerVars, broadcastVars>>

StopServerDown ==
  /\ ~Over
  /\ stop_pc = "await"
  /\ \A s \in Ids : ~Live(s)
  /\ stop_pc' = "conn"
  /\ UNCHANGED <<sessionVars, mapVars, main_pc, stop_todo, accepterVars,
                 workerVars, broadcastVars>>

ShutQueue(q) ==
  /\ ~Over
  /\ shut' = shut \cup {q}
  /\ UNCHANGED <<status, message_queue, request, wire, op, call, fault, mapVars,
                 main_pc, stop_todo, accepterVars, workerVars, broadcastVars>>

\* Mutant: the first queue is shut down twice, the second never.
SameQueueStopShutReadWrite ==
  stop_pc = "rw" /\ stop_pc' = "done" /\ ShutQueue("conn")

StopShutConn      == stop_pc = "conn" /\ stop_pc' = "rw" /\ ShutQueue("conn")
StopShutReadWrite == stop_pc = "rw" /\ stop_pc' = "done" /\ ShutQueue("readwrite")

StopStep ==
  \/ StopLock
  \/ \E s \in Ids : StopCancel(s)
  \/ StopUnlock
  \/ StopShutdown
  \/ StopServerDown
  \/ StopShutConn
  \/ StopShutReadWrite

-----------------------------------------------------------------------------
(***************************************************************************)
(* The map of sessions.                                                    *)
(***************************************************************************)
\* Mutant: the allocator is incremented twice, for the caller and in the map.
DoubleAddNewSession ==
  /\ ~SharedHeld /\ ~ExclusiveHeld
  /\ session_id_allocator < MaxSessions
  /\ StartOps(session_id_allocator, {SessionEventConnected}, "conn")
  /\ sessions' = sessions \cup {session_id_allocator}
  /\ session_id_allocator' = session_id_allocator + 2
  /\ UNCHANGED <<status, message_queue, request, wire, call, shut, running,
                 server>>

\* ClientConnect keeps one id free, so the bound never stops the accepter.
AddNewSession ==
  /\ ~SharedHeld /\ ~ExclusiveHeld
  /\ session_id_allocator < MaxSessions
  /\ StartOps(session_id_allocator, {SessionEventConnected}, "conn")
  /\ sessions' = sessions \cup {session_id_allocator}
  /\ session_id_allocator' = session_id_allocator + 1
  /\ UNCHANGED <<status, message_queue, request, wire, call, shut, running,
                 server>>

\* The session is destroyed when the last pointer, the caller's, goes.
RemoveSession(s) ==
  /\ ~SharedHeld /\ ~ExclusiveHeld
  /\ sessions' = sessions \ {s}
  /\ Destroy(s)
  /\ UNCHANGED <<running, server, session_id_allocator>>

\* GetSession, and the two tests that follow it in both loops.
AfterGetSession(got) ==
  IF TagId(got.tag) \notin sessions THEN "next"
  ELSE IF got.ok THEN "process" ELSE "remove"

-----------------------------------------------------------------------------
(***************************************************************************)
(* The accepter thread.                                                    *)
(***************************************************************************)
AccepterOnly == ~Over /\ UNCHANGED <<mainVars, workerVars, broadcastVars>>

AccepterCheck ==
  /\ accepter_pc = "check"
  /\ accepter_pc' = IF running THEN "add" ELSE "done"
  /\ UNCHANGED <<sessionVars, mapVars, accepter_got>>
  /\ AccepterOnly

AccepterAdd ==
  /\ accepter_pc = "add"
  /\ AddNewSession
  /\ accepter_pc' = "next"
  /\ UNCHANGED accepter_got
  /\ AccepterOnly

AccepterNext(s) ==
  /\ accepter_pc = "next"
  /\ Completed(s, SessionEventConnected)
  /\ accepter_got' = Got(s, SessionEventConnected,
                         op[s][SessionEventConnected] = "ok")
  /\ op' = [op EXCEPT ![s][SessionEventConnected] = "idle"]
  /\ accepter_pc' = "lookup"
  /\ UNCHANGED <<status, message_queue, request, wire, call, shut, fault,
                 mapVars>>
  /\ AccepterOnly

\* Mutant: the inner loop ends with running_ as well.
ImpatientAccepterDrained ==
  /\ accepter_pc = "next"
  /\ ~running
  /\ accepter_pc' = "check"
  /\ UNCHANGED <<sessionVars, mapVars, accepter_got>>
  /\ AccepterOnly

\* Next returns false once the queue is shut down and drained.
AccepterDrained ==
  /\ accepter_pc = "next"
  /\ "conn" \in shut
  /\ \A s \in Ids : op[s][SessionEventConnected] = "idle"
  /\ accepter_pc' = "check"
  /\ UNCHANGED <<sessionVars, mapVars, accepter_got>>
  /\ AccepterOnly

AccepterLookup ==
  /\ accepter_pc = "lookup"
  /\ ~ExclusiveHeld
  /\ accepter_pc' = AfterGetSession(accepter_got)
  /\ accepter_got' = IF accepter_pc' = "next" THEN NoEvent ELSE accepter_got
  /\ UNCHANGED <<sessionVars, mapVars>>
  /\ AccepterOnly

\* Mutant: no session is added for the next client.
LoneAccepterProcess ==
  /\ accepter_pc = "process"
  /\ ProcessEvent(TagId(accepter_got.tag), TagEvent(accepter_got.tag))
  /\ accepter_pc' = "next"
  /\ accepter_got' = NoEvent
  /\ UNCHANGED mapVars
  /\ AccepterOnly

AccepterProcess ==
  /\ accepter_pc = "process"
  /\ ProcessEvent(TagId(accepter_got.tag), TagEvent(accepter_got.tag))
  /\ accepter_pc' = "add"
  /\ accepter_got' = NoEvent
  /\ UNCHANGED mapVars
  /\ AccepterOnly

AccepterRemove ==
  /\ accepter_pc = "remove"
  /\ RemoveSession(TagId(accepter_got.tag))
  /\ accepter_pc' = "next"
  /\ accepter_got' = NoEvent
  /\ AccepterOnly

AccepterStep ==
  \/ AccepterCheck
  \/ AccepterAdd
  \/ \E s \in Ids : AccepterNext(s)
  \/ AccepterDrained
  \/ AccepterLookup
  \/ AccepterProcess
  \/ AccepterRemove

-----------------------------------------------------------------------------
(***************************************************************************)
(* The worker thread.                                                      *)
(***************************************************************************)
WorkerOnly == ~Over /\ UNCHANGED <<mainVars, accepterVars, broadcastVars>>

WorkerCheck ==
  /\ worker_pc = "check"
  /\ worker_pc' = IF running THEN "next" ELSE "done"
  /\ UNCHANGED <<sessionVars, mapVars, worker_got>>
  /\ WorkerOnly

\* A tag arrives; that of a removed session may arrive like any other.
WorkerNext(s, event) ==
  /\ worker_pc = "next"
  /\ event # SessionEventConnected
  /\ Completed(s, event)
  /\ worker_got' = Got(s, event, op[s][event] = "ok")
  /\ op' = [op EXCEPT ![s][event] = "idle"]
  /\ worker_pc' = "lookup"
  /\ UNCHANGED <<status, message_queue, request, wire, call, shut, fault,
                 mapVars>>
  /\ WorkerOnly

\* gRPC keeps the state of a Read or Write inside stream_. If the session was
\* destroyed first, completing the operation may also bring the process down.
WorkerNextFreed(s, event) ==
  /\ worker_pc = "next"
  /\ event # SessionEventConnected
  /\ Completed(s, event)
  /\ s \notin sessions
  /\ fault' = "freedOp"
  /\ UNCHANGED <<status, message_queue, request, wire, op, call, shut, mapVars,
                 workerVars>>
  /\ WorkerOnly

WorkerDrained ==
  /\ worker_pc = "next"
  /\ "readwrite" \in shut
  /\ \A s \in Ids : \A e \in Events \ {SessionEventConnected} : op[s][e] = "idle"
  /\ worker_pc' = "check"
  /\ UNCHANGED <<sessionVars, mapVars, worker_got>>
  /\ WorkerOnly

WorkerLookup ==
  /\ worker_pc = "lookup"
  /\ ~ExclusiveHeld
  /\ worker_pc' = AfterGetSession(worker_got)
  /\ worker_got' = IF worker_pc' = "next" THEN NoEvent ELSE worker_got
  /\ UNCHANGED <<sessionVars, mapVars>>
  /\ WorkerOnly

WorkerProcess ==
  /\ worker_pc = "process"
  /\ ProcessEvent(TagId(worker_got.tag), TagEvent(worker_got.tag))
  /\ worker_pc' = "next"
  /\ worker_got' = NoEvent
  /\ UNCHANGED mapVars
  /\ WorkerOnly

WorkerRemove ==
  /\ worker_pc = "remove"
  /\ RemoveSession(TagId(worker_got.tag))
  /\ worker_pc' = "next"
  /\ worker_got' = NoEvent
  /\ WorkerOnly

WorkerStep ==
  \/ WorkerCheck
  \/ \E s \in Ids, e \in Events : WorkerNext(s, e) \/ WorkerNextFreed(s, e)
  \/ WorkerDrained
  \/ WorkerLookup
  \/ WorkerProcess
  \/ WorkerRemove

-----------------------------------------------------------------------------
(***************************************************************************)
(* The broadcast thread keeps the shared lock until its sleep is over.     *)
(***************************************************************************)
BroadcastOnly == ~Over /\ UNCHANGED <<mainVars, accepterVars, workerVars>>

BroadcastCheck ==
  /\ broadcast_pc = "check"
  /\ running => rounds < MaxRounds
  /\ broadcast_pc' = IF running THEN "lock" ELSE "done"
  /\ UNCHANGED <<sessionVars, mapVars, broadcast_todo, rounds>>
  /\ BroadcastOnly

\* Mutant: running_ is not read again under the lock.
UncheckedBroadcastLock ==
  /\ broadcast_pc = "lock"
  /\ ~ExclusiveHeld
  /\ broadcast_pc' = "iter"
  /\ broadcast_todo' = sessions
  /\ rounds' = rounds + 1
  /\ UNCHANGED <<sessionVars, mapVars>>
  /\ BroadcastOnly

BroadcastLock ==
  /\ broadcast_pc = "lock"
  /\ ~ExclusiveHeld
  /\ \/ /\ running
        /\ broadcast_pc' = "iter"
        /\ broadcast_todo' = sessions
        /\ rounds' = rounds + 1
     \/ /\ ~running
        /\ broadcast_pc' = "done"
        /\ UNCHANGED <<broadcast_todo, rounds>>
  /\ UNCHANGED <<sessionVars, mapVars>>
  /\ BroadcastOnly

BroadcastSend(s) ==
  /\ broadcast_pc = "iter"
  /\ s \in broadcast_todo
  /\ SendResponse(s, Broadcast)
  /\ StartOps(s, WritesNow(s), "readwrite")
  /\ broadcast_todo' = broadcast_todo \ {s}
  /\ UNCHANGED <<request, call, shut, mapVars, broadcast_pc, rounds>>
  /\ BroadcastOnly

BroadcastSleep ==
  /\ broadcast_pc = "iter"
  /\ broadcast_todo = {}
  /\ broadcast_pc' = "sleep"
  /\ UNCHANGED <<sessionVars, mapVars, broadcast_todo, rounds>>
  /\ BroadcastOnly

BroadcastWake ==
  /\ broadcast_pc = "sleep"
  /\ broadcast_pc' = "check"
  /\ UNCHANGED <<sessionVars, mapVars, broadcast_todo, rounds>>
  /\ BroadcastOnly

BroadcastStep ==
  \/ BroadcastCheck
  \/ BroadcastLock
  \/ \E s \in Ids : BroadcastSend(s)
  \/ BroadcastSleep
  \/ BroadcastWake

-----------------------------------------------------------------------------
(***************************************************************************)
(* The clients and the rest of gRPC.                                       *)
(***************************************************************************)
ClientConnect(s) ==
  /\ server = "up"
  /\ session_id_allocator < MaxSessions
  /\ CompleteOp(s, SessionEventConnected, "ok")
  /\ call' = [call EXCEPT ![s] = "open"]
  /\ UNCHANGED <<status, message_queue, request, wire, shut, fault>>

\* A server that shuts down gives back the calls it was asked for.
ConnectFails(s) ==
  /\ server = "stopping"
  /\ CompleteOp(s, SessionEventConnected, "fail")
  /\ UNCHANGED <<status, message_queue, request, wire, call, shut, fault>>

Elsewhere == ~Over /\ UNCHANGED <<mapVars, threadVars>>

ClientStep(s) ==
  \/ ClientConnect(s)   /\ Elsewhere
  \/ ClientRequest(s)   /\ Elsewhere
  \/ ClientHalfClose(s) /\ Elsewhere
  \/ ClientLeave(s)     /\ Elsewhere

\* What gRPC completes by itself, as long as the client goes on receiving.
TransportStep(s) ==
  \/ ReadFails(s)     /\ Elsewhere
  \/ WriteSucceeds(s) /\ Elsewhere
  \/ WriteFails(s)    /\ Elsewhere
  \/ ConnectFails(s)  /\ Elsewhere

Terminated == Over /\ UNCHANGED vars

Next ==
  \/ MainStep
  \/ StopEnter
  \/ StopStep
  \/ AccepterStep
  \/ WorkerStep
  \/ BroadcastStep
  \/ \E s \in Ids : ClientStep(s) \/ TransportStep(s)
  \/ Terminated

Spec == Init /\ [][Next]_vars

-----------------------------------------------------------------------------
(***************************************************************************)
(* Properties.                                                             *)
(***************************************************************************)
MapTypeOK ==
  /\ running \in BOOLEAN
  /\ server \in {"null", "up", "stopping"}
  /\ sessions \in SUBSET Ids
  /\ session_id_allocator \in 0 .. MaxSessions

ThreadTypeOK ==
  /\ main_pc \in {"init", "build", "spawn", "join", "exited"}
  /\ stop_pc \in {"idle", "lock", "cancel", "shutdown", "await", "conn", "rw",
                  "done"}
  /\ stop_todo \in SUBSET Ids
  /\ accepter_pc \in {"unborn", "check", "add", "next", "lookup", "process",
                      "remove", "done"}
  /\ accepter_got \in [tag : 0 .. TagSpace - 1, ok : BOOLEAN]
  /\ worker_pc \in {"unborn", "check", "next", "lookup", "process", "remove",
                    "done"}
  /\ worker_got \in [tag : 0 .. TagSpace - 1, ok : BOOLEAN]
  /\ broadcast_pc \in {"unborn", "check", "lock", "iter", "sleep", "done"}
  /\ broadcast_todo \in SUBSET Ids
  /\ rounds \in 0 .. MaxRounds

\* Every variable has a value the code can give it; in particular no session
\* id beyond the ones session_id_allocator_ handed out is ever in use.
TypeOK == SessionTypeOK /\ MapTypeOK /\ ThreadTypeOK

\* Where a thread has a tag in hand.
HoldPcs == {"lookup", "process", "remove"}

AccepterHolds(s, event) ==
  /\ accepter_pc \in HoldPcs
  /\ accepter_got.tag = Tagify(s, event)

WorkerHolds(s, event) ==
  /\ worker_pc \in HoldPcs
  /\ worker_got.tag = Tagify(s, event)

\* An operation is outstanding until the thread has handled its tag.
Outstanding(s, event) ==
  op[s][event] # "idle" \/ AccepterHolds(s, event) \/ WorkerHolds(s, event)

\* gRPC allows one Read and one Write of a stream at a time. The worker and
\* the broadcast thread both start Writes (lines 122 and 149), and only
\* status_ keeps them apart: no step of either ever starts a second one.
NoOverlappedOps == fault # "overlap"

\* A session writes exactly while a Write of it is outstanding: so a queued
\* response (line 151) is always picked up by a completion still to come
\* (line 120), and a session that looks ready really has no Write under way.
WriteInFlight ==
  \A s \in sessions :
    /\ status[s] = WaitWriteDone <=> Outstanding(s, SessionEventWriteDone)
    /\ message_queue[s] # <<>> => status[s] = WaitWriteDone

\* A connected session always has a Read under way (lines 106 and 116), which
\* is what will report that its client left, and one that is not connected
\* its accept: no session stays in sessions_ that no event can ever remove.
NoOrphanSession ==
  \A s \in sessions :
    IF status[s] = WaitToConnect
    THEN Outstanding(s, SessionEventConnected)
    ELSE Outstanding(s, SessionEventReadDone)

\* The event in a tag fits the session the tag names when it is processed:
\* the zasserts of lines 217 and 255, the session is still in the map, and no
\* event of an earlier session reaches a later one.
EventMatchesStatus ==
  /\ accepter_pc = "process" =>
       LET s == TagId(accepter_got.tag) IN
       /\ s \in sessions
       /\ TagEvent(accepter_got.tag) = SessionEventConnected
       /\ status[s] = WaitToConnect
  /\ worker_pc = "process" =>
       LET s == TagId(worker_got.tag) IN
       /\ s \in sessions
       /\ \/ /\ TagEvent(worker_got.tag) = SessionEventReadDone
             /\ status[s] # WaitToConnect
          \/ /\ TagEvent(worker_got.tag) = SessionEventWriteDone
             /\ status[s] = WaitWriteDone

\* The request last read of session s has not reached OnReadDone yet.
Unanswered(s) ==
  \/ op[s][SessionEventReadDone] = "ok"
  \/ WorkerHolds(s, SessionEventReadDone) /\ worker_got.ok

\* How many requests of session s have been answered by OnReadDone.
Handled(s) == IF Unanswered(s) THEN request[s] - 1 ELSE request[s]

\* Leaving the broadcasts out, the messages are the replies 1, ..., n, once each
\* and in this order.
InRequestOrder(messages, n) ==
  /\ {messages[k] : k \in 1 .. Len(messages)} \ {Broadcast} = 1 .. n
  /\ \A j, k \in 1 .. Len(messages) :
       j < k /\ messages[k] # Broadcast => messages[j] < messages[k]

\* Among the broadcasts, the replies of a session are written and queued once
\* per request and in the order of the requests, although request_ is reused
\* for every Read and two threads append to the queue.
RepliesInOrder ==
  \A s \in sessions : InRequestOrder(wire[s] \o message_queue[s], Handled(s))

\* Once Stop has cancelled the sessions no broadcast is sent any more: the
\* second look at running_, under the lock (line 276), is what guarantees it.
BroadcastBeforeCancel ==
  stop_pc \in {"cancel", "shutdown", "await", "conn", "rw", "done"} =>
    broadcast_pc # "iter"

\* Whenever the accepter waits for a client and the server takes calls, there
\* is exactly one session for the next client to connect to (lines 196, 221).
ListenerArmed ==
  accepter_pc = "next" /\ server = "up" =>
    Cardinality({s \in sessions : status[s] = WaitToConnect}) = 1

\* The session armed for the next client has no client to leave it: only its
\* failed accept can remove it. Whenever the accepter has left its loop, none is
\* left in sessions_: server_->Shutdown gives the accept back before cq_conn_ is
\* shut down (lines 303-310), and the accepter takes it and removes its session
\* (line 212) before it finds the queue drained.
NoListenerLeft ==
  accepter_pc \in {"check", "done"} =>
    \A s \in sessions : status[s] # WaitToConnect

\* The sessions of the server implement the abstract response queue.
Fifo == INSTANCE ResponseFifo WITH
  Streams  <- Ids,
  accepted <- [s \in Ids |-> wire[s] \o message_queue[s]],
  written  <- wire,
  busy     <- [s \in Ids |-> status[s] = WaitWriteDone]

\* Responses leave in the order of acceptance, one write at a time, and the
\* writer never idles with a response waiting: lines 119-128 and 142-153.
ImplementsFifo == Fifo!Spec

-----------------------------------------------------------------------------
(***************************************************************************)
(* Liveness. Every thread goes on, and gRPC completes what it can complete *)
(* by itself; nothing is assumed of when a signal or a client comes.       *)
(***************************************************************************)
Fairness ==
  /\ WF_vars(MainStep)
  /\ WF_vars(StopStep)
  /\ WF_vars(AccepterStep)
  /\ WF_vars(WorkerStep)
  /\ WF_vars(BroadcastStep)
  /\ \A s \in Ids : WF_vars(TransportStep(s))

LiveSpec == Spec /\ Fairness

\* A client keeps its call open although the server shuts down.
ClientHoldsServer == stop_pc = "await" /\ \E s \in Ids : Live(s)

\* Stop ends the process: after it begins every thread leaves its loop and
\* main returns, unless a client that was accepted too late to be cancelled
\* (line 298) never leaves, or one of the shutdown races strikes.
StopEndsProcess ==
  stop_pc = "lock" ~> (Over \/ []ClientHoldsServer)

\* A request that was read is answered, unless its call ends or Stop begins.
RequestAnswered ==
  \A s \in Ids : \A n \in 1 .. MaxRequests :
    request[s] = n ~>
      (\/ \E i \in 1 .. Len(wire[s]) : wire[s][i] = n
       \/ call[s] = "ended"
       \/ ~running
       \/ Over)
=============================================================================
