------------------------- MODULE GreeterServerProofs -------------------------
(***************************************************************************)
(* Proofs about the asynchronous greeter server, for any number of         *)
(* sessions, requests and broadcast rounds: the sessions and their tags    *)
(* first, then Stop, the broadcast thread and the next client, last that   *)
(* the sessions implement the response queue of ResponseFifo, and that the *)
(* replies leave once per request and in the order of the requests.        *)
(***************************************************************************)
EXTENDS GreeterServer, FiniteSetTheorems, SequenceTheorems, TLAPS

\* A tag gives back the session and the event it was made of (lines 30-39):
\* the shift loses nothing as long as the ids fit into the tag.
LEMMA TagRoundTrip ==
  ASSUME NEW s \in Ids, NEW e \in 0 .. 3
  PROVE  /\ Tagify(s, e) \in 0 .. TagSpace - 1
         /\ TagId(Tagify(s, e)) = s
         /\ TagEvent(Tagify(s, e)) = e
<1>1. s * 4 + e \in 0 .. TagSpace - 1
  BY SessionAssumption DEF Ids
<1>2. (s * 4 + e) % TagSpace = s * 4 + e
  BY <1>1, SessionAssumption
<1>3. (s * 4 + e) \div 4 = s /\ (s * 4 + e) % 4 = e
  BY DEF Ids
<1> QED
  BY <1>1, <1>2, <1>3 DEF Tagify, TagId, TagEvent, EventSpace
-----------------------------------------------------------------------------
(***************************************************************************)
(* The inductive invariant: what each session, and the tag each thread has *)
(* in hand, must satisfy for no two operations ever to overlap.            *)
(***************************************************************************)
\* An id not yet allocated was never used.
Unused(s) ==
  s >= session_id_allocator =>
    /\ s \notin sessions
    /\ status[s] = WaitToConnect
    /\ op[s][SessionEventConnected] = "idle"
    /\ ~AccepterHolds(s, SessionEventConnected)

\* A tag is in one place: in a completion queue or in a thread's hand.
TagInOnePlace(s) ==
  /\ AccepterHolds(s, SessionEventConnected)
       => op[s][SessionEventConnected] = "idle"
  /\ WorkerHolds(s, SessionEventReadDone)
       => op[s][SessionEventReadDone] = "idle"
  /\ WorkerHolds(s, SessionEventWriteDone)
       => op[s][SessionEventWriteDone] = "idle"

\* Before a session is connected it neither reads nor writes.
Unconnected(s) ==
  status[s] = WaitToConnect =>
    /\ op[s][SessionEventReadDone] = "idle"
    /\ op[s][SessionEventWriteDone] = "idle"
    /\ ~WorkerHolds(s, SessionEventReadDone)
    /\ ~WorkerHolds(s, SessionEventWriteDone)
    /\ message_queue[s] = <<>>
    /\ s \in sessions => \/ op[s][SessionEventConnected] # "idle"
                         \/ AccepterHolds(s, SessionEventConnected)

\* Once it is, its accept is over and it always reads.
Connected(s) ==
  status[s] # WaitToConnect =>
    /\ op[s][SessionEventConnected] = "idle"
    /\ ~AccepterHolds(s, SessionEventConnected)
    /\ s \in sessions => \/ op[s][SessionEventReadDone] # "idle"
                         \/ WorkerHolds(s, SessionEventReadDone)

\* status_ tells whether a Write is under way.
Ready(s) ==
  status[s] = ReadyToWrite =>
    /\ op[s][SessionEventWriteDone] = "idle"
    /\ ~WorkerHolds(s, SessionEventWriteDone)
    /\ message_queue[s] = <<>>

Writing(s) ==
  status[s] = WaitWriteDone /\ s \in sessions =>
    \/ op[s][SessionEventWriteDone] # "idle"
    \/ WorkerHolds(s, SessionEventWriteDone)

Consistent(s) ==
  /\ Unused(s) /\ TagInOnePlace(s) /\ Unconnected(s)
  /\ Connected(s) /\ Ready(s) /\ Writing(s)

SessionInv == \A s \in Ids : Consistent(s)

\* Each thread holds only tags of its own queue, and processes only events of
\* sessions that are still in the map.
AccepterInv ==
  /\ accepter_pc \in HoldPcs =>
       \E s \in Ids : AccepterHolds(s, SessionEventConnected)
  /\ accepter_pc = "process" => TagId(accepter_got.tag) \in sessions

WorkerInv ==
  /\ worker_pc \in HoldPcs =>
       \E s \in Ids : \/ WorkerHolds(s, SessionEventReadDone)
                      \/ WorkerHolds(s, SessionEventWriteDone)
  /\ worker_pc = "process" => TagId(worker_got.tag) \in sessions

ThreadsInv ==
  /\ main_pc \in {"init", "build", "spawn"} =>
       {accepter_pc, worker_pc, broadcast_pc} = {"unborn"}
  /\ broadcast_pc = "lock" => rounds < MaxRounds

IInv ==
  TypeOK /\ SessionInv /\ AccepterInv /\ WorkerInv /\ ThreadsInv /\ NoOverlappedOps

-----------------------------------------------------------------------------
\* Two different operations never share a tag.
LEMMA TagInjective ==
  ASSUME NEW s \in Ids, NEW t \in Ids, NEW e \in 0 .. 3, NEW f \in 0 .. 3,
         Tagify(s, e) = Tagify(t, f)
  PROVE  s = t /\ e = f
BY TagRoundTrip

\* A session stays consistent in a step that changes neither its status, its
\* queue nor which of its tags are where, whether or not it leaves the map.
LEMMA SessionFrame ==
  ASSUME NEW s \in Ids, Consistent(s),
         status'[s] = status[s],
         message_queue'[s] = message_queue[s],
         \A e \in Events : op'[s][e] = "idle" <=> op[s][e] = "idle",
         s \in sessions' => s \in sessions,
         s >= session_id_allocator' => s >= session_id_allocator,
         AccepterHolds(s, SessionEventConnected)'
           <=> AccepterHolds(s, SessionEventConnected),
         WorkerHolds(s, SessionEventReadDone)'
           <=> WorkerHolds(s, SessionEventReadDone),
         WorkerHolds(s, SessionEventWriteDone)'
           <=> WorkerHolds(s, SessionEventWriteDone)
  PROVE  Consistent(s)'
<1> USE DEF Consistent
<1>1. \A e \in {SessionEventConnected, SessionEventReadDone, SessionEventWriteDone} :
        op'[s][e] = "idle" <=> op[s][e] = "idle"
  BY DEF Events
<1>2. Unused(s)'
  BY <1>1 DEF Unused
<1>3. TagInOnePlace(s)'
  BY <1>1 DEF TagInOnePlace
<1>4. Unconnected(s)'
  BY <1>1 DEF Unconnected
<1>5. Connected(s)'
  BY <1>1 DEF Connected
<1>6. Ready(s)' /\ Writing(s)'
  BY <1>1 DEF Ready, Writing
<1> QED
  BY <1>2, <1>3, <1>4, <1>5, <1>6

\* And so do all of them in a step of neither the accepter nor the worker that
\* starts and completes no operation.
LEMMA SessionsUntouched ==
  ASSUME IInv,
         UNCHANGED <<status, message_queue, op, sessions, session_id_allocator>>,
         UNCHANGED <<accepterVars, workerVars>>
  PROVE  SessionInv' /\ AccepterInv' /\ WorkerInv'
<1> USE DEF accepterVars, workerVars
<1>1. SessionInv'
  BY SessionFrame DEF IInv, SessionInv, AccepterHolds, WorkerHolds
<1>2. AccepterInv' /\ WorkerInv'
  BY DEF IInv, AccepterInv, WorkerInv, AccepterHolds, WorkerHolds
<1> QED
  BY <1>1, <1>2

\* Before Start there is no session, no tag and no thread.
LEMMA InitIInv == Init => IInv
<1> SUFFICES ASSUME Init PROVE IInv
  OBVIOUS
<1> USE DEF Init, SessionInit
<1>1. SessionTypeOK
  <2>1. <<>> \in Seq(Messages) /\ 0 \in 0 .. MaxRequests
    BY SessionAssumption
  <2>2. status \in [Ids -> Statuses] /\ call \in [Ids -> Calls] /\ fault \in Faults
    BY DEF Statuses, Calls, Faults
  <2>3. op \in [Ids -> [Events -> OpStates]]
    BY DEF OpStates
  <2> QED
    BY <2>1, <2>2, <2>3 DEF SessionTypeOK
<1>2. TypeOK
  <2>1. 0 \in 0 .. TagSpace - 1
    BY SessionAssumption
  <2>2. NoEvent \in [tag : 0 .. TagSpace - 1, ok : BOOLEAN]
    BY <2>1 DEF NoEvent
  <2> HIDE DEF SessionInit
  <2>3. session_id_allocator \in 0 .. MaxSessions /\ rounds \in 0 .. MaxRounds
    BY SessionAssumption, RoundsAssumption
  <2> QED
    BY <1>1, <2>2, <2>3 DEF TypeOK, MapTypeOK, ThreadTypeOK
<1>3. SessionInv
  BY DEF SessionInv, Consistent, Unused, TagInOnePlace, Unconnected, Connected, Ready, Writing,
     AccepterHolds, WorkerHolds, HoldPcs, WaitToConnect, ReadyToWrite, WaitWriteDone,
     Events, SessionEventConnected, SessionEventReadDone, SessionEventWriteDone
<1>4. AccepterInv /\ WorkerInv /\ NoOverlappedOps
  BY DEF AccepterInv, WorkerInv, NoOverlappedOps, HoldPcs
<1>5. ThreadsInv
  BY DEF ThreadsInv
<1> QED
  BY <1>2, <1>3, <1>4, <1>5 DEF IInv

-----------------------------------------------------------------------------
\* The main thread touches no session.
LEMMA MainIInv == IInv /\ MainStep => IInv'
<1> SUFFICES ASSUME IInv, MainStep PROVE IInv'
  OBVIOUS
<1> USE DEF accepterVars, workerVars, broadcastVars, mapVars, sessionVars, MainRuns,
        Over
<1> USE DEF MainStep, StartEnter, StartBuild, StartThreads, StartReturn
<1>1. TypeOK'
  <2>1. SessionTypeOK'
    BY DEF IInv, TypeOK, SessionTypeOK
  <2>2. MapTypeOK'
    BY DEF IInv, TypeOK, MapTypeOK
  <2>3. ThreadTypeOK'
    BY DEF IInv, TypeOK, ThreadTypeOK
  <2> QED
    BY <2>1, <2>2, <2>3 DEF TypeOK
<1>2. /\ UNCHANGED <<status, message_queue, op, sessions, session_id_allocator>>
      /\ UNCHANGED <<fault, accepter_got, worker_got>>
      /\ accepter_pc' \in HoldPcs <=> accepter_pc \in HoldPcs
      /\ worker_pc' \in HoldPcs <=> worker_pc \in HoldPcs
      /\ accepter_pc' = "process" <=> accepter_pc = "process"
      /\ worker_pc' = "process" <=> worker_pc = "process"
  BY DEF HoldPcs, IInv, ThreadsInv
<1>3. SessionInv'
  BY <1>2, SessionFrame DEF IInv, SessionInv, AccepterHolds, WorkerHolds
<1>4. AccepterInv' /\ WorkerInv' /\ NoOverlappedOps'
  BY <1>2 DEF IInv, AccepterInv, WorkerInv, NoOverlappedOps, AccepterHolds, WorkerHolds
<1>5. ThreadsInv'
  BY DEF IInv, ThreadsInv
<1> QED
  BY <1>1, <1>3, <1>4, <1>5 DEF IInv

\* Neither does Stop, but for cancelling calls.
LEMMA StopIInv == IInv /\ (StopEnter \/ StopStep) => IInv'
<1> SUFFICES ASSUME IInv, StopEnter \/ StopStep PROVE IInv'
  OBVIOUS
<1> USE DEF accepterVars, workerVars, broadcastVars, mapVars, sessionVars
<1> USE DEF StopEnter, StopStep, StopLock, StopCancel, TryCancel, StopUnlock,
        StopShutdown, StopServerDown, StopShutConn, StopShutReadWrite, ShutQueue
<1>1. TypeOK'
  <2>1. SessionTypeOK'
    BY DEF IInv, TypeOK, SessionTypeOK, Calls, Faults, Queues
  <2>2. MapTypeOK'
    BY DEF IInv, TypeOK, MapTypeOK
  <2>3. ThreadTypeOK'
    BY DEF IInv, TypeOK, MapTypeOK, ThreadTypeOK
  <2> QED
    BY <2>1, <2>2, <2>3 DEF TypeOK
<1>2. /\ UNCHANGED <<status, message_queue, op, sessions, session_id_allocator>>
      /\ UNCHANGED <<accepterVars, workerVars, broadcast_pc, rounds, main_pc>>
      /\ fault' # fault => fault' = "nullServer"
  OBVIOUS
<1>3. SessionInv' /\ AccepterInv' /\ WorkerInv'
  BY <1>2, SessionsUntouched
<1>4. ThreadsInv' /\ NoOverlappedOps'
  BY <1>2 DEF IInv, ThreadsInv, NoOverlappedOps
<1> QED
  BY <1>1, <1>3, <1>4 DEF IInv

-----------------------------------------------------------------------------
\* gRPC and the clients complete operations that are pending, no others.
LEMMA CompleteOpKeepsIdle ==
  ASSUME op \in [Ids -> [Events -> OpStates]],
         NEW s \in Ids, NEW e \in Events, NEW r \in {"ok", "fail"},
         CompleteOp(s, e, r)
  PROVE  /\ op' \in [Ids -> [Events -> OpStates]]
         /\ \A t \in Ids, f \in Events : op'[t][f] = "idle" <=> op[t][f] = "idle"
BY DEF CompleteOp, OpStates

\* Counting a request keeps the counters in their range.
LEMMA NextRequestTyped ==
  ASSUME request \in [Ids -> 0 .. MaxRequests], NEW s \in Ids,
         request[s] < MaxRequests,
         request' = [request EXCEPT ![s] = @ + 1]
  PROVE  request' \in [Ids -> 0 .. MaxRequests]
<1>1. request[s] + 1 \in 0 .. MaxRequests
  BY SessionAssumption
<1> QED
  BY <1>1

\* So whatever a client does or gRPC completes disturbs no session.
LEMMA OutsideIInv ==
  ASSUME IInv, NEW s \in Ids, ClientStep(s) \/ TransportStep(s)
  PROVE  IInv'
<1> USE DEF ClientStep, TransportStep, ClientConnect, ClientRequest, ClientHalfClose,
        ClientLeave, ReadFails, WriteSucceeds, WriteFails, ConnectFails
<1>1. UNCHANGED <<status, message_queue, wire, shut, fault, mapVars, threadVars>>
  BY DEF Elsewhere
<1>2. /\ op' \in [Ids -> [Events -> OpStates]]
      /\ \A t \in Ids, e \in Events : op'[t][e] = "idle" <=> op[t][e] = "idle"
  <2>1. \A e \in Events, r \in {"ok", "fail"} : CompleteOp(s, e, r) =>
          /\ op' \in [Ids -> [Events -> OpStates]]
          /\ \A t \in Ids, f \in Events : op'[t][f] = "idle" <=> op[t][f] = "idle"
    BY CompleteOpKeepsIdle DEF IInv, TypeOK, SessionTypeOK
  <2>2. \/ UNCHANGED op
        \/ \E e \in Events, r \in {"ok", "fail"} : CompleteOp(s, e, r)
    BY DEF Events
  <2> QED
    BY <2>1, <2>2 DEF IInv, TypeOK, SessionTypeOK
<1>3. call' \in [Ids -> Calls]
  BY DEF IInv, TypeOK, SessionTypeOK, Calls
<1>4. request' \in [Ids -> 0 .. MaxRequests]
  <2>1. \/ UNCHANGED request
        \/ /\ request[s] < MaxRequests
           /\ request' = [request EXCEPT ![s] = @ + 1]
    OBVIOUS
  <2> QED
    BY <2>1, NextRequestTyped DEF IInv, TypeOK, SessionTypeOK
<1> USE DEF mapVars, threadVars, mainVars, accepterVars, workerVars, broadcastVars
<1>5. TypeOK'
  <2>1. SessionTypeOK'
    BY <1>1, <1>2, <1>3, <1>4 DEF IInv, TypeOK, SessionTypeOK
  <2>2. MapTypeOK' /\ ThreadTypeOK'
    BY <1>1 DEF IInv, TypeOK, MapTypeOK, ThreadTypeOK
  <2> QED
    BY <2>1, <2>2 DEF TypeOK
<1>6. SessionInv'
  BY <1>1, <1>2, SessionFrame DEF IInv, SessionInv, AccepterHolds, WorkerHolds
<1>7. AccepterInv' /\ WorkerInv' /\ ThreadsInv' /\ NoOverlappedOps'
  BY <1>1 DEF IInv, AccepterInv, WorkerInv, ThreadsInv, NoOverlappedOps, AccepterHolds,
     WorkerHolds
<1> QED
  BY <1>5, <1>6, <1>7 DEF IInv

-----------------------------------------------------------------------------
(***************************************************************************)
(* What a session does, for whichever thread makes it do it.               *)
(***************************************************************************)
\* Starting an operation that is idle is no overlap; it may only come too late.
LEMMA StartOpsTyped ==
  ASSUME IInv, NEW s \in Ids, NEW E \in SUBSET Events, NEW q, StartOps(s, E, q),
         \A e \in E : op[s][e] = "idle"
  PROVE  /\ op' \in [Ids -> [Events -> OpStates]]
         /\ \A t \in Ids \ {s} : op'[t] = op[t]
         /\ \A e \in Events : op'[s][e] = IF e \in E THEN "pending" ELSE op[s][e]
         /\ fault' \in {fault, "shutQueue"}
BY DEF StartOps, IInv, TypeOK, SessionTypeOK, OpStates

\* What SendResponse leaves of status_, the queue and the stream.
LEMMA SendResponseTyped ==
  ASSUME IInv, NEW s \in Ids, NEW m \in Messages, SendResponse(s, m)
  PROVE  /\ status' \in [Ids -> Statuses]
         /\ message_queue' \in [Ids -> Seq(Messages)]
         /\ wire' \in [Ids -> Seq(Messages)]
         /\ \A t \in Ids \ {s} : /\ status'[t] = status[t]
                                 /\ message_queue'[t] = message_queue[t]
<1> DEFINE SeqOK(f) == f \in [Ids -> Seq(Messages)]
<1>1. /\ status \in [Ids -> Statuses] /\ SeqOK(message_queue) /\ SeqOK(wire)
      /\ Append(message_queue[s], m) \in Seq(Messages)
      /\ Append(wire[s], m) \in Seq(Messages)
  BY DEF IInv, TypeOK, SessionTypeOK
<1>2. \/ UNCHANGED <<status, message_queue, wire>>
      \/ /\ status' = [status EXCEPT ![s] = WaitWriteDone]
         /\ wire' = [wire EXCEPT ![s] = Append(@, m)]
         /\ UNCHANGED message_queue
      \/ /\ message_queue' = [message_queue EXCEPT ![s] = Append(@, m)]
         /\ UNCHANGED <<status, wire>>
  BY DEF SendResponse
<1> QED
  BY <1>1, <1>2 DEF Statuses

-----------------------------------------------------------------------------
\* A broadcast writes only where status_ says that no Write is under way.
LEMMA SendIInv ==
  ASSUME IInv, NEW s \in Ids, BroadcastSend(s)
  PROVE  IInv'
<1>1. /\ UNCHANGED <<request, call, shut, mapVars, broadcast_pc, rounds>>
      /\ UNCHANGED <<mainVars, accepterVars, workerVars>>
      /\ broadcast_todo' = broadcast_todo \ {s}
      /\ SendResponse(s, Broadcast)
      /\ StartOps(s, WritesNow(s), "readwrite")
  BY DEF BroadcastSend, BroadcastOnly
<1>2. Consistent(s)
  BY DEF IInv, SessionInv
<1>3. WritesNow(s) \in SUBSET Events /\ \A e \in WritesNow(s) : op[s][e] = "idle"
  BY <1>2 DEF WritesNow, Consistent, Ready, Events
<1>4. /\ op' \in [Ids -> [Events -> OpStates]]
      /\ \A t \in Ids \ {s} : op'[t] = op[t]
      /\ \A e \in Events :
           op'[s][e] = IF e \in WritesNow(s) THEN "pending" ELSE op[s][e]
      /\ fault' \in {fault, "shutQueue"}
  BY <1>1, <1>3, StartOpsTyped
<1>5. Broadcast \in Messages
  BY SessionAssumption DEF Broadcast, Messages
<1>6. /\ status' \in [Ids -> Statuses]
      /\ message_queue' \in [Ids -> Seq(Messages)]
      /\ wire' \in [Ids -> Seq(Messages)]
      /\ \A t \in Ids \ {s} : /\ status'[t] = status[t]
                              /\ message_queue'[t] = message_queue[t]
  BY <1>1, <1>5, SendResponseTyped
<1> USE DEF mapVars, mainVars, accepterVars, workerVars
<1>7. TypeOK'
  <2>1. SessionTypeOK'
    BY <1>1, <1>4, <1>6 DEF IInv, TypeOK, SessionTypeOK, Faults
  <2>2. MapTypeOK' /\ ThreadTypeOK'
    BY <1>1 DEF IInv, TypeOK, MapTypeOK, ThreadTypeOK
  <2> QED
    BY <2>1, <2>2 DEF TypeOK
<1>8. Consistent(s)'
  <2> USE DEF Consistent, AccepterHolds, WorkerHolds, Events, SessionEventConnected,
          SessionEventReadDone, SessionEventWriteDone, WaitToConnect, ReadyToWrite,
          WaitWriteDone
  <2>1. CASE status[s] = ReadyToWrite
    <3>1. /\ WritesNow(s) = {SessionEventWriteDone}
          /\ status'[s] = WaitWriteDone
      BY <2>1, <1>1 DEF WritesNow, SendResponse, IInv, TypeOK, SessionTypeOK
    <3> QED
      BY <2>1, <3>1, <1>1, <1>2, <1>4
      DEF Unused, TagInOnePlace, Unconnected, Connected, Ready, Writing
  <2>2. CASE status[s] # ReadyToWrite
    <3>1. /\ WritesNow(s) = {}
          /\ status' = status
          /\ status[s] = WaitToConnect => message_queue' = message_queue
      BY <2>2, <1>1 DEF WritesNow, SendResponse
    <3> QED
      BY <2>2, <3>1, <1>1, <1>2, <1>4
      DEF Unused, TagInOnePlace, Unconnected, Connected, Ready, Writing
  <2> QED
    BY <2>1, <2>2
<1>9. SessionInv'
  <2>1. ASSUME NEW t \in Ids \ {s} PROVE Consistent(t)'
    BY <1>1, <1>4, <1>6, SessionFrame DEF IInv, SessionInv, AccepterHolds, WorkerHolds
  <2> QED
    BY <1>8, <2>1 DEF SessionInv
<1>10. AccepterInv' /\ WorkerInv' /\ ThreadsInv' /\ NoOverlappedOps'
  BY <1>1, <1>4 DEF IInv, AccepterInv, WorkerInv, ThreadsInv, NoOverlappedOps,
     AccepterHolds, WorkerHolds
<1> QED
  BY <1>7, <1>9, <1>10 DEF IInv

\* A round of broadcasts, its lock and its sleep included.
LEMMA BroadcastIInv == IInv /\ BroadcastStep => IInv'
<1> SUFFICES ASSUME IInv, BroadcastStep PROVE IInv'
  OBVIOUS
<1>1. ASSUME NEW s \in Ids, BroadcastSend(s) PROVE IInv'
  BY <1>1, SendIInv
<1>2. CASE BroadcastCheck \/ BroadcastLock \/ BroadcastSleep \/ BroadcastWake
  <2> USE DEF BroadcastCheck, BroadcastLock, BroadcastSleep, BroadcastWake,
          BroadcastOnly
  <2>1. UNCHANGED <<sessionVars, mapVars, mainVars, accepterVars, workerVars>>
    BY <1>2
  <2>2. broadcast_pc # "unborn" /\ (broadcast_pc' = "lock" => rounds' < MaxRounds)
    BY <1>2
  <2>3. rounds' \in 0 .. MaxRounds
    BY <1>2, RoundsAssumption DEF IInv, TypeOK, ThreadTypeOK, ThreadsInv
  <2>4. ThreadTypeOK'
    BY <1>2, <2>1, <2>3 DEF IInv, TypeOK, MapTypeOK, ThreadTypeOK, mainVars, accepterVars,
       workerVars
  <2> HIDE DEF BroadcastCheck, BroadcastLock, BroadcastSleep, BroadcastWake
  <2> USE DEF sessionVars, mapVars, mainVars, accepterVars, workerVars
  <2>5. SessionTypeOK' /\ MapTypeOK'
    BY <2>1 DEF IInv, TypeOK, SessionTypeOK, MapTypeOK
  <2>6. SessionInv' /\ AccepterInv' /\ WorkerInv'
    BY <2>1, SessionsUntouched
  <2>7. ThreadsInv' /\ NoOverlappedOps'
    BY <2>1, <2>2 DEF IInv, ThreadsInv, NoOverlappedOps
  <2> QED
    BY <2>4, <2>5, <2>6, <2>7 DEF IInv, TypeOK
<1> QED
  BY <1>1, <1>2 DEF BroadcastStep

-----------------------------------------------------------------------------
(***************************************************************************)
(* The accepter.                                                           *)
(***************************************************************************)
\* A new session has an id nobody used and one outstanding accept (lines 318-325).
LEMMA AccepterAddIInv == IInv /\ AccepterAdd => IInv'
<1> SUFFICES ASSUME IInv, AccepterAdd PROVE IInv'
  OBVIOUS
<1>a. session_id_allocator \in Ids
  BY SessionAssumption DEF AccepterAdd, AddNewSession, Ids, IInv, TypeOK, MapTypeOK
<1>b. PICK s \in Ids : s = session_id_allocator
  BY <1>a
<1>1. /\ UNCHANGED <<status, message_queue, request, wire, call, shut, running, server>>
      /\ UNCHANGED <<accepter_got, mainVars, workerVars, broadcastVars>>
      /\ session_id_allocator = s
      /\ StartOps(s, {SessionEventConnected}, "conn")
      /\ sessions' = sessions \cup {s}
      /\ session_id_allocator' = s + 1
      /\ accepter_pc = "add" /\ accepter_pc' = "next"
  BY <1>b DEF AccepterAdd, AddNewSession, AccepterOnly
<1>2. s \in 0 .. MaxSessions - 1
  BY DEF Ids
<1>3. Consistent(s)
  BY DEF IInv, SessionInv
<1> USE DEF SessionEventConnected, SessionEventReadDone, SessionEventWriteDone, Events,
        mainVars, workerVars, broadcastVars
<1>4. op[s][SessionEventConnected] = "idle" /\ status[s] = WaitToConnect
  BY <1>1, <1>2, <1>3 DEF Consistent, Unused
<1>5. /\ op' \in [Ids -> [Events -> OpStates]]
      /\ \A t \in Ids \ {s} : op'[t] = op[t]
      /\ \A e \in Events :
           op'[s][e] = IF e \in {SessionEventConnected} THEN "pending" ELSE op[s][e]
      /\ fault' \in {fault, "shutQueue"}
  BY <1>1, <1>2, <1>4, StartOpsTyped
<1>6. TypeOK'
  <2>1. SessionTypeOK'
    BY <1>1, <1>5 DEF IInv, TypeOK, SessionTypeOK, Faults
  <2>2. MapTypeOK'
    BY <1>1, <1>2, SessionAssumption DEF IInv, TypeOK, MapTypeOK
  <2>3. ThreadTypeOK'
    BY <1>1 DEF IInv, TypeOK, ThreadTypeOK
  <2> QED
    BY <2>1, <2>2, <2>3 DEF TypeOK
<1>7. Consistent(s)'
  BY <1>1, <1>2, <1>3, <1>4, <1>5
  DEF Consistent, Unused, TagInOnePlace, Unconnected, Connected, Ready, Writing,
      AccepterHolds, WorkerHolds, HoldPcs, WaitToConnect, ReadyToWrite, WaitWriteDone,
      IInv, TypeOK, MapTypeOK
<1>8. SessionInv'
  <2>1. ASSUME NEW t \in Ids \ {s} PROVE Consistent(t)'
    <3>1. t >= session_id_allocator' => t >= session_id_allocator
      BY <1>1 DEF Ids, IInv, TypeOK, MapTypeOK
    <3> QED
      BY <1>1, <1>5, <3>1, SessionFrame
      DEF IInv, SessionInv, AccepterHolds, WorkerHolds, HoldPcs
  <2> QED
    BY <1>7, <2>1 DEF SessionInv
<1>9. AccepterInv' /\ WorkerInv' /\ ThreadsInv' /\ NoOverlappedOps'
  BY <1>1, <1>5 DEF IInv, AccepterInv, WorkerInv, ThreadsInv, NoOverlappedOps, HoldPcs,
     AccepterHolds, WorkerHolds
<1> QED
  BY <1>6, <1>8, <1>9 DEF IInv

\* The tag of an accept moves from cq_conn_ into the hand of the accepter.
LEMMA AccepterNextIInv ==
  ASSUME IInv, NEW s \in Ids, AccepterNext(s)
  PROVE  IInv'
<1> USE DEF SessionEventConnected, SessionEventReadDone, SessionEventWriteDone, Events,
        mainVars, workerVars, broadcastVars, mapVars
<1>1. /\ UNCHANGED <<status, message_queue, request, wire, call, shut, fault, mapVars>>
      /\ UNCHANGED <<mainVars, workerVars, broadcastVars>>
      /\ op[s][0] # "idle"
      /\ op' = [op EXCEPT ![s][0] = "idle"]
      /\ accepter_pc = "next" /\ accepter_pc' = "lookup"
      /\ accepter_got'.tag = Tagify(s, 0)
  BY DEF AccepterNext, AccepterOnly, Completed, Got
<1>2. accepter_got' \in [tag : 0 .. TagSpace - 1, ok : BOOLEAN]
  <2>1. Tagify(s, 0) \in 0 .. TagSpace - 1
    BY TagRoundTrip
  <2> QED
    BY <2>1 DEF AccepterNext, Got
<1>3. TypeOK'
  <2>1. op' \in [Ids -> [Events -> OpStates]]
    BY <1>1 DEF IInv, TypeOK, SessionTypeOK, OpStates
  <2>2. SessionTypeOK'
    BY <1>1, <2>1 DEF IInv, TypeOK, SessionTypeOK
  <2>3. MapTypeOK' /\ ThreadTypeOK'
    BY <1>1, <1>2 DEF IInv, TypeOK, MapTypeOK, ThreadTypeOK
  <2> QED
    BY <2>2, <2>3 DEF TypeOK
<1>4. \A t \in Ids : AccepterHolds(t, 0)' <=> t = s
  BY <1>1, TagInjective DEF AccepterHolds, HoldPcs
<1>5. Consistent(s)'
  <2>1. Consistent(s) /\ op'[s][0] = "idle" /\ op'[s][1] = op[s][1] /\ op'[s][2] = op[s][2]
    BY <1>1 DEF IInv, SessionInv, TypeOK, SessionTypeOK
  <2> QED
    BY <1>1, <1>4, <2>1
    DEF Consistent, Unused, TagInOnePlace, Unconnected, Connected, Ready, Writing,
      WorkerHolds
<1>6. SessionInv'
  <2>1. ASSUME NEW t \in Ids \ {s} PROVE Consistent(t)'
    <3>1. op'[t] = op[t] /\ ~AccepterHolds(t, 0) /\ ~AccepterHolds(t, 0)'
      BY <1>1, <1>4 DEF AccepterHolds, HoldPcs, IInv, TypeOK, SessionTypeOK
    <3> QED
      BY <1>1, <3>1, SessionFrame DEF IInv, SessionInv, WorkerHolds
  <2> QED
    BY <1>5, <2>1 DEF SessionInv
<1>7. AccepterInv' /\ WorkerInv' /\ ThreadsInv' /\ NoOverlappedOps'
  BY <1>1, <1>4 DEF IInv, AccepterInv, WorkerInv, ThreadsInv, NoOverlappedOps, WorkerHolds
<1> QED
  BY <1>3, <1>6, <1>7 DEF IInv

\* The tag in the accepter's hand is that of the accept of one session.
LEMMA AccepterTag ==
  ASSUME IInv, accepter_pc \in HoldPcs
  PROVE  \E s \in Ids : /\ TagId(accepter_got.tag) = s
                        /\ TagEvent(accepter_got.tag) = SessionEventConnected
                        /\ \A t \in Ids :
                             AccepterHolds(t, SessionEventConnected) <=> t = s
<1>1. PICK s \in Ids : AccepterHolds(s, SessionEventConnected)
  BY DEF IInv, AccepterInv
<1>2. accepter_got.tag = Tagify(s, 0)
  BY <1>1 DEF AccepterHolds, SessionEventConnected
<1>3. TagId(accepter_got.tag) = s /\ TagEvent(accepter_got.tag) = 0
  BY <1>2, TagRoundTrip
<1>4. \A t \in Ids : AccepterHolds(t, 0) <=> t = s
  BY <1>2, TagInjective DEF AccepterHolds
<1> QED
  BY <1>3, <1>4 DEF SessionEventConnected

\* The value a thread holds between two calls of Next is a tag and a flag.
LEMMA NoEventTyped == NoEvent \in [tag : 0 .. TagSpace - 1, ok : BOOLEAN]
<1>1. 0 \in 0 .. TagSpace - 1
  BY SessionAssumption
<1> QED
  BY <1>1 DEF NoEvent

\* Processing the accept makes the session ready and starts its first Read.
LEMMA AccepterProcessIInv == IInv /\ AccepterProcess => IInv'
<1> SUFFICES ASSUME IInv, AccepterProcess PROVE IInv'
  OBVIOUS
<1> USE DEF SessionEventConnected, SessionEventReadDone, SessionEventWriteDone,
        SessionEventFinished, Events, mainVars, workerVars, broadcastVars, mapVars,
        WaitToConnect, ReadyToWrite, WaitWriteDone
<1>1. accepter_pc = "process" /\ accepter_pc \in HoldPcs
  BY DEF AccepterProcess, HoldPcs
<1>2. PICK s \in Ids : /\ TagId(accepter_got.tag) = s
                       /\ TagEvent(accepter_got.tag) = 0
                       /\ \A t \in Ids : AccepterHolds(t, 0) <=> t = s
  BY <1>1, AccepterTag
<1>3. Consistent(s) /\ s \in sessions
  BY <1>1, <1>2 DEF IInv, SessionInv, AccepterInv
<1>4. status[s] = "WaitToConnect" /\ op[s][0] = "idle" /\ op[s][1] = "idle"
  BY <1>2, <1>3 DEF Consistent, Connected, Unconnected, TagInOnePlace
<1>5. /\ UNCHANGED <<message_queue, wire, request, call, shut, mapVars>>
      /\ UNCHANGED <<mainVars, workerVars, broadcastVars>>
      /\ StartOps(s, {1}, "readwrite")
      /\ status' = [status EXCEPT ![s] = "ReadyToWrite"]
      /\ accepter_pc' = "add" /\ accepter_got' = NoEvent
  BY <1>2 DEF AccepterProcess, AccepterOnly, ProcessEvent, OnConnected
<1>6. /\ op' \in [Ids -> [Events -> OpStates]]
      /\ \A t \in Ids \ {s} : op'[t] = op[t]
      /\ \A e \in Events : op'[s][e] = IF e \in {1} THEN "pending" ELSE op[s][e]
      /\ fault' \in {fault, "shutQueue"}
  BY <1>4, <1>5, StartOpsTyped
<1>7. TypeOK'
  <2>1. SessionTypeOK'
    BY <1>5, <1>6 DEF IInv, TypeOK, SessionTypeOK, Faults, Statuses
  <2>2. MapTypeOK' /\ ThreadTypeOK'
    BY <1>5, NoEventTyped DEF IInv, TypeOK, MapTypeOK, ThreadTypeOK
  <2> QED
    BY <2>1, <2>2 DEF TypeOK
<1>8. \A t \in Ids : ~AccepterHolds(t, 0)'
  BY <1>5 DEF AccepterHolds, HoldPcs
<1>9. Consistent(s)'
  <2>1. status'[s] = "ReadyToWrite"
    BY <1>5 DEF IInv, TypeOK, SessionTypeOK
  <2>2. s \notin {t \in Ids : t >= session_id_allocator}
    BY <1>3 DEF Consistent, Unused
  <2> QED
    BY <1>3, <1>4, <1>5, <1>6, <1>8, <2>1, <2>2
    DEF Consistent, Unused, TagInOnePlace, Unconnected, Connected, Ready, Writing,
        WorkerHolds
<1>10. SessionInv'
  <2>1. ASSUME NEW t \in Ids \ {s} PROVE Consistent(t)'
    <3>1. status'[t] = status[t]
      BY <1>5 DEF IInv, TypeOK, SessionTypeOK
    <3> QED
      BY <1>2, <1>5, <1>6, <1>8, <3>1, SessionFrame DEF IInv, SessionInv, WorkerHolds
  <2> QED
    BY <1>9, <2>1 DEF SessionInv
<1>11. AccepterInv' /\ WorkerInv' /\ ThreadsInv' /\ NoOverlappedOps'
  BY <1>1, <1>5, <1>6 DEF IInv, AccepterInv, WorkerInv, ThreadsInv, NoOverlappedOps,
     WorkerHolds, HoldPcs
<1> QED
  BY <1>7, <1>10, <1>11 DEF IInv

\* Only the accepter removes a session that is not connected.
LEMMA AccepterRemoveIInv == IInv /\ AccepterRemove => IInv'
<1> SUFFICES ASSUME IInv, AccepterRemove PROVE IInv'
  OBVIOUS
<1> USE DEF SessionEventConnected, SessionEventReadDone, SessionEventWriteDone,
        Events, mainVars, workerVars, broadcastVars
<1>1. accepter_pc = "remove" /\ accepter_pc \in HoldPcs
  BY DEF AccepterRemove, HoldPcs
<1>2. PICK s \in Ids : /\ TagId(accepter_got.tag) = s
                       /\ \A t \in Ids : AccepterHolds(t, 0) <=> t = s
  BY <1>1, AccepterTag
<1>3. Consistent(s)
  BY DEF IInv, SessionInv
<1>4. /\ UNCHANGED <<status, message_queue, request, wire, op, shut, fault>>
      /\ UNCHANGED <<running, server, session_id_allocator>>
      /\ UNCHANGED <<mainVars, workerVars, broadcastVars>>
      /\ sessions' = sessions \ {s}
      /\ call' = [call EXCEPT ![s] = IF Live(s) THEN "ended" ELSE @]
      /\ accepter_pc' = "next" /\ accepter_got' = NoEvent
  BY <1>2 DEF AccepterRemove, AccepterOnly, RemoveSession, Destroy
<1>5. TypeOK'
  <2>1. SessionTypeOK'
    BY <1>4 DEF IInv, TypeOK, SessionTypeOK, Calls
  <2>2. MapTypeOK' /\ ThreadTypeOK'
    BY <1>4, NoEventTyped DEF IInv, TypeOK, MapTypeOK, ThreadTypeOK
  <2> QED
    BY <2>1, <2>2 DEF TypeOK
<1>6. \A t \in Ids : ~AccepterHolds(t, 0)'
  BY <1>4 DEF AccepterHolds, HoldPcs
<1>7. Consistent(s)'
  BY <1>3, <1>4, <1>6
  DEF Consistent, Unused, TagInOnePlace, Unconnected, Connected, Ready, Writing,
      WorkerHolds
<1>8. SessionInv'
  <2>1. ASSUME NEW t \in Ids \ {s} PROVE Consistent(t)'
    BY <1>2, <1>4, <1>6, SessionFrame DEF IInv, SessionInv, WorkerHolds
  <2> QED
    BY <1>7, <2>1 DEF SessionInv
<1>9. WorkerInv'
  <2>1. status[s] = WaitToConnect
    BY <1>2, <1>3 DEF Consistent, Connected
  <2>2. worker_pc = "process" => TagId(worker_got.tag) # s
    <3> SUFFICES ASSUME worker_pc = "process", TagId(worker_got.tag) = s
                 PROVE  FALSE
      OBVIOUS
    <3>1. PICK t \in Ids : WorkerHolds(t, 1) \/ WorkerHolds(t, 2)
      BY DEF IInv, WorkerInv, HoldPcs
    <3>2. t = s
      BY <3>1, TagRoundTrip DEF WorkerHolds
    <3> QED
      BY <2>1, <3>1, <3>2, <1>3 DEF Consistent, Unconnected
  <2> QED
    BY <1>4, <2>2 DEF IInv, WorkerInv, WorkerHolds
<1>10. AccepterInv' /\ ThreadsInv' /\ NoOverlappedOps'
  BY <1>1, <1>4 DEF IInv, AccepterInv, ThreadsInv, NoOverlappedOps, HoldPcs
<1> QED
  BY <1>5, <1>8, <1>9, <1>10 DEF IInv

\* A tag whose session is gone is dropped; no session of the map waits for it.
LEMMA AccepterLookupIInv == IInv /\ AccepterLookup => IInv'
<1> SUFFICES ASSUME IInv, AccepterLookup PROVE IInv'
  OBVIOUS
<1> USE DEF SessionEventConnected, SessionEventReadDone, SessionEventWriteDone,
        Events, mainVars, workerVars, broadcastVars, mapVars, sessionVars
<1>1. accepter_pc = "lookup" /\ accepter_pc \in HoldPcs
  BY DEF AccepterLookup, HoldPcs
<1>2. PICK s \in Ids : /\ TagId(accepter_got.tag) = s
                       /\ \A t \in Ids : AccepterHolds(t, 0) <=> t = s
  BY <1>1, AccepterTag
<1>3. /\ UNCHANGED <<sessionVars, mapVars, mainVars, workerVars, broadcastVars>>
      /\ \/ /\ s \notin sessions
            /\ accepter_pc' = "next"
            /\ accepter_got' = NoEvent
         \/ /\ s \in sessions
            /\ accepter_pc' \in {"process", "remove"}
            /\ accepter_got' = accepter_got
  BY <1>2 DEF AccepterLookup, AccepterOnly, AfterGetSession
<1>4. TypeOK'
  <2>1. SessionTypeOK' /\ MapTypeOK'
    BY <1>3 DEF IInv, TypeOK, SessionTypeOK, MapTypeOK
  <2>2. ThreadTypeOK'
    BY <1>3, NoEventTyped DEF IInv, TypeOK, ThreadTypeOK
  <2> QED
    BY <2>1, <2>2 DEF TypeOK
<1>5. \A t \in Ids : AccepterHolds(t, 0)' <=> t = s /\ s \in sessions
  BY <1>1, <1>2, <1>3 DEF AccepterHolds, HoldPcs
<1>6. SessionInv'
  <2>1. ASSUME NEW t \in Ids PROVE Consistent(t)'
    <3>1. Consistent(t)
      BY DEF IInv, SessionInv
    <3> QED
      BY <1>2, <1>3, <1>5, <3>1
      DEF Consistent, Unused, TagInOnePlace, Unconnected, Connected, Ready, Writing,
          WorkerHolds
  <2> QED
    BY <2>1 DEF SessionInv
<1>7. AccepterInv'
  BY <1>2, <1>3, <1>5 DEF AccepterInv, HoldPcs
<1>8. WorkerInv' /\ ThreadsInv' /\ NoOverlappedOps'
  BY <1>1, <1>3 DEF IInv, WorkerInv, ThreadsInv, NoOverlappedOps, WorkerHolds
<1> QED
  BY <1>4, <1>6, <1>7, <1>8 DEF IInv

\* Every step of the accepter loop (lines 194-225).
LEMMA AccepterIInv == IInv /\ AccepterStep => IInv'
<1> SUFFICES ASSUME IInv, AccepterStep PROVE IInv'
  OBVIOUS
<1>1. CASE AccepterCheck \/ AccepterDrained
  <2> USE DEF mainVars, workerVars, broadcastVars, mapVars, sessionVars
  <2>1. /\ UNCHANGED <<sessionVars, mapVars, mainVars, workerVars, broadcastVars>>
        /\ accepter_pc \in {"check", "next"} /\ accepter_pc' \in {"add", "done", "check"}
        /\ accepter_got' = accepter_got
    BY <1>1 DEF AccepterCheck, AccepterDrained, AccepterOnly
  <2>2. TypeOK'
    BY <2>1 DEF IInv, TypeOK, SessionTypeOK, MapTypeOK, ThreadTypeOK
  <2>3. \A t \in Ids : ~AccepterHolds(t, SessionEventConnected)
                        /\ ~AccepterHolds(t, SessionEventConnected)'
    BY <2>1 DEF AccepterHolds, HoldPcs
  <2>4. SessionInv'
    BY <2>1, <2>3, SessionFrame DEF IInv, SessionInv, WorkerHolds
  <2>5. AccepterInv' /\ WorkerInv' /\ ThreadsInv' /\ NoOverlappedOps'
    BY <2>1 DEF IInv, AccepterInv, WorkerInv, ThreadsInv, NoOverlappedOps, WorkerHolds,
       HoldPcs
  <2> QED
    BY <2>2, <2>4, <2>5 DEF IInv
<1> QED
  BY <1>1, AccepterAddIInv, AccepterNextIInv, AccepterProcessIInv, AccepterRemoveIInv,
     AccepterLookupIInv DEF AccepterStep

-----------------------------------------------------------------------------
(***************************************************************************)
(* The worker.                                                             *)
(***************************************************************************)
WorkerEvents == {SessionEventReadDone, SessionEventWriteDone}

\* The tag in the worker's hand is that of one Read or Write of one session.
LEMMA WorkerTag ==
  ASSUME IInv, worker_pc \in HoldPcs
  PROVE  \E s \in Ids, e \in WorkerEvents :
           /\ TagId(worker_got.tag) = s
           /\ TagEvent(worker_got.tag) = e
           /\ \A t \in Ids, f \in WorkerEvents : WorkerHolds(t, f) <=> t = s /\ f = e
<1> USE DEF WorkerEvents, SessionEventReadDone, SessionEventWriteDone
<1>1. PICK s \in Ids, e \in WorkerEvents : WorkerHolds(s, e)
  BY DEF IInv, WorkerInv
<1>2. worker_got.tag = Tagify(s, e)
  BY <1>1 DEF WorkerHolds
<1>3. TagId(worker_got.tag) = s /\ TagEvent(worker_got.tag) = e
  BY <1>2, TagRoundTrip
<1>4. \A t \in Ids, f \in WorkerEvents : WorkerHolds(t, f) <=> t = s /\ f = e
  BY <1>2, TagInjective DEF WorkerHolds
<1> QED
  BY <1>3, <1>4

\* The tag of a Read or Write moves from cq_readwrite_ into the hand of the worker.
LEMMA WorkerNextIInv ==
  ASSUME IInv, NEW s \in Ids, NEW e \in Events, WorkerNext(s, e)
  PROVE  IInv'
<1> USE DEF SessionEventConnected, SessionEventReadDone, SessionEventWriteDone, Events,
        WorkerEvents, mainVars, accepterVars, broadcastVars, mapVars
<1>1. /\ UNCHANGED <<status, message_queue, request, wire, call, shut, fault, mapVars>>
      /\ UNCHANGED <<mainVars, accepterVars, broadcastVars>>
      /\ e \in WorkerEvents
      /\ op[s][e] # "idle"
      /\ op' = [op EXCEPT ![s][e] = "idle"]
      /\ worker_pc = "next" /\ worker_pc' = "lookup"
      /\ worker_got'.tag = Tagify(s, e)
  BY DEF WorkerNext, WorkerOnly, Completed, Got
<1>2. worker_got' \in [tag : 0 .. TagSpace - 1, ok : BOOLEAN]
  <2>1. Tagify(s, e) \in 0 .. TagSpace - 1
    BY TagRoundTrip
  <2> QED
    BY <2>1 DEF WorkerNext, Got
<1>3. TypeOK'
  <2>1. op' \in [Ids -> [Events -> OpStates]]
    BY <1>1 DEF IInv, TypeOK, SessionTypeOK, OpStates
  <2>2. SessionTypeOK'
    BY <1>1, <2>1 DEF IInv, TypeOK, SessionTypeOK
  <2>3. MapTypeOK' /\ ThreadTypeOK'
    BY <1>1, <1>2 DEF IInv, TypeOK, MapTypeOK, ThreadTypeOK
  <2> QED
    BY <2>2, <2>3 DEF TypeOK
<1>4. /\ \A t \in Ids, f \in WorkerEvents : WorkerHolds(t, f)' <=> t = s /\ f = e
      /\ \A t \in Ids, f \in WorkerEvents : ~WorkerHolds(t, f)
  BY <1>1, TagInjective DEF WorkerHolds, HoldPcs
<1>5. Consistent(s)'
  <2>1. /\ Consistent(s) /\ op'[s][e] = "idle"
        /\ \A f \in Events \ {e} : op'[s][f] = op[s][f]
    BY <1>1 DEF IInv, SessionInv, TypeOK, SessionTypeOK
  <2> QED
    BY <1>1, <1>4, <2>1
    DEF Consistent, Unused, TagInOnePlace, Unconnected, Connected, Ready, Writing,
        AccepterHolds
<1>6. SessionInv'
  <2>1. ASSUME NEW t \in Ids \ {s} PROVE Consistent(t)'
    <3>1. op'[t] = op[t]
      BY <1>1 DEF IInv, TypeOK, SessionTypeOK
    <3> QED
      BY <1>1, <1>4, <3>1, SessionFrame DEF IInv, SessionInv, AccepterHolds
  <2> QED
    BY <1>5, <2>1 DEF SessionInv
<1>7. AccepterInv' /\ WorkerInv' /\ ThreadsInv' /\ NoOverlappedOps'
  BY <1>1, <1>4 DEF IInv, AccepterInv, WorkerInv, ThreadsInv, NoOverlappedOps, AccepterHolds
<1> QED
  BY <1>3, <1>6, <1>7 DEF IInv

\* What OnWriteDone leaves: a session that writes again, or a ready one.
LEMMA OnWriteDoneTyped ==
  ASSUME IInv, NEW s \in Ids, op[s][SessionEventWriteDone] = "idle", OnWriteDone(s)
  PROVE  /\ status' \in [Ids -> Statuses]
         /\ message_queue' \in [Ids -> Seq(Messages)]
         /\ wire' \in [Ids -> Seq(Messages)]
         /\ \A t \in Ids \ {s} : /\ status'[t] = status[t]
                                 /\ message_queue'[t] = message_queue[t]
         /\ \E E \in {{}, {SessionEventWriteDone}} :
              /\ op' \in [Ids -> [Events -> OpStates]]
              /\ \A t \in Ids \ {s} : op'[t] = op[t]
              /\ \A e \in Events :
                   op'[s][e] = IF e \in E THEN "pending" ELSE op[s][e]
              /\ E = {} => status'[s] = ReadyToWrite /\ message_queue'[s] = <<>>
              /\ E # {} => status'[s] = WaitWriteDone
         /\ fault' \in {fault, "shutQueue"}
<1> DEFINE SeqOK(f) == f \in [Ids -> Seq(Messages)]
<1>1. /\ status \in [Ids -> Statuses] /\ SeqOK(message_queue) /\ SeqOK(wire)
      /\ op \in [Ids -> [Events -> OpStates]]
  BY DEF IInv, TypeOK, SessionTypeOK
<1>2. CASE message_queue[s] # <<>>
  <2>1. /\ status' = [status EXCEPT ![s] = WaitWriteDone]
        /\ StartOps(s, {SessionEventWriteDone}, "readwrite")
        /\ wire' = [wire EXCEPT ![s] = Append(@, Head(message_queue[s]))]
        /\ message_queue' = [message_queue EXCEPT ![s] = Tail(@)]
    BY <1>2 DEF OnWriteDone
  <2>2. /\ Head(message_queue[s]) \in Messages
        /\ Tail(message_queue[s]) \in Seq(Messages)
    BY <1>1, <1>2
  <2>3. Append(wire[s], Head(message_queue[s])) \in Seq(Messages)
    BY <1>1, <2>2
  <2>4. /\ op' \in [Ids -> [Events -> OpStates]]
        /\ \A t \in Ids \ {s} : op'[t] = op[t]
        /\ \A e \in Events : op'[s][e] =
             IF e \in {SessionEventWriteDone} THEN "pending" ELSE op[s][e]
        /\ fault' \in {fault, "shutQueue"}
    <3>1. {SessionEventWriteDone} \in SUBSET Events
      BY DEF Events
    <3> QED
      BY <2>1, <3>1, StartOpsTyped
  <2>5. /\ status' \in [Ids -> Statuses] /\ SeqOK(message_queue') /\ SeqOK(wire')
        /\ status'[s] = WaitWriteDone
        /\ \A t \in Ids \ {s} : /\ status'[t] = status[t]
                                /\ message_queue'[t] = message_queue[t]
    BY <1>1, <2>1, <2>2, <2>3 DEF Statuses
  <2> QED
    BY <2>4, <2>5
<1>3. CASE message_queue[s] = <<>>
  <2>1. /\ status' = [status EXCEPT ![s] = ReadyToWrite]
        /\ UNCHANGED <<message_queue, wire, op, fault>>
    BY <1>3 DEF OnWriteDone
  <2> QED
    BY <1>1, <1>3, <2>1 DEF Statuses
<1> QED
  BY <1>2, <1>3

\* ProcessEvent in the worker: a Read done is followed by the next Read and a
\* response, a Write done by the next queued response or by a ready session.
LEMMA WorkerProcessIInv == IInv /\ WorkerProcess => IInv'
<1> SUFFICES ASSUME IInv, WorkerProcess PROVE IInv'
  OBVIOUS
<1> USE DEF SessionEventConnected, SessionEventReadDone, SessionEventWriteDone,
        SessionEventFinished, Events, WorkerEvents, mainVars, accepterVars,
        broadcastVars, mapVars, WaitToConnect, ReadyToWrite, WaitWriteDone
<1>1. worker_pc = "process" /\ worker_pc \in HoldPcs
  BY DEF WorkerProcess, HoldPcs
<1>2. PICK s \in Ids, e \in WorkerEvents :
        /\ TagId(worker_got.tag) = s
        /\ TagEvent(worker_got.tag) = e
        /\ \A t \in Ids, f \in WorkerEvents : WorkerHolds(t, f) <=> t = s /\ f = e
  BY <1>1, WorkerTag
<1>3. Consistent(s) /\ s \in sessions
  BY <1>1, <1>2 DEF IInv, SessionInv, WorkerInv
<1>4. status[s] # WaitToConnect /\ op[s][e] = "idle" /\ status[s] \in Statuses
  BY <1>2, <1>3 DEF Consistent, Unconnected, TagInOnePlace, IInv, TypeOK, SessionTypeOK
<1>5. /\ UNCHANGED <<request, call, shut, mapVars>>
      /\ UNCHANGED <<mainVars, accepterVars, broadcastVars>>
      /\ e = 1 => OnReadDone(s)
      /\ e = 2 => OnWriteDone(s)
      /\ worker_pc' = "next" /\ worker_got' = NoEvent
  BY <1>2 DEF WorkerProcess, WorkerOnly, ProcessEvent
<1>6. PICK E \in SUBSET WorkerEvents :
      /\ status' \in [Ids -> Statuses]
      /\ message_queue' \in [Ids -> Seq(Messages)]
      /\ wire' \in [Ids -> Seq(Messages)]
      /\ \A t \in Ids \ {s} : /\ status'[t] = status[t]
                              /\ message_queue'[t] = message_queue[t]
      /\ op' \in [Ids -> [Events -> OpStates]]
      /\ \A t \in Ids \ {s} : op'[t] = op[t]
      /\ \A f \in Events : op'[s][f] = IF f \in E THEN "pending" ELSE op[s][f]
      /\ fault' \in {fault, "shutQueue"}
      /\ e = 1 => /\ 1 \in E
                  /\ 2 \in E <=> status[s] = ReadyToWrite
                  /\ status'[s] = WaitWriteDone
      /\ e = 2 => /\ 1 \notin E
                  /\ 2 \notin E => status'[s] = ReadyToWrite /\ message_queue'[s] = <<>>
                  /\ 2 \in E => status'[s] = WaitWriteDone
  <2>1. CASE e = 1
    <3> DEFINE Started == WritesNow(s) \cup {1}
    <3>1. SendResponse(s, request[s]) /\ StartOps(s, Started, "readwrite")
      BY <1>5, <2>1 DEF OnReadDone
    <3>2. request[s] \in Messages
      BY DEF IInv, TypeOK, SessionTypeOK, Messages
    <3>3. Started \in SUBSET Events /\ \A f \in Started : op[s][f] = "idle"
      BY <1>3, <1>4, <2>1 DEF WritesNow, Consistent, Ready
    <3>4. status'[s] = WaitWriteDone
      BY <3>1, <1>4 DEF SendResponse, Statuses, IInv, TypeOK, SessionTypeOK
    <3>5. /\ op' \in [Ids -> [Events -> OpStates]]
          /\ \A t \in Ids \ {s} : op'[t] = op[t]
          /\ \A f \in Events : op'[s][f] = IF f \in Started THEN "pending" ELSE op[s][f]
          /\ fault' \in {fault, "shutQueue"}
      BY <3>1, <3>3, StartOpsTyped
    <3>6. /\ status' \in [Ids -> Statuses]
          /\ message_queue' \in [Ids -> Seq(Messages)]
          /\ wire' \in [Ids -> Seq(Messages)]
          /\ \A t \in Ids \ {s} : /\ status'[t] = status[t]
                                  /\ message_queue'[t] = message_queue[t]
      BY <3>1, <3>2, SendResponseTyped
    <3>7. 1 \in Started /\ (2 \in Started <=> status[s] = ReadyToWrite)
      BY DEF WritesNow
    <3> Started \in SUBSET WorkerEvents
      BY DEF WritesNow
    <3> HIDE DEF Started
    <3> WITNESS Started \in SUBSET WorkerEvents
    <3> QED
      BY <2>1, <3>4, <3>5, <3>6, <3>7
  <2>2. CASE e = 2
    <3>1. op[s][2] = "idle" /\ OnWriteDone(s)
      BY <1>4, <1>5, <2>2
    <3>2. PICK F \in {{}, {2}} :
            /\ op' \in [Ids -> [Events -> OpStates]]
            /\ \A t \in Ids \ {s} : op'[t] = op[t]
            /\ \A f \in Events : op'[s][f] = IF f \in F THEN "pending" ELSE op[s][f]
            /\ F = {} => status'[s] = ReadyToWrite /\ message_queue'[s] = <<>>
            /\ F # {} => status'[s] = WaitWriteDone
      BY <3>1, OnWriteDoneTyped
    <3>3. /\ status' \in [Ids -> Statuses]
          /\ message_queue' \in [Ids -> Seq(Messages)]
          /\ wire' \in [Ids -> Seq(Messages)]
          /\ \A t \in Ids \ {s} : /\ status'[t] = status[t]
                                  /\ message_queue'[t] = message_queue[t]
          /\ fault' \in {fault, "shutQueue"}
      BY <3>1, OnWriteDoneTyped
    <3>4. F \in SUBSET WorkerEvents /\ 1 \notin F /\ (2 \in F <=> F # {})
      OBVIOUS
    <3> WITNESS F \in SUBSET WorkerEvents
    <3> QED
      BY <2>2, <3>2, <3>3, <3>4
  <2> QED
    BY <2>1, <2>2
<1>7. TypeOK'
  <2>1. SessionTypeOK'
    BY <1>5, <1>6 DEF IInv, TypeOK, SessionTypeOK, Faults
  <2>2. MapTypeOK' /\ ThreadTypeOK'
    BY <1>5, NoEventTyped DEF IInv, TypeOK, MapTypeOK, ThreadTypeOK
  <2> QED
    BY <2>1, <2>2 DEF TypeOK
<1>8. \A t \in Ids, f \in WorkerEvents : ~WorkerHolds(t, f)'
  BY <1>5 DEF WorkerHolds, HoldPcs
<1>9. Consistent(s)'
  <2>1. e = 1 \/ e = 2
    OBVIOUS
  <2>2. e = 2 => status[s] = WaitWriteDone
    BY <1>2, <1>3, <1>4 DEF Consistent, Ready, Statuses
  <2> QED
    BY <1>2, <1>3, <1>4, <1>5, <1>6, <1>8, <2>1, <2>2
    DEF Consistent, Unused, TagInOnePlace, Unconnected, Connected, Ready, Writing,
        AccepterHolds, Statuses
<1>10. SessionInv'
  <2>1. ASSUME NEW t \in Ids \ {s} PROVE Consistent(t)'
    BY <1>2, <1>5, <1>6, <1>8, SessionFrame DEF IInv, SessionInv, AccepterHolds
  <2> QED
    BY <1>9, <2>1 DEF SessionInv
<1>11. AccepterInv' /\ WorkerInv' /\ ThreadsInv' /\ NoOverlappedOps'
  BY <1>1, <1>5, <1>6 DEF IInv, AccepterInv, WorkerInv, ThreadsInv, NoOverlappedOps,
     AccepterHolds, HoldPcs
<1> QED
  BY <1>7, <1>10, <1>11 DEF IInv

\* The worker removes a session that is connected, so never the one whose
\* connection the accepter is about to process.
LEMMA WorkerRemoveIInv == IInv /\ WorkerRemove => IInv'
<1> SUFFICES ASSUME IInv, WorkerRemove PROVE IInv'
  OBVIOUS
<1> USE DEF SessionEventConnected, SessionEventReadDone, SessionEventWriteDone,
        Events, WorkerEvents, mainVars, accepterVars, broadcastVars
<1>1. worker_pc = "remove" /\ worker_pc \in HoldPcs
  BY DEF WorkerRemove, HoldPcs
<1>2. PICK s \in Ids, e \in WorkerEvents :
        /\ TagId(worker_got.tag) = s
        /\ \A t \in Ids, f \in WorkerEvents : WorkerHolds(t, f) <=> t = s /\ f = e
  BY <1>1, WorkerTag
<1>3. Consistent(s)
  BY DEF IInv, SessionInv
<1>4. /\ UNCHANGED <<status, message_queue, request, wire, op, shut, fault>>
      /\ UNCHANGED <<running, server, session_id_allocator>>
      /\ UNCHANGED <<mainVars, accepterVars, broadcastVars>>
      /\ sessions' = sessions \ {s}
      /\ call' = [call EXCEPT ![s] = IF Live(s) THEN "ended" ELSE @]
      /\ worker_pc' = "next" /\ worker_got' = NoEvent
  BY <1>2 DEF WorkerRemove, WorkerOnly, RemoveSession, Destroy
<1>5. TypeOK'
  <2>1. SessionTypeOK'
    BY <1>4 DEF IInv, TypeOK, SessionTypeOK, Calls
  <2>2. MapTypeOK' /\ ThreadTypeOK'
    BY <1>4, NoEventTyped DEF IInv, TypeOK, MapTypeOK, ThreadTypeOK
  <2> QED
    BY <2>1, <2>2 DEF TypeOK
<1>6. \A t \in Ids, f \in WorkerEvents : ~WorkerHolds(t, f)'
  BY <1>4 DEF WorkerHolds, HoldPcs
<1>7. Consistent(s)'
  BY <1>3, <1>4, <1>6
  DEF Consistent, Unused, TagInOnePlace, Unconnected, Connected, Ready, Writing,
      AccepterHolds
<1>8. SessionInv'
  <2>1. ASSUME NEW t \in Ids \ {s} PROVE Consistent(t)'
    BY <1>2, <1>4, <1>6, SessionFrame DEF IInv, SessionInv, AccepterHolds
  <2> QED
    BY <1>7, <2>1 DEF SessionInv
<1>9. AccepterInv'
  <2>1. status[s] # WaitToConnect
    BY <1>2, <1>3 DEF Consistent, Unconnected
  <2>2. accepter_pc = "process" => TagId(accepter_got.tag) # s
    <3> SUFFICES ASSUME accepter_pc = "process", TagId(accepter_got.tag) = s
                 PROVE  FALSE
      OBVIOUS
    <3>1. AccepterHolds(s, 0)
      BY AccepterTag DEF HoldPcs
    <3> QED
      BY <2>1, <3>1, <1>3 DEF Consistent, Connected
  <2> QED
    BY <1>4, <2>2 DEF IInv, AccepterInv, AccepterHolds
<1>10. WorkerInv' /\ ThreadsInv' /\ NoOverlappedOps'
  BY <1>1, <1>4 DEF IInv, WorkerInv, ThreadsInv, NoOverlappedOps, HoldPcs
<1> QED
  BY <1>5, <1>8, <1>9, <1>10 DEF IInv

\* GetSession in the worker: the tag of a removed session is dropped.
LEMMA WorkerLookupIInv == IInv /\ WorkerLookup => IInv'
<1> SUFFICES ASSUME IInv, WorkerLookup PROVE IInv'
  OBVIOUS
<1> USE DEF SessionEventConnected, SessionEventReadDone, SessionEventWriteDone,
        Events, WorkerEvents, mainVars, accepterVars, broadcastVars, mapVars,
        sessionVars
<1>1. worker_pc = "lookup" /\ worker_pc \in HoldPcs
  BY DEF WorkerLookup, HoldPcs
<1>2. PICK s \in Ids, e \in WorkerEvents :
        /\ TagId(worker_got.tag) = s
        /\ \A t \in Ids, f \in WorkerEvents : WorkerHolds(t, f) <=> t = s /\ f = e
  BY <1>1, WorkerTag
<1>3. /\ UNCHANGED <<sessionVars, mapVars, mainVars, accepterVars, broadcastVars>>
      /\ \/ /\ s \notin sessions
            /\ worker_pc' = "next"
            /\ worker_got' = NoEvent
         \/ /\ s \in sessions
            /\ worker_pc' \in {"process", "remove"}
            /\ worker_got' = worker_got
  BY <1>2 DEF WorkerLookup, WorkerOnly, AfterGetSession
<1>4. TypeOK'
  <2>1. SessionTypeOK' /\ MapTypeOK'
    BY <1>3 DEF IInv, TypeOK, SessionTypeOK, MapTypeOK
  <2>2. ThreadTypeOK'
    BY <1>3, NoEventTyped DEF IInv, TypeOK, ThreadTypeOK
  <2> QED
    BY <2>1, <2>2 DEF TypeOK
<1>5. \A t \in Ids, f \in WorkerEvents :
        WorkerHolds(t, f)' <=> t = s /\ f = e /\ s \in sessions
  BY <1>1, <1>2, <1>3 DEF WorkerHolds, HoldPcs
<1>6. SessionInv'
  <2>1. ASSUME NEW t \in Ids PROVE Consistent(t)'
    <3>1. Consistent(t)
      BY DEF IInv, SessionInv
    <3> QED
      BY <1>2, <1>3, <1>5, <3>1
      DEF Consistent, Unused, TagInOnePlace, Unconnected, Connected, Ready, Writing,
          AccepterHolds
  <2> QED
    BY <2>1 DEF SessionInv
<1>7. WorkerInv'
  BY <1>2, <1>3, <1>5 DEF WorkerInv, HoldPcs
<1>8. AccepterInv' /\ ThreadsInv' /\ NoOverlappedOps'
  BY <1>1, <1>3 DEF IInv, AccepterInv, ThreadsInv, NoOverlappedOps, AccepterHolds
<1> QED
  BY <1>4, <1>6, <1>7, <1>8 DEF IInv

\* Every step of the worker loop (lines 234-262).
LEMMA WorkerIInv == IInv /\ WorkerStep => IInv'
<1> SUFFICES ASSUME IInv, WorkerStep PROVE IInv'
  OBVIOUS
<1>1. CASE WorkerCheck \/ WorkerDrained
  <2> USE DEF mainVars, accepterVars, broadcastVars, mapVars, sessionVars
  <2>1. /\ UNCHANGED <<sessionVars, mapVars, mainVars, accepterVars, broadcastVars>>
        /\ worker_pc \in {"check", "next"} /\ worker_pc' \in {"next", "done", "check"}
        /\ worker_got' = worker_got
    BY <1>1 DEF WorkerCheck, WorkerDrained, WorkerOnly
  <2>2. TypeOK'
    BY <2>1 DEF IInv, TypeOK, SessionTypeOK, MapTypeOK, ThreadTypeOK
  <2>3. \A t \in Ids, f \in WorkerEvents : ~WorkerHolds(t, f) /\ ~WorkerHolds(t, f)'
    BY <2>1 DEF WorkerHolds, HoldPcs
  <2>4. SessionInv'
    BY <2>1, <2>3, SessionFrame DEF IInv, SessionInv, AccepterHolds, WorkerEvents
  <2>5. AccepterInv' /\ WorkerInv' /\ ThreadsInv' /\ NoOverlappedOps'
    BY <2>1 DEF IInv, AccepterInv, WorkerInv, ThreadsInv, NoOverlappedOps, AccepterHolds,
       HoldPcs
  <2> QED
    BY <2>2, <2>4, <2>5 DEF IInv
<1>2. ASSUME NEW s \in Ids, NEW e \in Events, WorkerNextFreed(s, e) PROVE IInv'
  <2> USE DEF mainVars, accepterVars, workerVars, broadcastVars, mapVars
  <2>1. /\ UNCHANGED <<status, message_queue, request, wire, op, call, shut, mapVars>>
        /\ UNCHANGED <<mainVars, accepterVars, workerVars, broadcastVars>>
        /\ fault' = "freedOp"
    BY <1>2 DEF WorkerNextFreed, WorkerOnly
  <2>2. TypeOK'
    BY <2>1 DEF IInv, TypeOK, SessionTypeOK, MapTypeOK, ThreadTypeOK, Faults
  <2>3. SessionInv' /\ AccepterInv' /\ WorkerInv'
    BY <2>1, SessionsUntouched
  <2>4. ThreadsInv' /\ NoOverlappedOps'
    BY <2>1 DEF IInv, ThreadsInv, NoOverlappedOps
  <2> QED
    BY <2>2, <2>3, <2>4 DEF IInv
<1> QED
  BY <1>1, <1>2, WorkerNextIInv, WorkerProcessIInv, WorkerRemoveIInv, WorkerLookupIInv
  DEF WorkerStep

-----------------------------------------------------------------------------
\* A step of anything else leaves the invariant as it is.
LEMMA StutterIInv == IInv /\ UNCHANGED vars => IInv'
<1> SUFFICES ASSUME IInv, UNCHANGED vars PROVE IInv'
  OBVIOUS
<1> USE DEF vars, sessionVars, mapVars, threadVars, mainVars, accepterVars, workerVars,
        broadcastVars
<1>1. TypeOK'
  BY DEF IInv, TypeOK, SessionTypeOK, MapTypeOK, ThreadTypeOK
<1>2. SessionInv' /\ AccepterInv' /\ WorkerInv'
  BY SessionsUntouched
<1>3. ThreadsInv' /\ NoOverlappedOps'
  BY DEF IInv, ThreadsInv, NoOverlappedOps
<1> QED
  BY <1>1, <1>2, <1>3 DEF IInv

\* Every step keeps the invariant.
LEMMA NextIInv == IInv /\ [Next]_vars => IInv'
BY MainIInv, StopIInv, AccepterIInv, WorkerIInv, BroadcastIInv, OutsideIInv, StutterIInv
DEF Next, Terminated

\* The invariant holds in every state of every run of the server.
THEOREM InductiveInvariant == Spec => []IInv
BY InitIInv, NextIInv, PTL DEF Spec

\* Every variable of the server keeps its type, whatever the number of
\* sessions, requests and rounds.
THEOREM TypeCorrect == Spec => []TypeOK
<1>1. IInv => TypeOK
  BY DEF IInv
<1> QED
  BY <1>1, InductiveInvariant, PTL

\* The worker and the broadcast thread never have two Reads or two Writes of
\* one stream under way.
THEOREM NeverOverlaps == Spec => []NoOverlappedOps
<1>1. IInv => NoOverlappedOps
  BY DEF IInv
<1> QED
  BY <1>1, InductiveInvariant, PTL

\* Status and outstanding Write agree, so a queued response is always picked
\* up by a completion that is still to come.
THEOREM QueueIsServed == Spec => []WriteInFlight
<1>1. IInv => WriteInFlight
  <2> SUFFICES ASSUME IInv, NEW s \in sessions
               PROVE  /\ status[s] = WaitWriteDone
                             <=> Outstanding(s, SessionEventWriteDone)
                      /\ message_queue[s] # <<>> => status[s] = WaitWriteDone
    BY DEF WriteInFlight
  <2> USE DEF WaitToConnect, ReadyToWrite, WaitWriteDone
  <2>1. s \in Ids /\ Consistent(s) /\ status[s] \in Statuses
    BY DEF IInv, TypeOK, SessionTypeOK, MapTypeOK, SessionInv
  <2>2. ~AccepterHolds(s, SessionEventWriteDone)
    <3> SUFFICES ASSUME AccepterHolds(s, SessionEventWriteDone) PROVE FALSE
      OBVIOUS
    <3>1. TagEvent(accepter_got.tag) = 0
      BY AccepterTag DEF AccepterHolds, SessionEventConnected
    <3>2. TagEvent(accepter_got.tag) = 2
      BY <2>1, TagRoundTrip DEF AccepterHolds, SessionEventWriteDone
    <3> QED
      BY <3>1, <3>2
  <2> QED
    BY <2>1, <2>2 DEF Consistent, Unconnected, Ready, Writing, Outstanding, Statuses
<1> QED
  BY <1>1, InductiveInvariant, PTL

\* No session stays in the map without an operation whose completion can
\* remove it.
THEOREM NoOrphans == Spec => []NoOrphanSession
<1>1. IInv => NoOrphanSession
  <2> SUFFICES ASSUME IInv, NEW s \in sessions
               PROVE  IF status[s] = WaitToConnect
                      THEN Outstanding(s, SessionEventConnected)
                      ELSE Outstanding(s, SessionEventReadDone)
    BY DEF NoOrphanSession
  <2>1. Consistent(s)
    BY DEF IInv, TypeOK, MapTypeOK, SessionInv
  <2> QED
    BY <2>1 DEF Consistent, Unconnected, Connected, Outstanding
<1> QED
  BY <1>1, InductiveInvariant, PTL

\* The zasserts of both loops hold, and every event reaches the session it
\* was meant for in a status that expects it.
THEOREM EventsMatch == Spec => []EventMatchesStatus
<1>1. IInv => EventMatchesStatus
  <2> SUFFICES ASSUME IInv PROVE EventMatchesStatus
    OBVIOUS
  <2> USE DEF SessionEventConnected, SessionEventReadDone, SessionEventWriteDone,
          WaitToConnect, ReadyToWrite, WaitWriteDone, HoldPcs
  <2>1. ASSUME accepter_pc = "process"
        PROVE  /\ TagId(accepter_got.tag) \in sessions
               /\ TagEvent(accepter_got.tag) = 0
               /\ status[TagId(accepter_got.tag)] = WaitToConnect
    <3>1. PICK s \in Ids : /\ TagId(accepter_got.tag) = s
                           /\ TagEvent(accepter_got.tag) = 0
                           /\ AccepterHolds(s, 0)
      BY <2>1, AccepterTag
    <3>2. Consistent(s) /\ s \in sessions
      BY <2>1, <3>1 DEF IInv, SessionInv, AccepterInv
    <3> QED
      BY <3>1, <3>2 DEF Consistent, Connected
  <2>2. ASSUME worker_pc = "process"
        PROVE  /\ TagId(worker_got.tag) \in sessions
               /\ \/ /\ TagEvent(worker_got.tag) = 1
                     /\ status[TagId(worker_got.tag)] # WaitToConnect
                  \/ /\ TagEvent(worker_got.tag) = 2
                     /\ status[TagId(worker_got.tag)] = WaitWriteDone
    <3>1. PICK s \in Ids, e \in WorkerEvents : /\ TagId(worker_got.tag) = s
                                                /\ TagEvent(worker_got.tag) = e
                                                /\ WorkerHolds(s, e)
      BY <2>2, WorkerTag
    <3>2. Consistent(s) /\ s \in sessions /\ status[s] \in Statuses
      BY <2>2, <3>1 DEF IInv, SessionInv, WorkerInv, TypeOK, SessionTypeOK
    <3>3. e = 1 \/ e = 2
      BY DEF WorkerEvents
    <3> QED
      BY <3>1, <3>2, <3>3 DEF Consistent, Unconnected, Ready, Statuses
  <2> QED
    BY <2>1, <2>2 DEF EventMatchesStatus
<1> QED
  BY <1>1, InductiveInvariant, PTL

-----------------------------------------------------------------------------
(***************************************************************************)
(* How Stop, the broadcast thread and the accepter meet: what holds until  *)
(* Stop has begun, what holds once it has cancelled the sessions, and that *)
(* there is always a session for the next client.                          *)
(***************************************************************************)
\* How far Stop is, and what of the server it has taken down. The flag and the
\* lock together keep the broadcast thread out (lines 276 and 291-300).
StopInv ==
  /\ stop_pc # "idle" => ~running
  /\ main_pc = "init" => ~running /\ stop_pc = "idle"
  /\ server = "null" <=> main_pc \in {"init", "build"}
  /\ shut # {} \/ stop_pc \in {"conn", "rw", "done"} => server = "stopping"
  /\ stop_pc \in {"idle", "lock", "cancel", "shutdown"} => server # "stopping"
  /\ stop_pc = "await" => server = "stopping" \/ fault # "none"
  /\ BroadcastBeforeCancel

\* The sessions a client can still connect to.
Waiting == {s \in sessions : status[s] = WaitToConnect}

\* The accept of a session that is not in the map is not outstanding.
AcceptInMap == \A s \in Ids : op[s][SessionEventConnected] # "idle" => s \in sessions

\* Outside its loop the accepter has nothing to take from cq_conn_.
NoAcceptLeft ==
  accepter_pc \in {"unborn", "check", "done"} =>
    \A s \in Ids : op[s][SessionEventConnected] = "idle"

\* Where the accepter is tells which session waits: none before it adds one,
\* the one it added, and the one whose tag it has in hand. No accept fails.
ListenerInv ==
  /\ AcceptInMap
  /\ NoAcceptLeft
  /\ server # "stopping" =>
       /\ accepter_pc # "remove"
       /\ accepter_pc \in {"unborn", "check", "add"} => Waiting = {}
       /\ accepter_pc = "next" => \E s \in Ids : Waiting = {s}
       /\ accepter_pc \in {"lookup", "process"} =>
            Waiting = {TagId(accepter_got.tag)} /\ accepter_got.ok
       /\ \A s \in Ids : op[s][SessionEventConnected] # "fail"

USE DEF sessionVars, mapVars, mainVars, accepterVars, workerVars, broadcastVars,
        threadVars

\* No thread but main, and nothing outside, moves Stop or the server.
LEMMA ThreadKeepsServer ==
  ASSUME \/ AccepterStep \/ WorkerStep \/ BroadcastStep
         \/ \E s \in Ids : ClientStep(s) \/ TransportStep(s)
  PROVE  UNCHANGED <<running, server, shut, main_pc, stop_pc>> /\ fault = "none"
<1>1. CASE AccepterStep
  BY <1>1 DEF AccepterStep, AccepterCheck, AccepterAdd, AccepterNext, AccepterDrained,
     AccepterLookup, AccepterProcess, AccepterRemove, AccepterOnly, AddNewSession,
     RemoveSession, Destroy, ProcessEvent, Over
<1>2. CASE WorkerStep
  BY <1>2 DEF WorkerStep, WorkerCheck, WorkerNext, WorkerNextFreed, WorkerDrained,
     WorkerLookup, WorkerProcess, WorkerRemove, WorkerOnly, RemoveSession, Destroy,
     ProcessEvent, Over
<1>3. CASE BroadcastStep
  BY <1>3 DEF BroadcastStep, BroadcastCheck, BroadcastLock, BroadcastSend, BroadcastSleep,
     BroadcastWake, BroadcastOnly, Over
<1>4. ASSUME NEW s \in Ids, ClientStep(s) \/ TransportStep(s)
      PROVE  UNCHANGED <<running, server, shut, main_pc, stop_pc>> /\ fault = "none"
  BY <1>4
  DEF ClientStep, TransportStep, ClientConnect, ClientRequest, ClientHalfClose,
      ClientLeave, ReadFails, WriteSucceeds, WriteFails, ConnectFails, Elsewhere, Over
<1> QED
  BY <1>1, <1>2, <1>3, <1>4

\* The broadcast thread starts a round only while Stop has not begun.
LEMMA ThreadBroadcast ==
  ASSUME \/ AccepterStep \/ WorkerStep \/ BroadcastStep
         \/ \E s \in Ids : ClientStep(s) \/ TransportStep(s)
  PROVE  broadcast_pc' = "iter" => broadcast_pc = "iter" \/ running
<1>1. CASE AccepterStep
  BY <1>1 DEF AccepterStep, AccepterCheck, AccepterAdd, AccepterNext, AccepterDrained,
     AccepterLookup, AccepterProcess, AccepterRemove, AccepterOnly
<1>2. CASE WorkerStep
  BY <1>2 DEF WorkerStep, WorkerCheck, WorkerNext, WorkerNextFreed, WorkerDrained,
     WorkerLookup, WorkerProcess, WorkerRemove, WorkerOnly
<1>3. CASE BroadcastStep
  BY <1>3 DEF BroadcastStep, BroadcastCheck, BroadcastLock, BroadcastSend, BroadcastSleep,
     BroadcastWake
<1>4. ASSUME NEW s \in Ids, ClientStep(s) \/ TransportStep(s)
      PROVE  UNCHANGED broadcast_pc
  BY <1>4 DEF ClientStep, TransportStep, Elsewhere
<1> QED
  BY <1>1, <1>2, <1>3, <1>4

\* So these steps keep what is said of Stop.
LEMMA ThreadStopInv ==
  ASSUME StopInv,
         \/ AccepterStep \/ WorkerStep \/ BroadcastStep
         \/ \E s \in Ids : ClientStep(s) \/ TransportStep(s)
  PROVE  StopInv'
BY ThreadKeepsServer, ThreadBroadcast DEF StopInv, BroadcastBeforeCancel

\* Start sets the flag, builds the server and starts the threads.
LEMMA MainStopInv ==
  ASSUME IInv, StopInv, MainStep
  PROVE  StopInv'
<1> USE DEF StopInv, BroadcastBeforeCancel, MainRuns, Over
<1>1. CASE StartEnter
  BY <1>1 DEF StartEnter
<1>2. CASE StartBuild
  BY <1>2 DEF StartBuild
<1>3. CASE StartThreads
  BY <1>3 DEF StartThreads
<1>4. CASE StartReturn
  BY <1>4 DEF StartReturn
<1> QED
  BY <1>1, <1>2, <1>3, <1>4 DEF MainStep

\* Stop clears the flag first and gets the lock only between two rounds.
LEMMA StopStopInv ==
  ASSUME IInv, StopInv, StopEnter \/ StopStep
  PROVE  StopInv'
<1> USE DEF StopInv, BroadcastBeforeCancel, Over
<1>1. CASE StopEnter
  <2>1. /\ ~running' /\ stop_pc = "idle" /\ stop_pc' = "lock" /\ running
        /\ UNCHANGED <<server, shut, main_pc, broadcast_pc, fault>>
    BY <1>1, Zenon DEF StopEnter
  <2>2. main_pc # "init"
    BY <2>1
  <2> QED
    BY <2>1, <2>2
<1>2. CASE StopLock
  BY <1>2 DEF StopLock, SharedHeld
<1>3. ASSUME NEW s \in Ids, StopCancel(s) PROVE StopInv'
  BY <1>3 DEF StopCancel, TryCancel
<1>4. CASE StopUnlock
  BY <1>4 DEF StopUnlock
<1>5. CASE StopShutdown
  BY <1>5 DEF StopShutdown
<1>6. CASE StopServerDown
  BY <1>6 DEF StopServerDown
<1>7. CASE StopShutConn \/ StopShutReadWrite
  BY <1>7 DEF StopShutConn, StopShutReadWrite, ShutQueue
<1> QED
  BY <1>1, <1>2, <1>3, <1>4, <1>5, <1>6, <1>7 DEF StopStep

\* Every step keeps it.
LEMMA NextStopInv == IInv /\ StopInv /\ [Next]_vars => StopInv'
<1> SUFFICES ASSUME IInv, StopInv, [Next]_vars PROVE StopInv'
  OBVIOUS
<1>1. CASE Terminated \/ UNCHANGED vars
  BY <1>1 DEF Terminated, vars, StopInv, BroadcastBeforeCancel
<1> QED
  BY <1>1, MainStopInv, StopStopInv, ThreadStopInv DEF Next

\* Before Start nothing runs, and there is no server.
LEMMA InitStopInv == Init => StopInv
BY DEF Init, SessionInit, StopInv, BroadcastBeforeCancel

\* How far Stop is determines the rest, in every state of every run.
LEMMA StopInvariant == Spec => []StopInv
<1>1. Spec => []IInv
  BY InductiveInvariant
<1> QED
  BY <1>1, InitStopInv, NextStopInv, PTL DEF Spec

\* Once Stop has the lock no round of broadcasts is under way and none begins:
\* no session is written to after Stop has cancelled it.
THEOREM NoBroadcastAfterCancel == Spec => []BroadcastBeforeCancel
<1>1. StopInv => BroadcastBeforeCancel
  BY DEF StopInv
<1> QED
  BY <1>1, StopInvariant, PTL

-----------------------------------------------------------------------------
(***************************************************************************)
(* The session for the next client.                                        *)
(***************************************************************************)
\* A step that is not the accepter's, takes no waiting session away and starts
\* and fails no accept keeps the invariant.
LEMMA ListenerFrame ==
  ASSUME ListenerInv, UNCHANGED accepterVars,
         server' # "stopping" => server # "stopping",
         Waiting' = Waiting,
         \A s \in Ids : op'[s][SessionEventConnected] # "idle" =>
           op[s][SessionEventConnected] # "idle" /\ (s \in sessions => s \in sessions'),
         server' # "stopping" =>
           \A s \in Ids : op'[s][SessionEventConnected] = "fail" =>
             op[s][SessionEventConnected] = "fail"
  PROVE  ListenerInv'
<1>1. AcceptInMap' /\ NoAcceptLeft'
  BY DEF ListenerInv, AcceptInMap, NoAcceptLeft
<1>2. ASSUME server' # "stopping"
      PROVE  /\ accepter_pc # "remove"
             /\ accepter_pc \in {"unborn", "check", "add"} => Waiting' = {}
             /\ accepter_pc = "next" => \E s \in Ids : Waiting' = {s}
             /\ accepter_pc \in {"lookup", "process"} =>
                  Waiting' = {TagId(accepter_got.tag)} /\ accepter_got.ok
             /\ \A s \in Ids : op'[s][SessionEventConnected] # "fail"
  BY <1>2, Zenon DEF ListenerInv
<1>3. accepter_pc' = accepter_pc /\ accepter_got' = accepter_got
  OBVIOUS
<1> HIDE DEF Waiting, accepterVars
<1> QED
  BY <1>1, <1>2, <1>3 DEF ListenerInv

\* Which sessions wait depends on the map and on who is connected only.
LEMMA WaitingFrame ==
  ASSUME IInv, sessions' = sessions,
         \A s \in Ids : status'[s] = WaitToConnect <=> status[s] = WaitToConnect
  PROVE  Waiting' = Waiting
BY DEF IInv, TypeOK, MapTypeOK, Waiting

\* A response connects nobody, and starts no accept.
LEMMA SendKeepsWaiting ==
  ASSUME IInv, NEW s \in Ids, NEW m, NEW E, NEW q, SendResponse(s, m), StartOps(s, E, q),
         SessionEventConnected \notin E
  PROVE  \A t \in Ids : /\ status'[t] = WaitToConnect <=> status[t] = WaitToConnect
                        /\ op'[t][SessionEventConnected] = op[t][SessionEventConnected]
<1>1. status \in [Ids -> Statuses] /\ op \in [Ids -> [Events -> OpStates]]
  BY DEF IInv, TypeOK, SessionTypeOK
<1>2. ASSUME NEW t \in Ids PROVE status'[t] = WaitToConnect <=> status[t] = WaitToConnect
  BY <1>1 DEF SendResponse, WaitToConnect, ReadyToWrite, WaitWriteDone
<1>3. ASSUME NEW t \in Ids
      PROVE  op'[t][SessionEventConnected] = op[t][SessionEventConnected]
  BY <1>1 DEF StartOps, Events
<1> QED
  BY <1>2, <1>3

\* Neither do the handlers of a Read and of a Write.
LEMMA ProcessKeepsWaiting ==
  ASSUME IInv, WorkerProcess
  PROVE  /\ UNCHANGED <<sessions, server, accepterVars>>
         /\ \A t \in Ids : /\ status'[t] = WaitToConnect <=> status[t] = WaitToConnect
                           /\ op'[t][SessionEventConnected] = op[t][SessionEventConnected]
<1>1. worker_pc = "process" /\ worker_pc \in HoldPcs
  BY DEF WorkerProcess, HoldPcs
<1>2. PICK s \in Ids, e \in WorkerEvents :
        /\ TagId(worker_got.tag) = s
        /\ TagEvent(worker_got.tag) = e
        /\ \A t \in Ids, f \in WorkerEvents : WorkerHolds(t, f) <=> t = s /\ f = e
  BY <1>1, WorkerTag
<1>3. status[s] # WaitToConnect
  BY <1>2 DEF IInv, SessionInv, Consistent, Unconnected, WorkerEvents
<1>4. UNCHANGED <<sessions, server, accepterVars>>
  BY DEF WorkerProcess, WorkerOnly
<1> USE DEF SessionEventConnected, SessionEventReadDone, SessionEventWriteDone,
        SessionEventFinished, WorkerEvents
<1>5. CASE e = 1
  <2>1. /\ SendResponse(s, request[s])
        /\ StartOps(s, WritesNow(s) \cup {1}, "readwrite")
    BY <1>2, <1>5 DEF WorkerProcess, ProcessEvent, OnReadDone
  <2>2. 0 \notin WritesNow(s) \cup {1}
    BY DEF WritesNow
  <2> QED
    BY <1>4, <2>1, <2>2, SendKeepsWaiting
<1>6. CASE e = 2
  <2>1. OnWriteDone(s)
    BY <1>2, <1>6 DEF WorkerProcess, ProcessEvent
  <2>2. status \in [Ids -> Statuses] /\ op \in [Ids -> [Events -> OpStates]]
    BY DEF IInv, TypeOK, SessionTypeOK
  <2>3. ASSUME NEW t \in Ids
        PROVE  status'[t] = WaitToConnect <=> status[t] = WaitToConnect
    BY <1>3, <2>1, <2>2 DEF OnWriteDone, WaitToConnect, ReadyToWrite, WaitWriteDone
  <2>4. ASSUME NEW t \in Ids PROVE op'[t][0] = op[t][0]
    BY <2>1, <2>2 DEF OnWriteDone, StartOps, Events
  <2> QED
    BY <1>4, <2>3, <2>4
<1> QED
  BY <1>5, <1>6

\* The worker removes only sessions that are connected.
LEMMA RemoveKeepsWaiting ==
  ASSUME IInv, WorkerRemove
  PROVE  /\ UNCHANGED <<status, op, server, accepterVars>>
         /\ Waiting' = Waiting
         /\ \A t \in Ids : op[t][SessionEventConnected] # "idle" /\ t \in sessions
                             => t \in sessions'
<1>1. worker_pc = "remove" /\ worker_pc \in HoldPcs
  BY DEF WorkerRemove, HoldPcs
<1>2. PICK s \in Ids, e \in WorkerEvents :
        /\ TagId(worker_got.tag) = s
        /\ \A t \in Ids, f \in WorkerEvents : WorkerHolds(t, f) <=> t = s /\ f = e
  BY <1>1, WorkerTag
<1>3. status[s] # WaitToConnect
  BY <1>2 DEF IInv, SessionInv, Consistent, Unconnected, WorkerEvents
<1>4. op[s][SessionEventConnected] = "idle"
  BY <1>3 DEF IInv, SessionInv, Consistent, Connected
<1>5. UNCHANGED <<status, op, server, accepterVars>> /\ sessions' = sessions \ {s}
  BY <1>2 DEF WorkerRemove, WorkerOnly, RemoveSession, Destroy
<1> QED
  BY <1>3, <1>4, <1>5 DEF Waiting

\* Start and Stop touch no session; the accepter is started with none.
LEMMA MainListener ==
  ASSUME IInv, StopInv, ListenerInv, MainStep \/ StopEnter \/ StopStep
  PROVE  ListenerInv'
<1>1. UNCHANGED <<status, op, sessions, accepter_got>>
  BY DEF MainStep, StartEnter, StartBuild, StartThreads, StartReturn, StopEnter, StopStep,
     StopLock, StopCancel, TryCancel, StopUnlock, StopShutdown, StopServerDown,
     StopShutConn, StopShutReadWrite, ShutQueue
<1>2. server' # "stopping" => server # "stopping"
  BY DEF MainStep, StartEnter, StartBuild, StartThreads, StartReturn, StopEnter, StopStep,
     StopLock, StopCancel, StopUnlock, StopShutdown, StopServerDown, StopShutConn,
     StopShutReadWrite, ShutQueue, StopInv
<1>3. Waiting' = Waiting
  BY <1>1, WaitingFrame
<1>4. CASE StartThreads
  <2>1. accepter_pc = "unborn" /\ accepter_pc' = "check"
    BY <1>4 DEF StartThreads, IInv, ThreadsInv
  <2> QED
    BY <1>1, <1>2, <1>3, <2>1 DEF ListenerInv, AcceptInMap, NoAcceptLeft
<1>5. CASE ~StartThreads
  <2>1. UNCHANGED accepterVars
    BY <1>5 DEF MainStep, StartEnter, StartBuild, StartReturn, StopEnter, StopStep,
       StopLock, StopCancel, StopUnlock, StopShutdown, StopServerDown, StopShutConn,
       StopShutReadWrite, ShutQueue
  <2> QED
    BY <1>1, <1>2, <1>3, <2>1, ListenerFrame
<1> QED
  BY <1>4, <1>5

\* The broadcast thread and the worker take no waiting session away.
LEMMA ServeListener ==
  ASSUME IInv, ListenerInv, WorkerStep \/ BroadcastStep
  PROVE  ListenerInv'
<1> HIDE DEF accepterVars
<1>1. CASE WorkerProcess
  BY <1>1, ProcessKeepsWaiting, WaitingFrame, ListenerFrame
<1>2. CASE WorkerRemove
  BY <1>2, RemoveKeepsWaiting, ListenerFrame
<1>3. ASSUME NEW s \in Ids, BroadcastSend(s) PROVE ListenerInv'
  <2>1. SessionEventConnected \notin WritesNow(s)
    BY DEF WritesNow, SessionEventConnected, SessionEventWriteDone
  <2>2. /\ UNCHANGED <<sessions, server, accepterVars>>
        /\ SendResponse(s, Broadcast) /\ StartOps(s, WritesNow(s), "readwrite")
    BY <1>3 DEF BroadcastSend, BroadcastOnly
  <2> QED
    BY <2>1, <2>2, SendKeepsWaiting, WaitingFrame, ListenerFrame
<1>4. ASSUME NEW s \in Ids, NEW e \in Events, WorkerNext(s, e) PROVE ListenerInv'
  <2>1. /\ UNCHANGED <<status, sessions, server, accepterVars>>
        /\ e # SessionEventConnected /\ op' = [op EXCEPT ![s][e] = "idle"]
    BY <1>4 DEF WorkerNext, WorkerOnly
  <2>2. \A t \in Ids : op'[t][SessionEventConnected] = op[t][SessionEventConnected]
    BY <2>1 DEF IInv, TypeOK, SessionTypeOK, Events
  <2> QED
    BY <2>1, <2>2, WaitingFrame, ListenerFrame
<1>5. CASE WorkerCheck \/ WorkerDrained \/ WorkerLookup \/ BroadcastCheck \/ BroadcastLock
           \/ BroadcastSleep \/ BroadcastWake
           \/ \E s \in Ids, e \in Events : WorkerNextFreed(s, e)
  <2>1. UNCHANGED <<status, sessions, server, accepterVars, op>>
    BY <1>5 DEF WorkerCheck, WorkerDrained, WorkerLookup, WorkerNextFreed, WorkerOnly,
       BroadcastCheck, BroadcastLock, BroadcastSleep, BroadcastWake, BroadcastOnly
  <2> QED
    BY <2>1, WaitingFrame, ListenerFrame
<1> QED
  BY <1>1, <1>2, <1>3, <1>4, <1>5 DEF WorkerStep, BroadcastStep

\* Outside, an accept fails only when the server shuts down.
LEMMA OutsideListener ==
  ASSUME IInv, ListenerInv, NEW s \in Ids, ClientStep(s) \/ TransportStep(s)
  PROVE  ListenerInv'
<1>1. UNCHANGED <<status, sessions, server, accepterVars>>
  BY DEF ClientStep, TransportStep, ClientConnect, ClientRequest, ClientHalfClose,
     ClientLeave, ReadFails, WriteSucceeds, WriteFails, ConnectFails, Elsewhere
<1>2. \/ UNCHANGED op
      \/ \E e \in Events, r \in {"ok", "fail"} :
           /\ CompleteOp(s, e, r)
           /\ e = SessionEventConnected /\ r = "fail" => server = "stopping"
  BY DEF ClientStep, TransportStep, ClientConnect, ClientRequest, ClientHalfClose,
     ClientLeave, ReadFails, WriteSucceeds, WriteFails, ConnectFails, Events,
     SessionEventConnected, SessionEventReadDone, SessionEventWriteDone
<1>3. \A t \in Ids :
        /\ op'[t][SessionEventConnected] # "idle" => op[t][SessionEventConnected] # "idle"
        /\ server # "stopping" /\ op'[t][SessionEventConnected] = "fail"
             => op[t][SessionEventConnected] = "fail"
  <2>1. ASSUME NEW e \in Events, NEW r \in {"ok", "fail"}, CompleteOp(s, e, r), NEW t \in Ids
        PROVE  \/ op'[t][SessionEventConnected] = op[t][SessionEventConnected]
               \/ /\ e = SessionEventConnected
                  /\ op[t][SessionEventConnected] = "pending"
                  /\ op'[t][SessionEventConnected] = r
    BY <2>1 DEF CompleteOp, Events, IInv, TypeOK, SessionTypeOK
  <2>2. CASE UNCHANGED op
    BY <2>2
  <2>3. ASSUME NEW e \in Events, NEW r \in {"ok", "fail"}, CompleteOp(s, e, r),
               e = SessionEventConnected /\ r = "fail" => server = "stopping",
               NEW t \in Ids
        PROVE  /\ op'[t][SessionEventConnected] # "idle"
                    => op[t][SessionEventConnected] # "idle"
               /\ server # "stopping" /\ op'[t][SessionEventConnected] = "fail"
                    => op[t][SessionEventConnected] = "fail"
    BY <2>1, <2>3
  <2> QED
    BY <1>2, <2>2, <2>3
<1> HIDE DEF accepterVars
<1> QED
  BY <1>1, <1>3, WaitingFrame, ListenerFrame

\* The accepter loop: it adds a session, waits for its client, connects it, and
\* only then adds the next one. Drained queues and failed accepts come with the
\* Shutdown of the server.
LEMMA AccepterListener ==
  ASSUME IInv, StopInv, ListenerInv, AccepterStep
  PROVE  ListenerInv'
<1> USE DEF SessionEventConnected
<1>1. CASE AccepterCheck
  <2>1. /\ UNCHANGED <<status, op, sessions, server, accepter_got>>
        /\ accepter_pc = "check" /\ accepter_pc' \in {"add", "done"}
    BY <1>1 DEF AccepterCheck
  <2>2. Waiting' = Waiting
    BY <2>1, WaitingFrame
  <2> QED
    BY <2>1, <2>2 DEF ListenerInv, AcceptInMap, NoAcceptLeft
<1>2. CASE AccepterDrained
  <2>1. /\ UNCHANGED <<op, sessions, server>>
        /\ server = "stopping"
        /\ \A s \in Ids : op[s][0] = "idle"
    BY <1>2 DEF AccepterDrained, StopInv
  <2> QED
    BY <2>1 DEF ListenerInv, AcceptInMap, NoAcceptLeft
<1>3. CASE AccepterAdd
  <2>1. PICK s \in Ids : s = session_id_allocator
    BY <1>3, SessionAssumption DEF AccepterAdd, AddNewSession, Ids, IInv, TypeOK, MapTypeOK
  <2>2. /\ UNCHANGED <<status, server>> /\ sessions' = sessions \cup {s}
        /\ op' = [op EXCEPT ![s] = [e \in Events |-> IF e \in {0} THEN "pending" ELSE op[s][e]]]
        /\ accepter_pc = "add" /\ accepter_pc' = "next"
    BY <1>3, <2>1 DEF AccepterAdd, AddNewSession, StartOps
  <2>3. /\ \A t \in Ids \ {s} : op'[t][0] = op[t][0]
        /\ op'[s][0] = "pending"
    BY <2>2 DEF IInv, TypeOK, SessionTypeOK, Events
  <2>4. AcceptInMap' /\ NoAcceptLeft'
    BY <2>2, <2>3 DEF ListenerInv, AcceptInMap, NoAcceptLeft
  <2>5. status[s] = WaitToConnect
    BY <2>1 DEF IInv, SessionInv, Consistent, Unused, Ids
  <2>6. server # "stopping" => Waiting' = {s}
    BY <2>2, <2>5 DEF ListenerInv, Waiting
  <2> QED
    BY <2>2, <2>3, <2>4, <2>6 DEF ListenerInv
<1>4. ASSUME NEW s \in Ids, AccepterNext(s) PROVE ListenerInv'
  <2>1. /\ UNCHANGED <<status, sessions, server>>
        /\ op[s][0] \in {"ok", "fail"}
        /\ op' = [op EXCEPT ![s][0] = "idle"]
        /\ accepter_pc = "next" /\ accepter_pc' = "lookup"
        /\ accepter_got' = [tag |-> Tagify(s, 0), ok |-> op[s][0] = "ok"]
    BY <1>4 DEF AccepterNext, Completed, Got
  <2>2. Waiting' = Waiting
    BY <2>1, WaitingFrame
  <2>3. \A t \in Ids : op'[t][0] = "idle" \/ op'[t][0] = op[t][0]
    BY <2>1 DEF IInv, TypeOK, SessionTypeOK, Events
  <2>4. s \in Waiting
    <3>1. s \in sessions
      BY <2>1 DEF ListenerInv, AcceptInMap
    <3>2. status[s] = WaitToConnect
      BY <2>1 DEF IInv, SessionInv, Consistent, Connected
    <3> QED
      BY <3>1, <3>2 DEF Waiting
  <2>5. TagId(accepter_got'.tag) = s
    BY <2>1, TagRoundTrip
  <2>6. op[s][0] = "ok" => accepter_got'.ok
    BY <2>1
  <2> HIDE DEF Waiting
  <2>7. server # "stopping" => Waiting' = {TagId(accepter_got'.tag)}
    BY <2>1, <2>2, <2>4, <2>5 DEF ListenerInv
  <2>8. AcceptInMap' /\ NoAcceptLeft'
    BY <2>1, <2>3 DEF ListenerInv, AcceptInMap, NoAcceptLeft
  <2> QED
    BY <2>1, <2>3, <2>6, <2>7, <2>8 DEF ListenerInv
<1>5. CASE AccepterLookup
  <2>1. /\ UNCHANGED <<status, op, sessions, server>>
        /\ accepter_pc = "lookup"
        /\ TagId(accepter_got.tag) \in sessions /\ accepter_got.ok =>
             accepter_pc' = "process" /\ accepter_got' = accepter_got
        /\ accepter_pc' \in {"next", "process", "remove"}
    BY <1>5 DEF AccepterLookup, AfterGetSession
  <2>2. Waiting' = Waiting
    BY <2>1, WaitingFrame
  <2>3. \A t \in Waiting : t \in sessions
    BY DEF Waiting
  <2> HIDE DEF Waiting
  <2>4. server # "stopping" => accepter_pc' = "process" /\ accepter_got' = accepter_got
    BY <2>1, <2>3 DEF ListenerInv
  <2> QED
    BY <2>1, <2>2, <2>4 DEF ListenerInv, AcceptInMap, NoAcceptLeft
<1>6. CASE AccepterProcess
  <2>1. accepter_pc = "process" /\ accepter_pc \in HoldPcs
    BY <1>6 DEF AccepterProcess, HoldPcs
  <2>2. PICK s \in Ids : /\ TagId(accepter_got.tag) = s
                         /\ TagEvent(accepter_got.tag) = 0
    BY <2>1, AccepterTag
  <2>3. /\ UNCHANGED <<sessions, server>>
        /\ op' = [op EXCEPT ![s] = [e \in Events |-> IF e \in {1} THEN "pending" ELSE op[s][e]]]
        /\ status' = [status EXCEPT ![s] = ReadyToWrite]
        /\ accepter_pc' = "add"
    BY <1>6, <2>2
    DEF AccepterProcess, ProcessEvent, OnConnected, StartOps, SessionEventReadDone,
        SessionEventWriteDone, SessionEventFinished
  <2>4. \A t \in Ids : op'[t][0] = op[t][0]
    BY <2>3 DEF IInv, TypeOK, SessionTypeOK, Events
  <2>5. server # "stopping" => Waiting' = {}
    <3> SUFFICES ASSUME server # "stopping", NEW t \in sessions,
                        status'[t] = WaitToConnect
                 PROVE  FALSE
      BY <2>3 DEF Waiting
    <3>1. t \in Ids /\ status \in [Ids -> Statuses]
      BY DEF IInv, TypeOK, MapTypeOK, SessionTypeOK
    <3>2. t # s /\ status[t] = WaitToConnect
      BY <2>3, <3>1 DEF WaitToConnect, ReadyToWrite
    <3>3. Waiting = {s}
      BY <2>1, <2>2 DEF ListenerInv
    <3> QED
      BY <3>2, <3>3 DEF Waiting
  <2> QED
    BY <2>3, <2>4, <2>5 DEF ListenerInv, AcceptInMap, NoAcceptLeft
<1>7. CASE AccepterRemove
  <2>1. accepter_pc = "remove" /\ accepter_pc \in HoldPcs
    BY <1>7 DEF AccepterRemove, HoldPcs
  <2>2. PICK s \in Ids : /\ TagId(accepter_got.tag) = s /\ AccepterHolds(s, 0)
    BY <2>1, AccepterTag
  <2>3. /\ UNCHANGED <<op, server>> /\ sessions' = sessions \ {s}
        /\ accepter_pc' = "next"
    BY <1>7, <2>2 DEF AccepterRemove, RemoveSession, Destroy
  <2>4. op[s][0] = "idle"
    BY <2>2 DEF IInv, SessionInv, Consistent, TagInOnePlace
  <2>5. server = "stopping"
    BY <2>1 DEF ListenerInv
  <2> QED
    BY <2>3, <2>4, <2>5 DEF ListenerInv, AcceptInMap, NoAcceptLeft
<1> QED
  BY <1>1, <1>2, <1>3, <1>4, <1>5, <1>6, <1>7 DEF AccepterStep

\* Before Start there is no session at all.
LEMMA InitListener == Init => ListenerInv
BY DEF Init, SessionInit, ListenerInv, AcceptInMap, NoAcceptLeft, Waiting, Events,
   SessionEventConnected

\* Every step keeps it.
LEMMA NextListener == IInv /\ StopInv /\ ListenerInv /\ [Next]_vars => ListenerInv'
<1> SUFFICES ASSUME IInv, StopInv, ListenerInv, [Next]_vars PROVE ListenerInv'
  OBVIOUS
<1>1. CASE Terminated \/ UNCHANGED vars
  <2>1. UNCHANGED <<status, op, sessions, server, accepterVars>>
    BY <1>1 DEF Terminated, vars
  <2> HIDE DEF accepterVars
  <2> QED
    BY <2>1, WaitingFrame, ListenerFrame
<1> QED
  BY <1>1, MainListener, ServeListener, OutsideListener, AccepterListener DEF Next

\* Whenever the accepter waits in Next and the server takes calls, exactly one
\* session waits for the next client, whatever sessions came and went before.
THEOREM OneListener == Spec => []ListenerArmed
<1>1. IInv /\ ListenerInv => ListenerArmed
  <2> SUFFICES ASSUME ListenerInv, accepter_pc = "next", server = "up"
               PROVE  Cardinality({s \in sessions : status[s] = WaitToConnect}) = 1
    BY DEF ListenerArmed
  <2>1. PICK s \in Ids : Waiting = {s}
    BY DEF ListenerInv
  <2> QED
    BY <2>1, FS_Singleton DEF Waiting
<1>2. Spec => [](IInv /\ StopInv)
  BY InductiveInvariant, StopInvariant, PTL
<1> QED
  BY <1>1, <1>2, InitListener, NextListener, PTL DEF Spec

\* When the accepter has left its loop no session is left that still waits for
\* a client, for any number of clients: the accept Stop gave back was taken and
\* its session removed.
THEOREM ListenerGone == Spec => []NoListenerLeft
<1>1. IInv /\ ListenerInv => NoListenerLeft
  <2> SUFFICES ASSUME IInv, ListenerInv, accepter_pc \in {"check", "done"},
                      NEW s \in sessions
               PROVE  status[s] # WaitToConnect
    BY DEF NoListenerLeft
  <2>1. s \in Ids /\ Unconnected(s)
    BY DEF IInv, TypeOK, MapTypeOK, SessionInv, Consistent
  <2>2. op[s][SessionEventConnected] = "idle"
    BY <2>1 DEF ListenerInv, NoAcceptLeft
  <2>3. ~AccepterHolds(s, SessionEventConnected)
    BY DEF AccepterHolds, HoldPcs
  <2> QED
    BY <2>1, <2>2, <2>3 DEF Unconnected
<1>2. Spec => [](IInv /\ StopInv)
  BY InductiveInvariant, StopInvariant, PTL
<1> QED
  BY <1>1, <1>2, InitListener, NextListener, PTL DEF Spec
-----------------------------------------------------------------------------
HIDE DEF sessionVars, mapVars, mainVars, accepterVars, workerVars, broadcastVars,
        threadVars

\* The responses session s accepted, as the refinement mapping has them.
Accepted(s) == wire[s] \o message_queue[s]

\* Whether the writer of session s is busy, as the refinement mapping has it.
Busy(s) == status[s] = WaitWriteDone

-----------------------------------------------------------------------------
(***************************************************************************)
(* Sequences.                                                              *)
(***************************************************************************)
\* Appending to the second of two sequences appends to their concatenation.
LEMMA ConcatAppend ==
  ASSUME NEW S, NEW p \in Seq(S), NEW q \in Seq(S), NEW x \in S
  PROVE  p \o Append(q, x) = Append(p \o q, x)
OBVIOUS

\* Moving the head of the second to the end of the first changes nothing.
LEMMA ConcatShift ==
  ASSUME NEW S, NEW p \in Seq(S), NEW q \in Seq(S), q # <<>>
  PROVE  /\ Append(p, Head(q)) \o Tail(q) = p \o q
         /\ Head(q) = (p \o q)[Len(p) + 1]
         /\ Len(p) < Len(p \o q)
<1>1. Head(q) \in S /\ Tail(q) \in Seq(S) /\ Len(q) > 0 /\ Len(Tail(q)) = Len(q) - 1
  OBVIOUS
<1>2. Append(p, Head(q)) \in Seq(S) /\ Len(Append(p, Head(q))) = Len(p) + 1
  BY <1>1
<1>3. Append(p, Head(q)) \o Tail(q) \in Seq(S) /\ p \o q \in Seq(S)
  BY <1>1, <1>2
<1>4. Len(Append(p, Head(q)) \o Tail(q)) = Len(p \o q)
  BY <1>1, <1>2
<1>5. \A k \in 1 .. Len(p \o q) : (Append(p, Head(q)) \o Tail(q))[k] = (p \o q)[k]
  BY <1>1, <1>2
<1> QED
  BY <1>1, <1>3, <1>4, <1>5, SeqEqual

-----------------------------------------------------------------------------
(***************************************************************************)
(* The refinement.                                                         *)
(***************************************************************************)
\* Before Start nothing was accepted.
LEMMA InitFifo == Init => Fifo!Init
<1> SUFFICES ASSUME Init PROVE Fifo!Init
  OBVIOUS
<1>1. <<>> \o <<>> = <<>>
  OBVIOUS
<1>2. \A s \in Ids : ~(status[s] = WaitWriteDone)
  BY DEF Init, SessionInit, WaitToConnect, WaitWriteDone
<1>3. [s \in Ids |-> wire[s] \o message_queue[s]] = [s \in Ids |-> <<>>]
  BY <1>1 DEF Init, SessionInit
<1>4. [s \in Ids |-> status[s] = WaitWriteDone] = [s \in Ids |-> FALSE]
  BY <1>2, Zenon
<1> QED
  BY <1>3, <1>4 DEF Init, SessionInit, Fifo!Init

\* A step that leaves every queue, every stream and every writer as it is.
LEMMA FifoFrame ==
  ASSUME UNCHANGED <<wire, message_queue>>,
         \A s \in Ids : status'[s] = WaitWriteDone <=> status[s] = WaitWriteDone
  PROVE  UNCHANGED Fifo!fifoVars
<1>1. [s \in Ids |-> status'[s] = WaitWriteDone] = [s \in Ids |-> status[s] = WaitWriteDone]
  BY Zenon
<1> QED
  BY <1>1 DEF Fifo!fifoVars

\* What SendResponse does to the responses of its session (lines 142-153): the
\* response is written at once, or waits behind the others, or is dropped.
LEMMA SendAccepts ==
  ASSUME IInv, NEW s \in Ids, NEW m \in Messages, SendResponse(s, m)
  PROVE  /\ \A t \in Ids \ {s} : UNCHANGED <<wire[t], message_queue[t], status[t]>>
         /\ \/ /\ status[s] = WaitToConnect
               /\ UNCHANGED <<wire, message_queue, status>>
            \/ /\ status[s] = ReadyToWrite /\ status'[s] = WaitWriteDone
               /\ wire' = [wire EXCEPT ![s] = Append(@, m)]
               /\ Accepted(s)' = Append(Accepted(s), m)
            \/ /\ status[s] = WaitWriteDone /\ status'[s] = WaitWriteDone
               /\ wire' = wire
               /\ Accepted(s)' = Append(Accepted(s), m)
<1>1. /\ status \in [Ids -> Statuses]
      /\ message_queue \in [Ids -> Seq(Messages)]
      /\ wire \in [Ids -> Seq(Messages)]
  BY DEF IInv, TypeOK, SessionTypeOK
<1>2. \A t \in Ids \ {s} : UNCHANGED <<wire[t], message_queue[t], status[t]>>
  BY <1>1 DEF SendResponse
<1>3. CASE status[s] = WaitToConnect
  BY <1>2, <1>3 DEF SendResponse, WaitToConnect, ReadyToWrite, WaitWriteDone
<1>4. CASE status[s] = ReadyToWrite
  <2>1. message_queue[s] = <<>>
    BY <1>4 DEF IInv, SessionInv, Consistent, Ready
  <2>2. /\ status' = [status EXCEPT ![s] = WaitWriteDone]
        /\ wire' = [wire EXCEPT ![s] = Append(@, m)]
        /\ message_queue' = message_queue
    BY <1>4 DEF SendResponse, WaitToConnect, ReadyToWrite, WaitWriteDone
  <2>3. wire'[s] = Append(wire[s], m) /\ status'[s] = WaitWriteDone
    BY <1>1, <2>2
  <2>4. Append(wire[s], m) \o <<>> = Append(wire[s] \o <<>>, m)
    BY <1>1
  <2> QED
    BY <1>2, <1>4, <2>1, <2>2, <2>3, <2>4 DEF Accepted
<1>5. CASE status[s] = WaitWriteDone
  <2>1. /\ status' = status /\ wire' = wire
        /\ message_queue' = [message_queue EXCEPT ![s] = Append(@, m)]
    BY <1>5 DEF SendResponse, WaitToConnect, ReadyToWrite, WaitWriteDone
  <2>2. message_queue'[s] = Append(message_queue[s], m)
    BY <1>1, <2>1
  <2> QED
    BY <1>1, <1>2, <1>5, <2>1, <2>2, ConcatAppend DEF Accepted
<1> QED
  BY <1>1, <1>3, <1>4, <1>5 DEF Statuses

\* What OnWriteDone does to them (lines 119-128): the oldest one that waits is
\* written, or the writer goes idle with nothing left to write.
LEMMA WriteDoneAccepts ==
  ASSUME IInv, NEW s \in Ids, OnWriteDone(s)
  PROVE  /\ \A t \in Ids \ {s} : UNCHANGED <<wire[t], message_queue[t], status[t]>>
         /\ Accepted(s)' = Accepted(s)
         /\ \/ /\ status'[s] = WaitWriteDone
               /\ Len(wire[s]) < Len(Accepted(s))
               /\ wire' = [wire EXCEPT ![s] = Append(@, Accepted(s)[Len(wire[s]) + 1])]
            \/ /\ status'[s] = ReadyToWrite
               /\ wire' = wire
               /\ Accepted(s) = wire[s]
<1>1. /\ status \in [Ids -> Statuses]
      /\ message_queue \in [Ids -> Seq(Messages)]
      /\ wire \in [Ids -> Seq(Messages)]
  BY DEF IInv, TypeOK, SessionTypeOK
<1>2. \A t \in Ids \ {s} : UNCHANGED <<wire[t], message_queue[t], status[t]>>
  BY <1>1 DEF OnWriteDone
<1>3. CASE message_queue[s] # <<>>
  <2>1. /\ status' = [status EXCEPT ![s] = WaitWriteDone]
        /\ wire' = [wire EXCEPT ![s] = Append(@, Head(message_queue[s]))]
        /\ message_queue' = [message_queue EXCEPT ![s] = Tail(@)]
    BY <1>3 DEF OnWriteDone
  <2>2. /\ wire'[s] = Append(wire[s], Head(message_queue[s]))
        /\ message_queue'[s] = Tail(message_queue[s])
        /\ status'[s] = WaitWriteDone
    BY <1>1, <2>1
  <2>3. /\ Append(wire[s], Head(message_queue[s])) \o Tail(message_queue[s])
             = wire[s] \o message_queue[s]
        /\ Head(message_queue[s]) = (wire[s] \o message_queue[s])[Len(wire[s]) + 1]
        /\ Len(wire[s]) < Len(wire[s] \o message_queue[s])
    BY <1>1, <1>3, ConcatShift
  <2> QED
    BY <1>2, <2>1, <2>2, <2>3 DEF Accepted
<1>4. CASE message_queue[s] = <<>>
  <2>1. /\ status' = [status EXCEPT ![s] = ReadyToWrite]
        /\ wire' = wire /\ message_queue' = message_queue
    BY <1>4 DEF OnWriteDone
  <2>2. wire[s] \o message_queue[s] = wire[s]
    BY <1>1, <1>4
  <2> QED
    BY <1>1, <1>2, <2>1, <2>2 DEF Accepted
<1> QED
  BY <1>3, <1>4

\* The mapped variables, changed for one session only.
LEMMA MappedUpdate ==
  ASSUME NEW s \in Ids,
         \A t \in Ids \ {s} : UNCHANGED <<wire[t], message_queue[t], status[t]>>
  PROVE  /\ [t \in Ids |-> wire'[t] \o message_queue'[t]]
              = [[t \in Ids |-> wire[t] \o message_queue[t]] EXCEPT ![s] = Accepted(s)']
         /\ [t \in Ids |-> status'[t] = WaitWriteDone]
              = [[t \in Ids |-> status[t] = WaitWriteDone] EXCEPT ![s] = Busy(s)']
<1>1. [t \in Ids |-> wire'[t] \o message_queue'[t]]
        = [[t \in Ids |-> wire[t] \o message_queue[t]] EXCEPT ![s] = Accepted(s)']
  BY DEF Accepted
<1>2. [t \in Ids |-> status'[t] = WaitWriteDone]
        = [[t \in Ids |-> status[t] = WaitWriteDone] EXCEPT ![s] = Busy(s)']
  BY Zenon DEF Busy
<1> QED
  BY <1>1, <1>2

\* Sending a response is accepting it, or nothing.
LEMMA SendFifo ==
  ASSUME IInv, NEW s \in Ids, NEW m \in Messages, SendResponse(s, m)
  PROVE  Fifo!Next \/ UNCHANGED Fifo!fifoVars
<1> DEFINE accepted == [t \in Ids |-> wire[t] \o message_queue[t]]
           busy == [t \in Ids |-> status[t] = WaitWriteDone]
<1>1. /\ accepted' = [accepted EXCEPT ![s] = Accepted(s)']
      /\ busy' = [busy EXCEPT ![s] = Busy(s)']
  BY SendAccepts, MappedUpdate
<1>2. accepted[s] = Accepted(s) /\ (busy[s] <=> status[s] = WaitWriteDone)
  BY Zenon DEF Accepted
<1>3. CASE status[s] = WaitToConnect
  BY <1>3, SendAccepts, FifoFrame DEF WaitToConnect, ReadyToWrite, WaitWriteDone
<1>4. CASE status[s] = ReadyToWrite
  <2>1. /\ status'[s] = WaitWriteDone
        /\ wire' = [wire EXCEPT ![s] = Append(@, m)]
        /\ Accepted(s)' = Append(Accepted(s), m)
    BY <1>4, SendAccepts DEF WaitToConnect, ReadyToWrite, WaitWriteDone
  <2>2. accepted' = [accepted EXCEPT ![s] = Append(@, m)]
    BY <1>1, <1>2, <2>1
  <2>3. busy' = [busy EXCEPT ![s] = TRUE]
    BY <1>1, <2>1, Zenon DEF Busy
  <2>4. ~busy[s]
    BY <1>2, <1>4 DEF ReadyToWrite, WaitWriteDone
  <2>5. Fifo!AcceptAndWrite(s, m)
    BY <2>1, <2>2, <2>3, <2>4 DEF Fifo!AcceptAndWrite
  <2> QED
    BY <2>5 DEF Fifo!Next
<1>5. CASE status[s] = WaitWriteDone
  <2>1. /\ status'[s] = WaitWriteDone
        /\ wire' = wire
        /\ Accepted(s)' = Append(Accepted(s), m)
    BY <1>5, SendAccepts DEF WaitToConnect, ReadyToWrite, WaitWriteDone
  <2>2. accepted' = [accepted EXCEPT ![s] = Append(@, m)]
    BY <1>1, <1>2, <2>1
  <2>3. busy' = busy
    BY <1>1, <1>5, <2>1, Zenon DEF Busy
  <2>4. busy[s]
    BY <1>2, <1>5
  <2>5. Fifo!Accept(s, m)
    BY <2>1, <2>2, <2>3, <2>4 DEF Fifo!Accept
  <2> QED
    BY <2>5 DEF Fifo!Next
<1> QED
  BY <1>3, <1>4, <1>5 DEF IInv, TypeOK, SessionTypeOK, Statuses

\* The end of a Write makes the writer go on, or idle.
LEMMA WriteDoneFifo ==
  ASSUME IInv, NEW s \in Ids, status[s] = WaitWriteDone, OnWriteDone(s)
  PROVE  Fifo!Next
<1> DEFINE accepted == [t \in Ids |-> wire[t] \o message_queue[t]]
           busy == [t \in Ids |-> status[t] = WaitWriteDone]
<1>1. /\ accepted' = [accepted EXCEPT ![s] = Accepted(s)']
      /\ busy' = [busy EXCEPT ![s] = Busy(s)']
  BY WriteDoneAccepts, MappedUpdate
<1>2. accepted[s] = Accepted(s) /\ busy[s]
  BY Zenon DEF Accepted
<1>3. accepted' = accepted
  <2>1. accepted' = [accepted EXCEPT ![s] = accepted[s]]
    BY <1>1, <1>2, WriteDoneAccepts
  <2> QED
    BY <2>1
<1>4. CASE status'[s] = WaitWriteDone
  <2>1. /\ Len(wire[s]) < Len(Accepted(s))
        /\ wire' = [wire EXCEPT ![s] = Append(@, Accepted(s)[Len(wire[s]) + 1])]
    BY <1>4, WriteDoneAccepts DEF ReadyToWrite, WaitWriteDone
  <2>2. busy' = busy
    BY <1>1, <1>2, <1>4, Zenon DEF Busy
  <2>3. Fifo!WriteNext(s)
    BY <1>2, <1>3, <2>1, <2>2 DEF Fifo!WriteNext
  <2> QED
    BY <2>3 DEF Fifo!Next
<1>5. CASE status'[s] # WaitWriteDone
  <2>1. wire' = wire /\ Accepted(s) = wire[s]
    BY <1>5, WriteDoneAccepts
  <2>2. busy' = [busy EXCEPT ![s] = FALSE]
    BY <1>1, <1>5, Zenon DEF Busy
  <2>3. Fifo!GoIdle(s)
    BY <1>2, <1>3, <2>1, <2>2 DEF Fifo!GoIdle
  <2> QED
    BY <2>3 DEF Fifo!Next
<1> QED
  BY <1>4, <1>5

USE DEF sessionVars, mapVars, mainVars, accepterVars, workerVars, broadcastVars,
        threadVars

\* Main, Stop, the clients and gRPC leave queues and streams alone.
LEMMA OthersQuiet ==
  ASSUME \/ MainStep \/ StopEnter \/ StopStep
         \/ \E s \in Ids : ClientStep(s) \/ TransportStep(s)
         \/ Terminated \/ UNCHANGED vars
  PROVE  UNCHANGED <<wire, message_queue, status>>
<1>1. CASE MainStep \/ StopEnter \/ StopStep
  BY <1>1 DEF MainStep, StartEnter, StartBuild, StartThreads, StartReturn, StopEnter,
     StopStep, StopLock, StopCancel, TryCancel, StopUnlock, StopShutdown, StopServerDown,
     StopShutConn, StopShutReadWrite, ShutQueue
<1>2. CASE \E s \in Ids : ClientStep(s) \/ TransportStep(s)
  BY <1>2 DEF ClientStep, TransportStep, ClientConnect, ClientRequest, ClientHalfClose,
     ClientLeave, ReadFails, WriteSucceeds, WriteFails, ConnectFails
<1>3. CASE Terminated \/ UNCHANGED vars
  BY <1>3 DEF Terminated, vars
<1> QED
  BY <1>1, <1>2, <1>3

\* So do the steps of the three threads that process no event.
LEMMA ThreadsQuiet ==
  ASSUME \/ AccepterStep /\ ~AccepterProcess
         \/ WorkerStep /\ ~WorkerProcess
         \/ BroadcastStep /\ ~(\E s \in Ids : BroadcastSend(s))
  PROVE  UNCHANGED <<wire, message_queue, status>>
<1>1. CASE AccepterStep /\ ~AccepterProcess
  BY <1>1 DEF AccepterStep, AccepterCheck, AccepterAdd, AccepterNext, AccepterDrained,
     AccepterLookup, AccepterRemove, AddNewSession, RemoveSession, Destroy
<1>2. CASE WorkerStep /\ ~WorkerProcess
  BY <1>2 DEF WorkerStep, WorkerCheck, WorkerNext, WorkerNextFreed, WorkerDrained,
     WorkerLookup, WorkerRemove, RemoveSession, Destroy
<1>3. CASE BroadcastStep /\ ~(\E s \in Ids : BroadcastSend(s))
  BY <1>3 DEF BroadcastStep, BroadcastCheck, BroadcastLock, BroadcastSleep, BroadcastWake
<1> QED
  BY <1>1, <1>2, <1>3

\* The accepter connects a session that has written nothing and waits for nothing.
LEMMA AccepterConnects ==
  ASSUME IInv, AccepterProcess
  PROVE  \E s \in Ids :
           /\ s \in sessions /\ status[s] = WaitToConnect
           /\ UNCHANGED <<wire, message_queue, request, mapVars, workerVars>>
           /\ status' = [status EXCEPT ![s] = ReadyToWrite]
           /\ StartOps(s, {SessionEventReadDone}, "readwrite")
<1>1. accepter_pc = "process" /\ accepter_pc \in HoldPcs
  BY DEF AccepterProcess, HoldPcs
<1>2. PICK s \in Ids : /\ TagId(accepter_got.tag) = s
                       /\ TagEvent(accepter_got.tag) = SessionEventConnected
                       /\ AccepterHolds(s, SessionEventConnected)
  BY <1>1, AccepterTag
<1>3. s \in sessions /\ status[s] = WaitToConnect
  BY <1>1, <1>2 DEF IInv, AccepterInv, SessionInv, Consistent, Connected
<1>4. OnConnected(s) /\ UNCHANGED <<request, mapVars, workerVars>>
  BY <1>2 DEF AccepterProcess, AccepterOnly, ProcessEvent, SessionEventConnected,
     SessionEventReadDone, SessionEventWriteDone, SessionEventFinished
<1> QED
  BY <1>3, <1>4 DEF OnConnected

\* The worker handles a Read or a Write of a session that is in the map.
LEMMA WorkerHandles ==
  ASSUME IInv, WorkerProcess
  PROVE  \E s \in Ids :
           /\ s \in sessions
           /\ UNCHANGED <<request, mapVars>>
           /\ worker_pc' = "next"
           /\ \/ WorkerHolds(s, SessionEventReadDone) /\ OnReadDone(s)
              \/ /\ WorkerHolds(s, SessionEventWriteDone) /\ OnWriteDone(s)
                 /\ status[s] = WaitWriteDone
<1>1. worker_pc = "process" /\ worker_pc \in HoldPcs
  BY DEF WorkerProcess, HoldPcs
<1>2. PICK s \in Ids, e \in WorkerEvents :
        /\ TagId(worker_got.tag) = s
        /\ TagEvent(worker_got.tag) = e
        /\ WorkerHolds(s, e)
  BY <1>1, WorkerTag
<1>3. s \in sessions
  BY <1>1, <1>2 DEF IInv, WorkerInv
<1>4. worker_pc' = "next" /\ UNCHANGED <<request, mapVars>>
  BY DEF WorkerProcess, ProcessEvent
<1>5. CASE e = SessionEventReadDone
  <2>1. OnReadDone(s)
    BY <1>2, <1>5 DEF WorkerProcess, ProcessEvent, SessionEventConnected,
       SessionEventReadDone, SessionEventWriteDone, SessionEventFinished
  <2> QED
    BY <1>2, <1>3, <1>4, <1>5, <2>1
<1>6. CASE e = SessionEventWriteDone
  <2>1. OnWriteDone(s)
    BY <1>2, <1>6 DEF WorkerProcess, ProcessEvent, SessionEventConnected,
       SessionEventReadDone, SessionEventWriteDone, SessionEventFinished
  <2>2. status[s] = WaitWriteDone
    BY <1>2, <1>6 DEF IInv, TypeOK, SessionTypeOK, Statuses, SessionInv, Consistent,
       Unconnected, Ready
  <2> QED
    BY <1>2, <1>3, <1>4, <1>6, <2>1, <2>2
<1> QED
  BY <1>5, <1>6 DEF WorkerEvents

\* Every step of the server is a step of the abstract queue, or none.
LEMMA NextFifo == IInv /\ [Next]_vars => [Fifo!Next]_(Fifo!fifoVars)
<1> SUFFICES ASSUME IInv, [Next]_vars PROVE Fifo!Next \/ UNCHANGED Fifo!fifoVars
  OBVIOUS
<1>1. CASE UNCHANGED <<wire, message_queue, status>>
  BY <1>1, FifoFrame
<1>2. CASE AccepterProcess
  <2>1. PICK s \in Ids : /\ status[s] = WaitToConnect
                         /\ UNCHANGED <<wire, message_queue>>
                         /\ status' = [status EXCEPT ![s] = ReadyToWrite]
    BY <1>2, AccepterConnects
  <2>2. \A t \in Ids : status'[t] = WaitWriteDone <=> status[t] = WaitWriteDone
    BY <2>1 DEF IInv, TypeOK, SessionTypeOK, WaitToConnect, ReadyToWrite, WaitWriteDone
  <2> QED
    BY <2>1, <2>2, FifoFrame
<1>3. CASE WorkerProcess
  <2>1. PICK s \in Ids : \/ OnReadDone(s)
                         \/ status[s] = WaitWriteDone /\ OnWriteDone(s)
    BY <1>3, WorkerHandles
  <2>2. request[s] \in Messages
    BY DEF IInv, TypeOK, SessionTypeOK, Messages
  <2> QED
    BY <2>1, <2>2, SendFifo, WriteDoneFifo DEF OnReadDone
<1>4. ASSUME NEW s \in Ids, BroadcastSend(s)
      PROVE  Fifo!Next \/ UNCHANGED Fifo!fifoVars
  <2>1. Broadcast \in Messages
    BY SessionAssumption DEF Broadcast, Messages
  <2> QED
    BY <1>4, <2>1, SendFifo DEF BroadcastSend
<1> QED
  BY <1>1, <1>2, <1>3, <1>4, OthersQuiet, ThreadsQuiet DEF Next

\* The sessions of the server implement the abstract response queue: responses
\* leave in the order of acceptance, one at a time, and no writer idles while a
\* response waits, for any number of sessions, requests and broadcasts.
THEOREM ServerImplementsFifo == Spec => ImplementsFifo
  BY InitFifo, NextFifo, InductiveInvariant, PTL DEF Spec, ImplementsFifo, Fifo!Spec

-----------------------------------------------------------------------------
(***************************************************************************)
(* The order of the replies.                                               *)
(***************************************************************************)
\* Until a session is connected nothing was read and nothing was written.
Fresh == \A s \in Ids : status[s] = WaitToConnect => wire[s] = <<>> /\ request[s] = 0

\* Only a completion that succeeded is processed.
ProcessesSuccess == worker_pc = "process" => worker_got.ok

\* A Read that succeeded has brought a request.
Counted == \A s \in Ids : Unanswered(s) => request[s] > 0

ReplyInv == RepliesInOrder /\ Fresh /\ ProcessesSuccess /\ Counted

\* An empty sequence answers no request.
LEMMA NoReplies == InRequestOrder(<<>>, 0)
BY DEF InRequestOrder

\* A broadcast may come between any two replies.
LEMMA OrderBroadcast ==
  ASSUME NEW q \in Seq(Messages), NEW n \in Nat, InRequestOrder(q, n)
  PROVE  InRequestOrder(Append(q, Broadcast), n)
<1> DEFINE r == Append(q, Broadcast)
<1>1. Broadcast \in Messages
  BY SessionAssumption DEF Broadcast, Messages
<1>2. /\ r \in Seq(Messages) /\ Len(r) = Len(q) + 1 /\ Len(q) \in Nat
      /\ \A k \in 1 .. Len(q) : r[k] = q[k]
      /\ r[Len(q) + 1] = Broadcast
  BY <1>1
<1> HIDE DEF r
<1>3. {r[k] : k \in 1 .. Len(r)} \ {Broadcast} = {q[k] : k \in 1 .. Len(q)} \ {Broadcast}
  BY <1>2
<1>4. \A j, k \in 1 .. Len(r) : j < k /\ r[k] # Broadcast => r[j] < r[k]
  BY <1>2 DEF InRequestOrder
<1> QED
  BY <1>3, <1>4 DEF InRequestOrder, r

\* The next reply continues the order.
LEMMA OrderReply ==
  ASSUME NEW q \in Seq(Messages), NEW n \in Nat, InRequestOrder(q, n), n + 1 \in Messages
  PROVE  InRequestOrder(Append(q, n + 1), n + 1)
<1> DEFINE r == Append(q, n + 1)
<1>1. /\ r \in Seq(Messages) /\ Len(r) = Len(q) + 1 /\ Len(q) \in Nat
      /\ \A k \in 1 .. Len(q) : r[k] = q[k]
      /\ r[Len(q) + 1] = n + 1
  OBVIOUS
<1>2. n + 1 # Broadcast
  BY DEF Broadcast
<1>3. \A k \in 1 .. Len(q) : q[k] \in Nat /\ q[k] < n + 1
  <2> SUFFICES ASSUME NEW k \in 1 .. Len(q) PROVE q[k] \in Nat /\ q[k] < n + 1
    OBVIOUS
  <2>1. q[k] \in Nat
    BY SessionAssumption DEF Messages
  <2>2. q[k] = Broadcast \/ q[k] \in 1 .. n
    BY DEF InRequestOrder
  <2> QED
    BY <2>1, <2>2 DEF Broadcast
<1> HIDE DEF r
<1>4. {r[k] : k \in 1 .. Len(r)} = {q[k] : k \in 1 .. Len(q)} \cup {n + 1}
  BY <1>1
<1>5. {r[k] : k \in 1 .. Len(r)} \ {Broadcast} = 1 .. n + 1
  <2>1. 1 .. n + 1 = (1 .. n) \cup {n + 1}
    OBVIOUS
  <2>2. {q[k] : k \in 1 .. Len(q)} \ {Broadcast} = 1 .. n
    BY DEF InRequestOrder
  <2> QED
    BY <1>2, <1>4, <2>1, <2>2
<1>6. \A j, k \in 1 .. Len(r) : j < k /\ r[k] # Broadcast => r[j] < r[k]
  BY <1>1, <1>3 DEF InRequestOrder
<1> QED
  BY <1>5, <1>6 DEF InRequestOrder, r

\* Sessions of which no response, no request and no Read changes stay in order.
LEMMA ReplyFrame ==
  ASSUME ReplyInv,
         \A s \in sessions' : /\ s \in sessions
                              /\ Accepted(s)' = Accepted(s)
                              /\ request'[s] = request[s]
                              /\ Unanswered(s)' <=> Unanswered(s)
  PROVE  RepliesInOrder'
<1> SUFFICES ASSUME NEW s \in sessions'
             PROVE  InRequestOrder(Accepted(s)', Handled(s)')
  BY DEF RepliesInOrder, Accepted
<1>1. Handled(s)' = Handled(s)
  BY DEF Handled
<1>2. InRequestOrder(Accepted(s), Handled(s))
  BY DEF ReplyInv, RepliesInOrder, Accepted
<1> QED
  BY <1>1, <1>2

\* The number of answered requests is a number.
LEMMA HandledNat ==
  ASSUME IInv, ReplyInv, NEW s \in sessions
  PROVE  /\ s \in Ids
         /\ Accepted(s) \in Seq(Messages)
         /\ Handled(s) \in Nat
         /\ InRequestOrder(Accepted(s), Handled(s))
<1>1. s \in Ids
  BY DEF IInv, TypeOK, MapTypeOK
<1>2. /\ wire[s] \in Seq(Messages) /\ message_queue[s] \in Seq(Messages)
      /\ request[s] \in 0 .. MaxRequests
  BY <1>1 DEF IInv, TypeOK, SessionTypeOK
<1>3. InRequestOrder(Accepted(s), Handled(s))
  BY DEF ReplyInv, RepliesInOrder, Accepted
<1>4. Handled(s) \in Nat
  BY <1>1, <1>2 DEF Handled, ReplyInv, Counted
<1> QED
  BY <1>1, <1>2, <1>3, <1>4 DEF Accepted

\* A step that reads nothing, sends nothing and adds no session.
LEMMA ReplyQuiet ==
  ASSUME IInv, ReplyInv, UNCHANGED <<wire, message_queue, request, workerVars>>,
         \A s \in sessions' : s \in sessions,
         \A s \in Ids : /\ op'[s][SessionEventReadDone] = "ok"
                            <=> op[s][SessionEventReadDone] = "ok"
                        /\ status'[s] = WaitToConnect => status[s] = WaitToConnect
  PROVE  ReplyInv'
<1>1. \A s \in Ids : Unanswered(s)' <=> Unanswered(s)
  BY DEF Unanswered, WorkerHolds
<1>2. \A s \in sessions' : s \in Ids
  BY DEF IInv, TypeOK, MapTypeOK
<1>3. RepliesInOrder'
  BY <1>1, <1>2, ReplyFrame DEF Accepted
<1>4. Fresh' /\ ProcessesSuccess' /\ Counted'
  BY <1>1 DEF ReplyInv, Fresh, ProcessesSuccess, Counted
<1> QED
  BY <1>3, <1>4 DEF ReplyInv

\* A new session has read nothing and has nothing to write.
LEMMA AddReply ==
  ASSUME IInv, ReplyInv, AccepterAdd
  PROVE  ReplyInv'
<1>1. PICK s \in Ids : s = session_id_allocator
  BY SessionAssumption DEF AccepterAdd, AddNewSession, Ids, IInv, TypeOK, MapTypeOK
<1>2. /\ UNCHANGED <<wire, message_queue, request, status, workerVars>>
      /\ sessions' = sessions \cup {s}
      /\ StartOps(s, {SessionEventConnected}, "conn")
  BY <1>1 DEF AccepterAdd, AddNewSession, AccepterOnly
<1>3. \A t \in Ids : op'[t][SessionEventReadDone] = op[t][SessionEventReadDone]
  BY <1>2 DEF StartOps, IInv, TypeOK, SessionTypeOK, Events, SessionEventConnected,
     SessionEventReadDone
<1>4. \A t \in Ids : Unanswered(t)' <=> Unanswered(t)
  BY <1>2, <1>3 DEF Unanswered, WorkerHolds
<1>5. status[s] = WaitToConnect
  BY <1>1 DEF IInv, SessionInv, Consistent, Unused, Ids
<1>6. wire[s] = <<>> /\ message_queue[s] = <<>> /\ request[s] = 0 /\ ~Unanswered(s)
  BY <1>5 DEF ReplyInv, Fresh, IInv, SessionInv, Consistent, Unconnected, Unanswered
<1>7. Accepted(s)' = <<>> /\ Handled(s)' = 0
  BY <1>2, <1>4, <1>6 DEF Accepted, Handled
<1>8. RepliesInOrder'
  <2> SUFFICES ASSUME NEW t \in sessions'
               PROVE  InRequestOrder(Accepted(t)', Handled(t)')
    BY DEF RepliesInOrder, Accepted
  <2>1. CASE t = s
    BY <1>7, <2>1, NoReplies
  <2>2. CASE t # s
    <3>1. t \in Ids /\ InRequestOrder(Accepted(t), Handled(t))
      BY <1>2, <2>2, HandledNat
    <3>2. Accepted(t)' = Accepted(t) /\ Handled(t)' = Handled(t)
      BY <1>2, <1>4, <3>1 DEF Accepted, Handled
    <3> QED
      BY <3>1, <3>2
  <2> QED
    BY <2>1, <2>2
<1>9. Fresh' /\ ProcessesSuccess' /\ Counted'
  BY <1>2, <1>4 DEF ReplyInv, Fresh, ProcessesSuccess, Counted
<1> QED
  BY <1>8, <1>9 DEF ReplyInv

\* The accepter: of its steps only AddNewSession adds a session, and the first
\* Read of a session brings no request yet.
LEMMA AccepterReply ==
  ASSUME IInv, ReplyInv, AccepterStep
  PROVE  ReplyInv'
<1>1. CASE AccepterAdd
  BY <1>1, AddReply
<1>2. CASE AccepterProcess
  <2>1. PICK s \in Ids :
          /\ UNCHANGED <<wire, message_queue, request, sessions, workerVars>>
          /\ status[s] = WaitToConnect
          /\ status' = [status EXCEPT ![s] = ReadyToWrite]
          /\ StartOps(s, {SessionEventReadDone}, "readwrite")
    BY <1>2, AccepterConnects
  <2>2. op[s][SessionEventReadDone] = "idle"
    BY <2>1 DEF IInv, SessionInv, Consistent, Unconnected
  <2>3. \A t \in Ids : /\ op'[t][SessionEventReadDone] = "ok"
                            <=> op[t][SessionEventReadDone] = "ok"
                       /\ status'[t] = WaitToConnect => status[t] = WaitToConnect
    BY <2>1, <2>2 DEF StartOps, IInv, TypeOK, SessionTypeOK, Events, WaitToConnect,
       ReadyToWrite
  <2> HIDE DEF workerVars
  <2> QED
    BY <2>1, <2>3, ReplyQuiet
<1>3. ASSUME NEW s \in Ids, AccepterNext(s) PROVE ReplyInv'
  <2>1. /\ UNCHANGED <<wire, message_queue, request, sessions, status, workerVars>>
        /\ op' = [op EXCEPT ![s][SessionEventConnected] = "idle"]
    BY <1>3 DEF AccepterNext, AccepterOnly
  <2>2. \A t \in Ids : op'[t][SessionEventReadDone] = op[t][SessionEventReadDone]
    BY <2>1 DEF IInv, TypeOK, SessionTypeOK, Events, SessionEventConnected,
       SessionEventReadDone
  <2> HIDE DEF workerVars
  <2> QED
    BY <2>1, <2>2, ReplyQuiet
<1>4. CASE AccepterCheck \/ AccepterDrained \/ AccepterLookup \/ AccepterRemove
  <2>1. /\ UNCHANGED <<wire, message_queue, request, status, op, workerVars>>
        /\ \A s \in sessions' : s \in sessions
    BY <1>4 DEF AccepterCheck, AccepterDrained, AccepterLookup, AccepterRemove,
       AccepterOnly, RemoveSession, Destroy
  <2> HIDE DEF workerVars
  <2> QED
    BY <2>1, ReplyQuiet
<1> QED
  BY <1>1, <1>2, <1>3, <1>4 DEF AccepterStep

\* A client's request is counted when it is read and answered later; nothing
\* else a client or gRPC does brings or answers one.
LEMMA OutsideReply ==
  ASSUME IInv, ReplyInv, NEW s \in Ids, ClientStep(s) \/ TransportStep(s)
  PROVE  ReplyInv'
<1>1. UNCHANGED <<wire, message_queue, status, sessions, workerVars>>
  BY DEF ClientStep, TransportStep, ClientConnect, ClientRequest, ClientHalfClose,
     ClientLeave, ReadFails, WriteSucceeds, WriteFails, ConnectFails, Elsewhere
<1>2. CASE ClientRequest(s)
  <2>1. /\ op[s][SessionEventReadDone] = "pending"
        /\ op' = [op EXCEPT ![s][SessionEventReadDone] = "ok"]
        /\ request' = [request EXCEPT ![s] = @ + 1]
    BY <1>2 DEF ClientRequest, CompleteOp
  <2>2. /\ op \in [Ids -> [Events -> OpStates]] /\ request \in [Ids -> 0 .. MaxRequests]
        /\ SessionEventReadDone \in Events
    BY DEF IInv, TypeOK, SessionTypeOK, Events
  <2>3. /\ op'[s][SessionEventReadDone] = "ok" /\ request'[s] = request[s] + 1
        /\ \A t \in Ids \ {s} : op'[t] = op[t] /\ request'[t] = request[t]
    BY <2>1, <2>2
  <2>4. ~Unanswered(s) /\ Unanswered(s)'
    BY <2>1, <2>3 DEF Unanswered, IInv, SessionInv, Consistent, TagInOnePlace
  <2>5. \A t \in Ids \ {s} : Unanswered(t)' <=> Unanswered(t)
    BY <1>1, <2>3 DEF Unanswered, WorkerHolds
  <2>6. \A t \in Ids : Handled(t)' = Handled(t)
    BY <2>2, <2>3, <2>4, <2>5 DEF Handled
  <2>7. RepliesInOrder'
    <3> SUFFICES ASSUME NEW t \in sessions'
                 PROVE  InRequestOrder(Accepted(t)', Handled(t)')
      BY DEF RepliesInOrder, Accepted
    <3>1. t \in Ids /\ InRequestOrder(Accepted(t), Handled(t))
      BY <1>1, HandledNat
    <3>2. Accepted(t)' = Accepted(t)
      BY <1>1 DEF Accepted
    <3> QED
      BY <2>6, <3>1, <3>2
  <2>8. status[s] # WaitToConnect
    BY <2>1 DEF IInv, SessionInv, Consistent, Unconnected
  <2>9. Fresh' /\ ProcessesSuccess'
    BY <1>1, <2>3, <2>8 DEF ReplyInv, Fresh, ProcessesSuccess
  <2>10. Counted'
    BY <2>2, <2>3, <2>5 DEF ReplyInv, Counted
  <2> QED
    BY <2>7, <2>9, <2>10 DEF ReplyInv
<1>3. CASE ~ClientRequest(s)
  <2>1. /\ request' = request
        /\ \/ UNCHANGED op
           \/ \E e \in Events, r \in {"ok", "fail"} :
                CompleteOp(s, e, r) /\ (e = SessionEventReadDone => r = "fail")
    BY <1>3 DEF ClientStep, TransportStep, ClientConnect, ClientHalfClose,
       ClientLeave, ReadFails, WriteSucceeds, WriteFails, ConnectFails, Events,
       SessionEventConnected, SessionEventReadDone, SessionEventWriteDone
  <2>2. \A t \in Ids : op'[t][SessionEventReadDone] = "ok"
                         <=> op[t][SessionEventReadDone] = "ok"
    <3>1. ASSUME NEW e \in Events, NEW r \in {"ok", "fail"}, CompleteOp(s, e, r),
                 e = SessionEventReadDone => r = "fail", NEW t \in Ids
          PROVE  op'[t][SessionEventReadDone] = "ok" <=> op[t][SessionEventReadDone] = "ok"
      BY <3>1 DEF CompleteOp, Events, IInv, TypeOK, SessionTypeOK
    <3> QED
      BY <2>1, <3>1
  <2> HIDE DEF workerVars
  <2> QED
    BY <1>1, <2>1, <2>2, ReplyQuiet
<1> QED
  BY <1>2, <1>3

\* A broadcast comes behind the replies that were accepted before it.
LEMMA BroadcastReply ==
  ASSUME IInv, ReplyInv, BroadcastStep
  PROVE  ReplyInv'
<1>1. ASSUME NEW s \in Ids, BroadcastSend(s) PROVE ReplyInv'
  <2>1. /\ UNCHANGED <<request, sessions, workerVars>>
        /\ SendResponse(s, Broadcast) /\ StartOps(s, WritesNow(s), "readwrite")
    BY <1>1 DEF BroadcastSend, BroadcastOnly
  <2>2. Broadcast \in Messages
    BY SessionAssumption DEF Broadcast, Messages
  <2>3. \A t \in Ids : op'[t][SessionEventReadDone] = op[t][SessionEventReadDone]
    BY <2>1 DEF StartOps, WritesNow, IInv, TypeOK, SessionTypeOK, Events,
       SessionEventReadDone, SessionEventWriteDone
  <2>4. \A t \in Ids : Unanswered(t)' <=> Unanswered(t)
    BY <2>1, <2>3 DEF Unanswered, WorkerHolds
  <2>5. \A t \in Ids : Handled(t)' = Handled(t)
    BY <2>1, <2>4 DEF Handled
  <2>6. /\ \A t \in Ids \ {s} : UNCHANGED <<wire[t], message_queue[t], status[t]>>
        /\ Accepted(s)' \in {Accepted(s), Append(Accepted(s), Broadcast)}
        /\ status'[s] = WaitToConnect => status[s] = WaitToConnect /\ wire' = wire
    BY <2>1, <2>2, SendAccepts DEF Accepted, WaitToConnect, ReadyToWrite, WaitWriteDone
  <2>7. RepliesInOrder'
    <3> SUFFICES ASSUME NEW t \in sessions
                 PROVE  InRequestOrder(Accepted(t)', Handled(t)')
      BY <2>1 DEF RepliesInOrder, Accepted
    <3>1. /\ t \in Ids /\ Accepted(t) \in Seq(Messages) /\ Handled(t) \in Nat
          /\ InRequestOrder(Accepted(t), Handled(t))
      BY HandledNat
    <3>2. CASE t = s
      BY <2>5, <2>6, <3>1, <3>2, OrderBroadcast
    <3>3. CASE t # s
      <4>1. Accepted(t)' = Accepted(t)
        BY <2>6, <3>1, <3>3 DEF Accepted
      <4> QED
        BY <2>5, <3>1, <4>1
    <3> QED
      BY <3>2, <3>3
  <2>8. Fresh' /\ ProcessesSuccess' /\ Counted'
    BY <2>1, <2>4, <2>6 DEF ReplyInv, Fresh, ProcessesSuccess, Counted
  <2> QED
    BY <2>7, <2>8 DEF ReplyInv
<1>2. CASE BroadcastCheck \/ BroadcastLock \/ BroadcastSleep \/ BroadcastWake
  <2>1. UNCHANGED <<wire, message_queue, request, sessions, status, op, workerVars>>
    BY <1>2 DEF BroadcastCheck, BroadcastLock, BroadcastSleep, BroadcastWake, BroadcastOnly
  <2> HIDE DEF workerVars
  <2> QED
    BY <2>1, ReplyQuiet
<1> QED
  BY <1>1, <1>2 DEF BroadcastStep

\* Processing a Read answers the request that was read last, the next in order.
LEMMA AnswerReply ==
  ASSUME IInv, ReplyInv, WorkerProcess, NEW s \in sessions,
         WorkerHolds(s, SessionEventReadDone), OnReadDone(s),
         UNCHANGED <<request, mapVars>>, worker_pc' = "next"
  PROVE  ReplyInv'
<1>1. /\ s \in Ids /\ Accepted(s) \in Seq(Messages) /\ Handled(s) \in Nat
      /\ InRequestOrder(Accepted(s), Handled(s))
  BY HandledNat
<1>2. worker_pc = "process" /\ worker_got.ok /\ Unanswered(s)
  BY DEF WorkerProcess, ReplyInv, ProcessesSuccess, Unanswered
<1>3. \A t \in Ids \ {s} : ~WorkerHolds(t, SessionEventReadDone)
  BY <1>1, TagInjective DEF WorkerHolds, SessionEventReadDone
<1>4. \A t \in Ids : ~WorkerHolds(t, SessionEventReadDone)'
  BY DEF WorkerHolds, HoldPcs
<1>5. request[s] \in Messages /\ request[s] \in Nat /\ Handled(s) = request[s] - 1
  BY <1>1, <1>2 DEF IInv, TypeOK, SessionTypeOK, Messages, Handled
<1>6. /\ SendResponse(s, request[s])
      /\ StartOps(s, WritesNow(s) \cup {SessionEventReadDone}, "readwrite")
  BY DEF OnReadDone
<1>7. /\ \A t \in Ids \ {s} : op'[t] = op[t]
      /\ op'[s][SessionEventReadDone] = "pending"
  BY <1>1, <1>6 DEF StartOps, IInv, TypeOK, SessionTypeOK, Events
<1>8. ~Unanswered(s)' /\ \A t \in Ids \ {s} : Unanswered(t)' <=> Unanswered(t)
  BY <1>1, <1>3, <1>4, <1>7 DEF Unanswered
<1>9. status[s] # WaitToConnect
  BY <1>1 DEF IInv, SessionInv, Consistent, Unconnected
<1>10. /\ \A t \in Ids \ {s} : UNCHANGED <<wire[t], message_queue[t], status[t]>>
       /\ Accepted(s)' = Append(Accepted(s), request[s])
       /\ status'[s] # WaitToConnect
  BY <1>1, <1>5, <1>6, <1>9, SendAccepts DEF WaitToConnect, ReadyToWrite, WaitWriteDone
<1>11. RepliesInOrder'
  <2> SUFFICES ASSUME NEW t \in sessions
               PROVE  InRequestOrder(Accepted(t)', Handled(t)')
    BY DEF RepliesInOrder, Accepted
  <2>1. CASE t = s
    <3>1. Handled(s)' = Handled(s) + 1 /\ request[s] = Handled(s) + 1
      BY <1>1, <1>5, <1>8 DEF Handled
    <3> QED
      BY <1>1, <1>5, <1>10, <2>1, <3>1, OrderReply
  <2>2. CASE t # s
    <3>1. t \in Ids /\ InRequestOrder(Accepted(t), Handled(t))
      BY HandledNat
    <3>2. Accepted(t)' = Accepted(t) /\ Handled(t)' = Handled(t)
      BY <1>8, <1>10, <2>2, <3>1 DEF Accepted, Handled
    <3> QED
      BY <3>1, <3>2
  <2> QED
    BY <2>1, <2>2
<1>12. Fresh'
  BY <1>1, <1>10 DEF ReplyInv, Fresh
<1>13. ProcessesSuccess' /\ Counted'
  BY <1>1, <1>8 DEF ReplyInv, ProcessesSuccess, Counted
<1> QED
  BY <1>11, <1>12, <1>13 DEF ReplyInv

\* Processing a Write moves a response from the queue to the stream.
LEMMA WrittenReply ==
  ASSUME IInv, ReplyInv, WorkerProcess, NEW s \in sessions,
         WorkerHolds(s, SessionEventWriteDone), OnWriteDone(s),
         UNCHANGED <<request, mapVars>>, worker_pc' = "next"
  PROVE  ReplyInv'
<1>1. s \in Ids
  BY DEF IInv, TypeOK, MapTypeOK
<1>2. \A t \in Ids : ~WorkerHolds(t, SessionEventReadDone)
  BY <1>1, TagInjective DEF WorkerHolds, SessionEventReadDone, SessionEventWriteDone
<1>3. \A t \in Ids : ~WorkerHolds(t, SessionEventReadDone)'
  BY DEF WorkerHolds, HoldPcs
<1>4. \A t \in Ids : op'[t][SessionEventReadDone] = op[t][SessionEventReadDone]
  <2>1. UNCHANGED op \/ StartOps(s, {SessionEventWriteDone}, "readwrite")
    BY DEF OnWriteDone
  <2>2. op \in [Ids -> [Events -> OpStates]] /\ SessionEventReadDone \in Events
    BY DEF IInv, TypeOK, SessionTypeOK, Events
  <2> QED
    BY <1>1, <2>1, <2>2 DEF StartOps, SessionEventReadDone, SessionEventWriteDone
<1>5. \A t \in Ids : Unanswered(t)' <=> Unanswered(t)
  BY <1>2, <1>3, <1>4 DEF Unanswered
<1>6. /\ \A t \in Ids \ {s} : UNCHANGED <<wire[t], message_queue[t], status[t]>>
      /\ Accepted(s)' = Accepted(s)
      /\ status'[s] # WaitToConnect
  BY <1>1, WriteDoneAccepts DEF WaitToConnect, ReadyToWrite, WaitWriteDone
<1>7. \A t \in Ids : Accepted(t)' = Accepted(t)
  BY <1>1, <1>6 DEF Accepted
<1>8. \A t \in sessions : t \in Ids
  BY DEF IInv, TypeOK, MapTypeOK
<1>9. RepliesInOrder'
  BY <1>5, <1>7, <1>8, ReplyFrame
<1>10. Fresh'
  BY <1>1, <1>6 DEF ReplyInv, Fresh
<1>11. ProcessesSuccess' /\ Counted'
  BY <1>5 DEF ReplyInv, ProcessesSuccess, Counted
<1> QED
  BY <1>9, <1>10, <1>11 DEF ReplyInv

\* The tag of a Read moves from the queue into the worker's hand, and with it
\* the request that is not yet answered.
LEMMA TakenReply ==
  ASSUME IInv, ReplyInv, NEW s \in Ids, NEW e \in Events, WorkerNext(s, e)
  PROVE  ReplyInv'
<1>1. /\ UNCHANGED <<wire, message_queue, request, status, sessions>>
      /\ e \in WorkerEvents
      /\ op' = [op EXCEPT ![s][e] = "idle"]
      /\ worker_pc = "next" /\ worker_pc' = "lookup"
      /\ worker_got' = [tag |-> Tagify(s, e), ok |-> op[s][e] = "ok"]
  BY DEF WorkerNext, WorkerOnly, Got, WorkerEvents, Events
<1>2. op \in [Ids -> [Events -> OpStates]] /\ SessionEventReadDone \in Events
  BY DEF IInv, TypeOK, SessionTypeOK, Events
<1>3. worker_got'.tag = Tagify(s, e) /\ (worker_got'.ok <=> op[s][e] = "ok")
  BY <1>1, Zenon
<1>4. /\ \A t \in Ids : ~WorkerHolds(t, SessionEventReadDone)
      /\ \A t \in Ids : WorkerHolds(t, SessionEventReadDone)'
                           <=> t = s /\ e = SessionEventReadDone
  <2>1. e \in 0 .. 3 /\ SessionEventReadDone \in 0 .. 3
    BY DEF Events, SessionEventConnected, SessionEventReadDone, SessionEventWriteDone
  <2> QED
    BY <1>1, <1>3, <2>1, TagInjective DEF WorkerHolds, HoldPcs
<1>5. \A t \in Ids : Unanswered(t)' <=> Unanswered(t)
  <2> SUFFICES ASSUME NEW t \in Ids PROVE Unanswered(t)' <=> Unanswered(t)
    OBVIOUS
  <2>1. CASE t = s /\ e = SessionEventReadDone
    <3>1. op'[s][SessionEventReadDone] = "idle"
      BY <1>1, <1>2, <2>1
    <3> QED
      BY <1>3, <1>4, <2>1, <3>1 DEF Unanswered
  <2>2. CASE ~(t = s /\ e = SessionEventReadDone)
    <3>1. op'[t][SessionEventReadDone] = op[t][SessionEventReadDone]
      BY <1>1, <1>2, <2>2
    <3> QED
      BY <1>4, <2>2, <3>1 DEF Unanswered
  <2> QED
    BY <2>1, <2>2
<1>6. \A t \in sessions' : t \in Ids /\ t \in sessions
  BY <1>1 DEF IInv, TypeOK, MapTypeOK
<1>7. RepliesInOrder'
  BY <1>1, <1>5, <1>6, ReplyFrame DEF Accepted
<1>8. Fresh' /\ ProcessesSuccess' /\ Counted'
  BY <1>1, <1>5 DEF ReplyInv, Fresh, ProcessesSuccess, Counted
<1> QED
  BY <1>7, <1>8 DEF ReplyInv

\* GetSession keeps the tag of a session that is in the map, and a completion
\* that failed is not processed.
LEMMA LookupReply ==
  ASSUME IInv, ReplyInv, WorkerLookup
  PROVE  ReplyInv'
<1>1. worker_pc = "lookup" /\ worker_pc \in HoldPcs
  BY DEF WorkerLookup, HoldPcs
<1>2. PICK s \in Ids, e \in WorkerEvents :
        /\ TagId(worker_got.tag) = s
        /\ \A t \in Ids, f \in WorkerEvents : WorkerHolds(t, f) <=> t = s /\ f = e
  BY <1>1, WorkerTag
<1>3. /\ UNCHANGED <<wire, message_queue, request, status, sessions, op>>
      /\ \/ s \notin sessions /\ worker_pc' = "next"
         \/ /\ s \in sessions /\ worker_got' = worker_got
            /\ \/ worker_pc' = "process" /\ worker_got.ok
               \/ worker_pc' = "remove"
  BY <1>2 DEF WorkerLookup, AfterGetSession
<1>4. /\ \A t \in sessions : t \in Ids
      /\ \A t \in sessions : Unanswered(t)' <=> Unanswered(t)
      /\ \A t \in Ids : Unanswered(t)' => Unanswered(t)
  <2>1. SessionEventReadDone \in WorkerEvents /\ \A t \in sessions : t \in Ids
    BY DEF WorkerEvents, IInv, TypeOK, MapTypeOK
  <2>2. CASE s \notin sessions
    <3>1. \A t \in Ids : ~WorkerHolds(t, SessionEventReadDone)'
      BY <1>3, <2>2 DEF WorkerHolds, HoldPcs
    <3> QED
      BY <1>2, <1>3, <2>1, <2>2, <3>1 DEF Unanswered
  <2>3. CASE s \in sessions
    <3>1. worker_got' = worker_got /\ worker_pc' \in HoldPcs
      BY <1>3, <2>3 DEF HoldPcs
    <3> QED
      BY <1>1, <1>3, <2>1, <3>1 DEF Unanswered, WorkerHolds
  <2> QED
    BY <2>2, <2>3
<1>5. RepliesInOrder'
  BY <1>3, <1>4, ReplyFrame DEF Accepted
<1>6. Fresh' /\ ProcessesSuccess' /\ Counted'
  BY <1>3, <1>4 DEF ReplyInv, Fresh, ProcessesSuccess, Counted
<1> QED
  BY <1>5, <1>6 DEF ReplyInv

\* A removed session answers nobody.
LEMMA RemoveReply ==
  ASSUME IInv, ReplyInv, WorkerRemove
  PROVE  ReplyInv'
<1>1. worker_pc = "remove" /\ worker_pc \in HoldPcs
  BY DEF WorkerRemove, HoldPcs
<1>2. PICK s \in Ids, e \in WorkerEvents :
        /\ TagId(worker_got.tag) = s
        /\ \A t \in Ids, f \in WorkerEvents : WorkerHolds(t, f) <=> t = s /\ f = e
  BY <1>1, WorkerTag
<1>3. /\ UNCHANGED <<wire, message_queue, request, status, op>>
      /\ sessions' = sessions \ {s} /\ worker_pc' = "next"
  BY <1>2 DEF WorkerRemove, RemoveSession, Destroy
<1>4. \A t \in Ids : /\ Unanswered(t)' => Unanswered(t)
                     /\ t # s => (Unanswered(t)' <=> Unanswered(t))
  BY <1>2, <1>3 DEF Unanswered, WorkerHolds, HoldPcs, WorkerEvents
<1>5. \A t \in sessions' : t \in Ids /\ t \in sessions /\ t # s
  BY <1>3 DEF IInv, TypeOK, MapTypeOK
<1>6. RepliesInOrder'
  BY <1>3, <1>4, <1>5, ReplyFrame DEF Accepted
<1>7. Fresh' /\ ProcessesSuccess' /\ Counted'
  BY <1>3, <1>4 DEF ReplyInv, Fresh, ProcessesSuccess, Counted
<1> QED
  BY <1>6, <1>7 DEF ReplyInv

\* The worker loop.
LEMMA WorkerReply ==
  ASSUME IInv, ReplyInv, WorkerStep
  PROVE  ReplyInv'
<1>1. CASE WorkerProcess
  <2>1. PICK s \in Ids :
          /\ s \in sessions
          /\ UNCHANGED <<request, mapVars>>
          /\ worker_pc' = "next"
          /\ \/ WorkerHolds(s, SessionEventReadDone) /\ OnReadDone(s)
             \/ WorkerHolds(s, SessionEventWriteDone) /\ OnWriteDone(s)
    BY <1>1, WorkerHandles
  <2> HIDE DEF mapVars
  <2> QED
    BY <1>1, <2>1, AnswerReply, WrittenReply
<1>2. CASE WorkerCheck \/ WorkerDrained
  <2>1. /\ UNCHANGED <<wire, message_queue, request, status, op, sessions>>
        /\ worker_pc \notin HoldPcs /\ worker_pc' \notin HoldPcs
    BY <1>2 DEF WorkerCheck, WorkerDrained, HoldPcs
  <2>2. \A t \in Ids : Unanswered(t)' <=> Unanswered(t)
    BY <2>1 DEF Unanswered, WorkerHolds
  <2>3. \A t \in sessions : t \in Ids
    BY DEF IInv, TypeOK, MapTypeOK
  <2>4. RepliesInOrder'
    BY <2>1, <2>2, <2>3, ReplyFrame DEF Accepted
  <2>5. Fresh' /\ ProcessesSuccess' /\ Counted'
    BY <2>1, <2>2 DEF ReplyInv, Fresh, ProcessesSuccess, Counted, HoldPcs
  <2> QED
    BY <2>4, <2>5 DEF ReplyInv
<1>3. ASSUME NEW s \in Ids, NEW e \in Events, WorkerNextFreed(s, e) PROVE ReplyInv'
  <2>1. UNCHANGED <<wire, message_queue, request, sessions, status, op, workerVars>>
    BY <1>3 DEF WorkerNextFreed
  <2> HIDE DEF workerVars
  <2> QED
    BY <2>1, ReplyQuiet
<1> QED
  BY <1>1, <1>2, <1>3, TakenReply, LookupReply, RemoveReply DEF WorkerStep

\* Before Start nobody has asked and nobody has been answered.
LEMMA InitReply == Init => ReplyInv
BY DEF Init, SessionInit, ReplyInv, RepliesInOrder, Fresh, ProcessesSuccess, Counted,
   Unanswered, WorkerHolds, HoldPcs, Events, SessionEventReadDone

\* Every step keeps the order.
LEMMA NextReply == IInv /\ ReplyInv /\ [Next]_vars => ReplyInv'
<1> SUFFICES ASSUME IInv, ReplyInv, [Next]_vars PROVE ReplyInv'
  OBVIOUS
<1>1. CASE MainStep \/ StopEnter \/ StopStep \/ Terminated \/ UNCHANGED vars
  <2>1. UNCHANGED <<wire, message_queue, status>>
    BY <1>1, OthersQuiet
  <2>2. /\ UNCHANGED <<request, op, sessions, worker_got>>
        /\ worker_pc' = worker_pc \/ (worker_pc = "unborn" /\ worker_pc' = "check")
    BY <1>1 DEF MainStep, StartEnter, StartBuild, StartThreads, StartReturn, StopEnter,
       StopStep, StopLock, StopCancel, TryCancel, StopUnlock, StopShutdown,
       StopServerDown, StopShutConn, StopShutReadWrite, ShutQueue, Terminated, vars,
       IInv, ThreadsInv
  <2>3. \A t \in Ids : Unanswered(t)' <=> Unanswered(t)
    BY <2>2 DEF Unanswered, WorkerHolds, HoldPcs
  <2>4. \A t \in sessions : t \in Ids
    BY DEF IInv, TypeOK, MapTypeOK
  <2>5. RepliesInOrder'
    BY <2>1, <2>2, <2>3, <2>4, ReplyFrame DEF Accepted
  <2>6. Fresh' /\ ProcessesSuccess' /\ Counted'
    BY <2>1, <2>2, <2>3 DEF ReplyInv, Fresh, ProcessesSuccess, Counted
  <2> QED
    BY <2>5, <2>6 DEF ReplyInv
<1> QED
  BY <1>1, AccepterReply, WorkerReply, BroadcastReply, OutsideReply DEF Next

\* Every request that was read is answered once and in its turn, among any
\* number of broadcasts, for any number of sessions and requests.
THEOREM AnswersInOrder == Spec => []RepliesInOrder
<1>1. ReplyInv => RepliesInOrder
  BY DEF ReplyInv
<1> QED
  BY <1>1, InductiveInvariant, InitReply, NextReply, PTL DEF Spec
=============================================================================
