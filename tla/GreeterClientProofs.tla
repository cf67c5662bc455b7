------------------------- MODULE GreeterClientProofs -------------------------
(***************************************************************************)
(* Proofs about grpcdemo/client_async2.cpp for any number of iterations of *)
(* main's loop. None of the invariants of the client is inductive alone:   *)
(* that a Read is under way when the callback thread waits depends on which*)
(* tag it took last, and that only the last taken tag can be forgotten     *)
(* depends on what a request's Write and result may be while its tag is    *)
(* being handled.                                                          *)
(***************************************************************************)
EXTENDS GreeterClient, TLAPS

\* The callback thread is there once run() has made it.
Spawned == callback_pc = "unborn" <=> main_pc \in {"run", "stream", "spawn"}

\* The operation with the tag nullptr is under way, except while its tag is
\* being handled, and as long as the callback thread goes on.
ReadFollowsTag ==
  /\ main_pc \in {"run", "stream"} => read = "idle"
  /\ main_pc = "spawn" => read # "idle"
  /\ callback_pc \in {"check", "next"} => read # "idle"
  /\ callback_pc = "handle" => (read = "idle" <=> got.tag = Null)

\* A request that was not sent yet has left no trace.
UnsentUntouched ==
  \A r \in Requests : r >= i => write[r] = "idle" /\ result[r] = "none"

\* A request whose tag is being handled was sent, and was not reported.
HandledOnce ==
  \A r \in Requests : callback_pc = "handle" /\ got.tag = r =>
    r < i /\ write[r] = "idle" /\ result[r] = "none"

\* An operation fails only on a stream that has ended.
FailureMeansEnded ==
  /\ read = "fail" => call = "ended"
  /\ \A r \in Requests : write[r] = "fail" => call = "ended"
  /\ callback_pc = "handle" /\ ~got.ok => call = "ended"

IInv ==
  /\ TypeOK
  /\ Spawned
  /\ ReadFollowsTag
  /\ NoOverlappedRead
  /\ UnsentUntouched
  /\ ReportedMeansDone
  /\ HandledOnce
  /\ FailureMeansEnded
  /\ ForgottenOnlyAtEnd

USE DEF Requests, Null, OpStates, Faults
-----------------------------------------------------------------------------
(***************************************************************************)
(* The initial state.                                                      *)
(***************************************************************************)
\* Nothing was sent, nothing runs.
LEMMA InitIInv == Init => IInv
<1> SUFFICES ASSUME Init PROVE IInv
  OBVIOUS
<1>1. TypeOK
  <2>1. 0 \in 0 .. MaxSends
    BY ClientAssumption
  <2>2. [tag |-> Null, ok |-> FALSE] \in [tag : Requests \cup {Null}, ok : BOOLEAN]
    BY ClientAssumption
  <2> QED
    BY <2>1, <2>2 DEF Init, TypeOK
<1>2. Spawned /\ ReadFollowsTag /\ NoOverlappedRead /\ FailureMeansEnded
  BY DEF Init, Spawned, ReadFollowsTag, NoOverlappedRead, FailureMeansEnded
<1>3. UnsentUntouched /\ ReportedMeansDone /\ HandledOnce /\ ForgottenOnlyAtEnd
  BY ClientAssumption
  DEF Init, UnsentUntouched, ReportedMeansDone, HandledOnce, ForgottenOnlyAtEnd,
      Forgotten
<1> QED
  BY <1>1, <1>2, <1>3 DEF IInv

-----------------------------------------------------------------------------
(***************************************************************************)
(* The main thread and stop() on top of it.                                *)
(***************************************************************************)
\* run() starts the operation with the tag nullptr before there is a thread.
LEMMA RunIInv == IInv /\ (RunEnter \/ RunStream \/ RunThread \/ MainFlag) => IInv'
<1> SUFFICES ASSUME IInv, RunEnter \/ RunStream \/ RunThread \/ MainFlag PROVE IInv'
  OBVIOUS
<1> USE DEF IInv, RunEnter, RunStream, RunThread, MainFlag, MainRuns, callbackVars,
        grpcVars
<1>1. TypeOK'
  <2>1. CASE RunStream
    BY <2>1, ClientAssumption DEF TypeOK
  <2>2. CASE RunThread
    BY <2>2, ClientAssumption DEF TypeOK
  <2>3. CASE MainFlag
    BY <2>3, ClientAssumption DEF TypeOK
  <2>4. CASE RunEnter
    BY <2>4, ClientAssumption DEF TypeOK
  <2> QED
    BY <2>1, <2>2, <2>3, <2>4
<1>2. Spawned' /\ ReadFollowsTag'
  BY DEF TypeOK, Spawned, ReadFollowsTag
<1>3. NoOverlappedRead'
  BY DEF TypeOK, ReadFollowsTag, NoOverlappedRead
<1>4. UnsentUntouched'
  BY ClientAssumption DEF TypeOK, UnsentUntouched, HandledOnce
<1>5. ReportedMeansDone'
  BY ClientAssumption DEF TypeOK, UnsentUntouched, HandledOnce, ReportedMeansDone
<1>6. HandledOnce'
  BY ClientAssumption DEF TypeOK, UnsentUntouched, HandledOnce, ReportedMeansDone, Spawned
<1>7. FailureMeansEnded'
  BY DEF TypeOK, FailureMeansEnded
<1>8. ForgottenOnlyAtEnd'
  <2>1. UNCHANGED <<i, write, result, call, got>>
    OBVIOUS
  <2>2. \/ callback_pc' = callback_pc
        \/ callback_pc = "unborn" /\ callback_pc' = "check"
    BY DEF Spawned
  <2>3. \A r \in Requests : Forgotten(r)' => Forgotten(r)
    BY <2>1, <2>2 DEF Forgotten
  <2> QED
    BY <2>1, <2>2, <2>3 DEF ForgottenOnlyAtEnd
<1> QED
  BY <1>1, <1>2, <1>3, <1>4, <1>5, <1>6, <1>7, <1>8

\* The loop's tests change nothing but where main is.
LEMMA LoopIInv == IInv /\ (MainLoop \/ MainWake \/ SendChecked) => IInv'
<1> SUFFICES ASSUME IInv, MainLoop \/ MainWake \/ SendChecked PROVE IInv'
  OBVIOUS
<1> USE DEF IInv, MainLoop, MainWake, SendChecked, MainRuns, callbackVars, grpcVars
<1>1. TypeOK'
  BY ClientAssumption DEF TypeOK
<1>2. Spawned' /\ ReadFollowsTag'
  BY DEF TypeOK, Spawned, ReadFollowsTag
<1>3. NoOverlappedRead'
  BY DEF TypeOK, ReadFollowsTag, NoOverlappedRead
<1>4. UnsentUntouched'
  BY ClientAssumption DEF TypeOK, UnsentUntouched, HandledOnce
<1>5. ReportedMeansDone'
  BY ClientAssumption DEF TypeOK, UnsentUntouched, HandledOnce, ReportedMeansDone
<1>6. HandledOnce'
  BY ClientAssumption DEF TypeOK, UnsentUntouched, HandledOnce, ReportedMeansDone, Spawned
<1>7. FailureMeansEnded'
  BY DEF TypeOK, FailureMeansEnded
<1>8. ForgottenOnlyAtEnd'
  BY ClientAssumption DEF TypeOK, UnsentUntouched, HandledOnce, FailureMeansEnded,
     ForgottenOnlyAtEnd, Forgotten
<1> QED
  BY <1>1, <1>2, <1>3, <1>4, <1>5, <1>6, <1>7, <1>8

\* A refused request is reported and was never written.
LEMMA RefusedIInv == IInv /\ (SendRefused) => IInv'
<1> SUFFICES ASSUME IInv, SendRefused PROVE IInv'
  OBVIOUS
<1> USE DEF IInv, SendRefused, MainRuns, callbackVars, grpcVars
<1>1. TypeOK'
  BY ClientAssumption DEF TypeOK
<1>2. Spawned' /\ ReadFollowsTag'
  BY DEF TypeOK, Spawned, ReadFollowsTag
<1>3. NoOverlappedRead'
  BY DEF TypeOK, ReadFollowsTag, NoOverlappedRead
<1>4. UnsentUntouched'
  BY ClientAssumption DEF TypeOK, UnsentUntouched, HandledOnce
<1>5. ReportedMeansDone'
  BY ClientAssumption DEF TypeOK, UnsentUntouched, HandledOnce, ReportedMeansDone
<1>6. HandledOnce'
  BY ClientAssumption DEF TypeOK, UnsentUntouched, HandledOnce, ReportedMeansDone, Spawned
<1>7. FailureMeansEnded'
  BY DEF TypeOK, FailureMeansEnded
<1>8. ForgottenOnlyAtEnd'
  BY ClientAssumption DEF TypeOK, UnsentUntouched, HandledOnce, FailureMeansEnded,
     ForgottenOnlyAtEnd, Forgotten
<1> QED
  BY <1>1, <1>2, <1>3, <1>4, <1>5, <1>6, <1>7, <1>8

\* A Write is started for a request that has no trace yet, whatever running_ is.
LEMMA WriteIInv == IInv /\ (SendWrite) => IInv'
<1> SUFFICES ASSUME IInv, SendWrite PROVE IInv'
  OBVIOUS
<1> USE DEF IInv, SendWrite, MainRuns, callbackVars
<1>1. TypeOK'
  BY ClientAssumption DEF TypeOK
<1>2. Spawned' /\ ReadFollowsTag'
  BY DEF TypeOK, Spawned, ReadFollowsTag
<1>3. NoOverlappedRead'
  BY DEF TypeOK, ReadFollowsTag, NoOverlappedRead
<1>4. UnsentUntouched'
  BY ClientAssumption DEF TypeOK, UnsentUntouched, HandledOnce
<1>5. ReportedMeansDone'
  BY ClientAssumption DEF TypeOK, UnsentUntouched, HandledOnce, ReportedMeansDone
<1>6. HandledOnce'
  BY ClientAssumption DEF TypeOK, UnsentUntouched, HandledOnce, ReportedMeansDone, Spawned
<1>7. FailureMeansEnded'
  BY DEF TypeOK, FailureMeansEnded
<1>8. ForgottenOnlyAtEnd'
  BY ClientAssumption DEF TypeOK, UnsentUntouched, HandledOnce, FailureMeansEnded,
     ForgottenOnlyAtEnd, Forgotten
<1> QED
  BY <1>1, <1>2, <1>3, <1>4, <1>5, <1>6, <1>7, <1>8

\* stop() ends the stream and leaves the requests alone.
LEMMA StopIInv ==
  ASSUME IInv, MainDestroy \/ Signal \/ StopCancel \/ StopShutdown \/ StopJoin
  PROVE  IInv'
<1> USE DEF IInv, MainDestroy, Signal, StopCancel, StopShutdown, StopJoin, MainRuns,
        StopEnter, mainVars, callbackVars, grpcVars
<1>1. TypeOK'
  <2>1. CASE MainDestroy
    <3>1. running' \in BOOLEAN /\ g_running' \in BOOLEAN
      BY <2>1, Zenon DEF TypeOK
    <3> QED
      BY <2>1, <3>1, ClientAssumption DEF TypeOK
  <2>2. CASE Signal
    <3>1. running' \in BOOLEAN /\ g_running' \in BOOLEAN
      BY <2>2, Zenon DEF TypeOK
    <3> QED
      BY <2>2, <3>1, ClientAssumption DEF TypeOK
  <2>3. CASE StopCancel
    BY <2>3, ClientAssumption DEF TypeOK
  <2>4. CASE StopShutdown
    BY <2>4, ClientAssumption DEF TypeOK
  <2>5. CASE StopJoin
    BY <2>5, ClientAssumption DEF TypeOK
  <2> QED
    BY <2>1, <2>2, <2>3, <2>4, <2>5
<1>2. Spawned' /\ ReadFollowsTag'
  BY DEF TypeOK, Spawned, ReadFollowsTag
<1>3. NoOverlappedRead'
  BY DEF TypeOK, ReadFollowsTag, NoOverlappedRead
<1>4. UnsentUntouched'
  BY ClientAssumption DEF TypeOK, UnsentUntouched, HandledOnce
<1>5. ReportedMeansDone'
  BY ClientAssumption DEF TypeOK, UnsentUntouched, HandledOnce, ReportedMeansDone
<1>6. HandledOnce'
  BY ClientAssumption DEF TypeOK, UnsentUntouched, HandledOnce, ReportedMeansDone, Spawned
<1>7. FailureMeansEnded'
  BY DEF TypeOK, FailureMeansEnded
<1>8. ForgottenOnlyAtEnd'
  BY ClientAssumption DEF TypeOK, UnsentUntouched, HandledOnce, FailureMeansEnded,
     ForgottenOnlyAtEnd, Forgotten
<1> QED
  BY <1>1, <1>2, <1>3, <1>4, <1>5, <1>6, <1>7, <1>8

\* The destructors and the end of main.
LEMMA LeaveIInv == IInv /\ (SignalAfterReset \/ MainMembers \/ MainReturn) => IInv'
<1> SUFFICES ASSUME IInv, SignalAfterReset \/ MainMembers \/ MainReturn PROVE IInv'
  OBVIOUS
<1> USE DEF IInv, SignalAfterReset, MainMembers, MainReturn, MainRuns, mainVars,
        callbackVars, grpcVars
<1>1. TypeOK'
  BY ClientAssumption DEF TypeOK
<1>2. Spawned' /\ ReadFollowsTag'
  BY DEF TypeOK, Spawned, ReadFollowsTag
<1>3. NoOverlappedRead'
  BY DEF TypeOK, ReadFollowsTag, NoOverlappedRead
<1>4. UnsentUntouched'
  BY ClientAssumption DEF TypeOK, UnsentUntouched, HandledOnce
<1>5. ReportedMeansDone'
  BY ClientAssumption DEF TypeOK, UnsentUntouched, HandledOnce, ReportedMeansDone
<1>6. HandledOnce'
  BY ClientAssumption DEF TypeOK, UnsentUntouched, HandledOnce, ReportedMeansDone, Spawned
<1>7. FailureMeansEnded'
  BY DEF TypeOK, FailureMeansEnded
<1>8. ForgottenOnlyAtEnd'
  BY ClientAssumption DEF TypeOK, UnsentUntouched, HandledOnce, FailureMeansEnded,
     ForgottenOnlyAtEnd, Forgotten
<1> QED
  BY <1>1, <1>2, <1>3, <1>4, <1>5, <1>6, <1>7, <1>8

-----------------------------------------------------------------------------
(***************************************************************************)
(* The callback thread.                                                    *)
(***************************************************************************)
\* The callback thread tests running_, or leaves and clears it.
LEMMA CheckIInv == IInv /\ (CallbackCheck \/ CallbackEnd) => IInv'
<1> SUFFICES ASSUME IInv, CallbackCheck \/ CallbackEnd PROVE IInv'
  OBVIOUS
<1> USE DEF IInv, CallbackCheck, CallbackEnd, CallbackOnly, mainVars, grpcVars
<1>1. TypeOK'
  <2>1. CASE CallbackCheck
    BY <2>1, ClientAssumption DEF TypeOK
  <2>2. CASE CallbackEnd
    <3>1. running' \in BOOLEAN /\ g_running' \in BOOLEAN
      BY <2>2, Zenon DEF TypeOK
    <3> QED
      BY <2>2, <3>1, ClientAssumption DEF TypeOK
  <2> QED
    BY <2>1, <2>2
<1>2. Spawned' /\ ReadFollowsTag'
  BY DEF TypeOK, Spawned, ReadFollowsTag
<1>3. NoOverlappedRead'
  BY DEF TypeOK, ReadFollowsTag, NoOverlappedRead
<1>4. UnsentUntouched'
  BY ClientAssumption DEF TypeOK, UnsentUntouched, HandledOnce
<1>5. ReportedMeansDone'
  BY ClientAssumption DEF TypeOK, UnsentUntouched, HandledOnce, ReportedMeansDone
<1>6. HandledOnce'
  BY ClientAssumption DEF TypeOK, UnsentUntouched, HandledOnce, ReportedMeansDone, Spawned
<1>7. FailureMeansEnded'
  BY DEF TypeOK, FailureMeansEnded
<1>8. ForgottenOnlyAtEnd'
  BY ClientAssumption DEF TypeOK, UnsentUntouched, HandledOnce, FailureMeansEnded,
     ForgottenOnlyAtEnd, Forgotten
<1> QED
  BY <1>1, <1>2, <1>3, <1>4, <1>5, <1>6, <1>7, <1>8

\* Taking the tag nullptr leaves no Read under way until it is handled.
LEMMA NextReadIInv == IInv /\ (CallbackNextRead) => IInv'
<1> SUFFICES ASSUME IInv, CallbackNextRead PROVE IInv'
  OBVIOUS
<1> USE DEF IInv, CallbackNextRead, CallbackOnly, mainVars, Completed
<1>1. TypeOK'
  BY ClientAssumption DEF TypeOK
<1>2. Spawned' /\ ReadFollowsTag'
  BY DEF TypeOK, Spawned, ReadFollowsTag
<1>3. NoOverlappedRead'
  BY DEF TypeOK, ReadFollowsTag, NoOverlappedRead
<1>4. UnsentUntouched'
  BY ClientAssumption DEF TypeOK, UnsentUntouched, HandledOnce
<1>5. ReportedMeansDone'
  BY ClientAssumption DEF TypeOK, UnsentUntouched, HandledOnce, ReportedMeansDone
<1>6. HandledOnce'
  BY ClientAssumption DEF TypeOK, UnsentUntouched, HandledOnce, ReportedMeansDone, Spawned
<1>7. FailureMeansEnded'
  BY DEF TypeOK, FailureMeansEnded
<1>8. ForgottenOnlyAtEnd'
  BY ClientAssumption DEF TypeOK, UnsentUntouched, HandledOnce, FailureMeansEnded,
     ForgottenOnlyAtEnd, Forgotten
<1> QED
  BY <1>1, <1>2, <1>3, <1>4, <1>5, <1>6, <1>7, <1>8

\* Taking a request's tag ends its Write, and the Read is still under way.
LEMMA NextWriteIInv ==
  ASSUME IInv, NEW r \in Requests, CallbackNextWrite(r)
  PROVE  IInv'
<1> USE DEF IInv, CallbackNextWrite, CallbackOnly, mainVars, Completed
<1>1. TypeOK'
  BY ClientAssumption DEF TypeOK
<1>2. Spawned' /\ ReadFollowsTag'
  BY DEF TypeOK, Spawned, ReadFollowsTag
<1>3. NoOverlappedRead'
  BY DEF TypeOK, ReadFollowsTag, NoOverlappedRead
<1>4. UnsentUntouched'
  BY ClientAssumption DEF TypeOK, UnsentUntouched, HandledOnce
<1>5. ReportedMeansDone'
  BY ClientAssumption DEF TypeOK, UnsentUntouched, HandledOnce, ReportedMeansDone
<1>6. HandledOnce'
  BY ClientAssumption DEF TypeOK, UnsentUntouched, HandledOnce, ReportedMeansDone, Spawned
<1>7. FailureMeansEnded'
  BY DEF TypeOK, FailureMeansEnded
<1>8. ForgottenOnlyAtEnd'
  BY ClientAssumption DEF TypeOK, UnsentUntouched, HandledOnce, FailureMeansEnded,
     ForgottenOnlyAtEnd, Forgotten
<1> QED
  BY <1>1, <1>2, <1>3, <1>4, <1>5, <1>6, <1>7, <1>8

\* The next Read is started only with the tag nullptr, so no Read is under way.
LEMMA HandleReadIInv == IInv /\ (HandleNotify) => IInv'
<1> SUFFICES ASSUME IInv, HandleNotify PROVE IInv'
  OBVIOUS
<1> USE DEF IInv, HandleNotify, CallbackOnly, mainVars
<1>1. TypeOK'
  BY ClientAssumption DEF TypeOK
<1>2. Spawned' /\ ReadFollowsTag'
  BY DEF TypeOK, Spawned, ReadFollowsTag
<1>3. NoOverlappedRead'
  BY DEF TypeOK, ReadFollowsTag, NoOverlappedRead
<1>4. UnsentUntouched'
  BY ClientAssumption DEF TypeOK, UnsentUntouched, HandledOnce
<1>5. ReportedMeansDone'
  BY ClientAssumption DEF TypeOK, UnsentUntouched, HandledOnce, ReportedMeansDone
<1>6. HandledOnce'
  BY ClientAssumption DEF TypeOK, UnsentUntouched, HandledOnce, ReportedMeansDone, Spawned
<1>7. FailureMeansEnded'
  BY DEF TypeOK, FailureMeansEnded
<1>8. ForgottenOnlyAtEnd'
  BY ClientAssumption DEF TypeOK, UnsentUntouched, HandledOnce, FailureMeansEnded,
     ForgottenOnlyAtEnd, Forgotten
<1> QED
  BY <1>1, <1>2, <1>3, <1>4, <1>5, <1>6, <1>7, <1>8

\* The request whose tag was taken is reported.
LEMMA HandleSentIInv == IInv /\ (HandleSent) => IInv'
<1> SUFFICES ASSUME IInv, HandleSent PROVE IInv'
  OBVIOUS
<1> USE DEF IInv, HandleSent, CallbackOnly, mainVars, grpcVars
<1>1. TypeOK'
  BY ClientAssumption DEF TypeOK
<1>2. Spawned' /\ ReadFollowsTag'
  BY DEF TypeOK, Spawned, ReadFollowsTag
<1>3. NoOverlappedRead'
  BY DEF TypeOK, ReadFollowsTag, NoOverlappedRead
<1>4. UnsentUntouched'
  BY ClientAssumption DEF TypeOK, UnsentUntouched, HandledOnce
<1>5. ReportedMeansDone'
  BY ClientAssumption DEF TypeOK, UnsentUntouched, HandledOnce, ReportedMeansDone
<1>6. HandledOnce'
  BY ClientAssumption DEF TypeOK, UnsentUntouched, HandledOnce, ReportedMeansDone, Spawned
<1>7. FailureMeansEnded'
  BY DEF TypeOK, FailureMeansEnded
<1>8. ForgottenOnlyAtEnd'
  BY ClientAssumption DEF TypeOK, UnsentUntouched, HandledOnce, FailureMeansEnded,
     ForgottenOnlyAtEnd, Forgotten
<1> QED
  BY <1>1, <1>2, <1>3, <1>4, <1>5, <1>6, <1>7, <1>8

\* A failed operation ends the loop: its tag, if it is a request's, is forgotten.
LEMMA HandleClosedIInv == IInv /\ (HandleClosed) => IInv'
<1> SUFFICES ASSUME IInv, HandleClosed PROVE IInv'
  OBVIOUS
<1> USE DEF IInv, HandleClosed, CallbackOnly, mainVars, grpcVars
<1>1. TypeOK'
  BY ClientAssumption DEF TypeOK
<1>2. Spawned' /\ ReadFollowsTag'
  BY DEF TypeOK, Spawned, ReadFollowsTag
<1>3. NoOverlappedRead'
  BY DEF TypeOK, ReadFollowsTag, NoOverlappedRead
<1>4. UnsentUntouched'
  BY ClientAssumption DEF TypeOK, UnsentUntouched, HandledOnce
<1>5. ReportedMeansDone'
  BY ClientAssumption DEF TypeOK, UnsentUntouched, HandledOnce, ReportedMeansDone
<1>6. HandledOnce'
  BY ClientAssumption DEF TypeOK, UnsentUntouched, HandledOnce, ReportedMeansDone, Spawned
<1>7. FailureMeansEnded'
  BY DEF TypeOK, FailureMeansEnded
<1>8. ForgottenOnlyAtEnd'
  BY ClientAssumption DEF TypeOK, UnsentUntouched, HandledOnce, FailureMeansEnded,
     ForgottenOnlyAtEnd, Forgotten
<1> QED
  BY <1>1, <1>2, <1>3, <1>4, <1>5, <1>6, <1>7, <1>8

-----------------------------------------------------------------------------
(***************************************************************************)
(* gRPC and the server.                                                    *)
(***************************************************************************)
\* The server ends the stream or notifies; a Read of an ended stream fails.
LEMMA ServerIInv == IInv /\ (ServerCloses \/ ServerNotifies \/ ReadFails) => IInv'
<1> SUFFICES ASSUME IInv, ServerCloses \/ ServerNotifies \/ ReadFails PROVE IInv'
  OBVIOUS
<1> USE DEF IInv, ServerCloses, ServerNotifies, ReadFails, Elsewhere, mainVars,
        callbackVars
<1>1. TypeOK'
  BY ClientAssumption DEF TypeOK
<1>2. Spawned' /\ ReadFollowsTag'
  BY DEF TypeOK, Spawned, ReadFollowsTag
<1>3. NoOverlappedRead'
  BY DEF TypeOK, ReadFollowsTag, NoOverlappedRead
<1>4. UnsentUntouched'
  BY ClientAssumption DEF TypeOK, UnsentUntouched, HandledOnce
<1>5. ReportedMeansDone'
  BY ClientAssumption DEF TypeOK, UnsentUntouched, HandledOnce, ReportedMeansDone
<1>6. HandledOnce'
  BY ClientAssumption DEF TypeOK, UnsentUntouched, HandledOnce, ReportedMeansDone, Spawned
<1>7. FailureMeansEnded'
  BY DEF TypeOK, FailureMeansEnded
<1>8. ForgottenOnlyAtEnd'
  BY ClientAssumption DEF TypeOK, UnsentUntouched, HandledOnce, FailureMeansEnded,
     ForgottenOnlyAtEnd, Forgotten
<1> QED
  BY <1>1, <1>2, <1>3, <1>4, <1>5, <1>6, <1>7, <1>8

\* A Write completes as the stream's state says.
LEMMA WriteCompletesIInv ==
  ASSUME IInv, NEW r \in Requests, WriteCompletes(r)
  PROVE  IInv'
<1> USE DEF IInv, WriteCompletes, Elsewhere, mainVars, callbackVars
<1>1. TypeOK'
  BY ClientAssumption DEF TypeOK
<1>2. Spawned' /\ ReadFollowsTag'
  BY DEF TypeOK, Spawned, ReadFollowsTag
<1>3. NoOverlappedRead'
  BY DEF TypeOK, ReadFollowsTag, NoOverlappedRead
<1>4. UnsentUntouched'
  BY ClientAssumption DEF TypeOK, UnsentUntouched, HandledOnce
<1>5. ReportedMeansDone'
  BY ClientAssumption DEF TypeOK, UnsentUntouched, HandledOnce, ReportedMeansDone
<1>6. HandledOnce'
  BY ClientAssumption DEF TypeOK, UnsentUntouched, HandledOnce, ReportedMeansDone, Spawned
<1>7. FailureMeansEnded'
  BY DEF TypeOK, FailureMeansEnded
<1>8. ForgottenOnlyAtEnd'
  BY ClientAssumption DEF TypeOK, UnsentUntouched, HandledOnce, FailureMeansEnded,
     ForgottenOnlyAtEnd, Forgotten
<1> QED
  BY <1>1, <1>2, <1>3, <1>4, <1>5, <1>6, <1>7, <1>8

-----------------------------------------------------------------------------
(***************************************************************************)
(* The theorems.                                                           *)
(***************************************************************************)
\* Steps that change nothing keep the invariant.
LEMMA StutterIInv == IInv /\ UNCHANGED vars => IInv'
<1> SUFFICES ASSUME IInv, UNCHANGED vars PROVE IInv'
  OBVIOUS
<1> USE DEF vars, mainVars, callbackVars, grpcVars
<1> QED
  BY DEF IInv, TypeOK, Spawned, ReadFollowsTag, NoOverlappedRead, UnsentUntouched,
     ReportedMeansDone, HandledOnce, FailureMeansEnded, ForgottenOnlyAtEnd, Forgotten

\* Every step keeps the invariant.
LEMMA NextIInv == IInv /\ [Next]_vars => IInv'
<1> SUFFICES ASSUME IInv, [Next]_vars PROVE IInv'
  OBVIOUS
<1>1. CASE MainStep
  BY <1>1, RunIInv, LoopIInv, RefusedIInv, WriteIInv, StopIInv, LeaveIInv DEF MainStep
<1>2. CASE Signal \/ SignalAfterReset
  BY <1>2, StopIInv, LeaveIInv
<1>3. CASE CallbackStep
  BY <1>3, CheckIInv, NextReadIInv, NextWriteIInv, HandleReadIInv, HandleSentIInv,
     HandleClosedIInv DEF CallbackStep
<1>4. CASE ServerCloses \/ ServerNotifies \/ TransportStep
  BY <1>4, ServerIInv, WriteCompletesIInv DEF TransportStep
<1>5. CASE Terminated \/ UNCHANGED vars
  BY <1>5, StutterIInv DEF Terminated
<1> QED
  BY <1>1, <1>2, <1>3, <1>4, <1>5 DEF Next

\* The invariant holds in every state of every run.
LEMMA InductiveInvariant == Spec => []IInv
  BY InitIInv, NextIInv, PTL DEF Spec

\* Every variable has a value the code can give it, for any number of requests.
THEOREM TypeCorrect == Spec => []TypeOK
<1>1. IInv => TypeOK
  BY DEF IInv
<1> QED
  BY <1>1, InductiveInvariant, PTL

\* The client never has two Reads under way, however its two threads and the
\* signal handler interleave.
THEOREM OneReadAtATime == Spec => []NoOverlappedRead
<1>1. IInv => NoOverlappedRead
  BY DEF IInv
<1> QED
  BY <1>1, InductiveInvariant, PTL

\* Whenever the callback thread waits in Next there is a Read that a notification
\* completes and that a cancel fails.
THEOREM WaitsWithReadUnderWay == Spec => []ReadUnderWay
<1>1. IInv => ReadUnderWay
  BY DEF IInv, ReadFollowsTag, ReadUnderWay
<1> QED
  BY <1>1, InductiveInvariant, PTL

\* A request is reported, and its context freed, only when gRPC is done with it.
THEOREM ReportsOnlyWhatIsDone == Spec => []ReportedMeansDone
<1>1. IInv => ReportedMeansDone
  BY DEF IInv
<1> QED
  BY <1>1, InductiveInvariant, PTL

\* The only tag that is taken and not reported is the last one, of a Write that
\* failed on an ended stream.
THEOREM ForgetsOnlyLastTag == Spec => []ForgottenOnlyAtEnd
<1>1. IInv => ForgottenOnlyAtEnd
  BY DEF IInv
<1> QED
  BY <1>1, InductiveInvariant, PTL
=============================================================================
