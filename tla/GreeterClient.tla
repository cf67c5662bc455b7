---------------------------- MODULE GreeterClient ----------------------------
(***************************************************************************)
(* The asynchronous client with callbacks (grpcdemo/client_async2.cpp):    *)
(* the main thread sends requests, a callback thread takes tags from cq_,  *)
(* and stop() runs either in the destructor or in the signal handler, on   *)
(* top of the main thread.                                                 *)
(*                                                                         *)
(* The tag nullptr belongs to the start of the stream and to every Read    *)
(* after it; each Write has the RequestContext of its request as its tag.  *)
(* A request is named by the number of the loop iteration that sends it.   *)
(***************************************************************************)
EXTENDS Naturals

CONSTANT MaxSends  \* bound: iterations of main's loop, 100 in the code

ASSUME ClientAssumption == MaxSends \in Nat

VARIABLES
  running,      \* running_
  g_running,
  i,            \* the loop counter of main
  main_pc,      \* main
  stop_pc,      \* stop(), on top of the main thread
  callback_pc,  \* the callback thread
  got,          \* the tag and ok of the callback thread's last Next
  read,         \* the operation with the tag nullptr
  write,        \* the Write of each request
  result,       \* what the callback of each request was called with
  call,         \* the stream, as gRPC knows it
  shut,         \* whether cq_ was shut down
  fault         \* the contract the process broke, or "none"

mainVars     == <<g_running, i, main_pc>>
callbackVars == <<callback_pc, got>>
grpcVars     == <<read, write, call, shut>>
vars == <<running, mainVars, stop_pc, callbackVars, grpcVars, result, fault>>

Requests == 0 .. MaxSends - 1
Null     == MaxSends  \* nullptr: no request has this number

OpStates == {"idle", "pending", "ok", "fail"}
\* overlapRead, overlapWrite: a Read or a Write while another is under way
\* shutQueue: an operation started after cq_.Shutdown()
\* undrained: cq_ destroyed with completions nobody took
\* dangling:  stop() through g_client after the client was destroyed
Faults == {"none", "overlapRead", "overlapWrite", "shutQueue", "undrained",
           "dangling"}

Init ==
  /\ running = FALSE
  /\ g_running = FALSE
  /\ i = 0
  /\ main_pc = "run"
  /\ stop_pc = "idle"
  /\ callback_pc = "unborn"
  /\ got = [tag |-> Null, ok |-> FALSE]
  /\ read = "idle"
  /\ write = [r \in Requests |-> "idle"]
  /\ result = [r \in Requests |-> "none"]
  /\ call = "open"
  /\ shut = FALSE
  /\ fault = "none"

Over == main_pc = "exited" \/ fault # "none"

\* Main goes on when no stop() runs on top of it.
MainRuns == ~Over /\ stop_pc = "idle"

-----------------------------------------------------------------------------
(***************************************************************************)
(* run(), and the flag main sets behind it.                                *)
(***************************************************************************)
RunEnter ==
  /\ MainRuns
  /\ main_pc = "run"
  /\ running' = TRUE
  /\ main_pc' = "stream"
  /\ UNCHANGED <<g_running, i, stop_pc, callbackVars, grpcVars, result, fault>>

\* A stop() since line 27 has already shut cq_ down.
RunStream ==
  /\ MainRuns
  /\ main_pc = "stream"
  /\ read' = "pending"
  /\ fault' = IF shut THEN "shutQueue" ELSE fault
  /\ main_pc' = "spawn"
  /\ UNCHANGED <<running, g_running, i, stop_pc, callbackVars, write, call, shut,
                 result>>

RunThread ==
  /\ MainRuns
  /\ main_pc = "spawn"
  /\ callback_pc' = "check"
  /\ main_pc' = "flag"
  /\ UNCHANGED <<running, g_running, i, stop_pc, got, grpcVars, result, fault>>

MainFlag ==
  /\ MainRuns
  /\ main_pc = "flag"
  /\ g_running' = TRUE
  /\ main_pc' = "loop"
  /\ UNCHANGED <<running, i, stop_pc, callbackVars, grpcVars, result, fault>>

-----------------------------------------------------------------------------
(***************************************************************************)
(* The loop of main and sendRequest.                                       *)
(***************************************************************************)
\* Mutant: one iteration too many.
LongMainLoop ==
  /\ MainRuns
  /\ main_pc = "loop"
  /\ main_pc' = IF i <= MaxSends /\ g_running THEN "sleep" ELSE "destroy"
  /\ UNCHANGED <<running, g_running, i, stop_pc, callbackVars, grpcVars, result,
                 fault>>

MainLoop ==
  /\ MainRuns
  /\ main_pc = "loop"
  /\ main_pc' = IF i < MaxSends /\ g_running THEN "sleep" ELSE "destroy"
  /\ UNCHANGED <<running, g_running, i, stop_pc, callbackVars, grpcVars, result,
                 fault>>

MainWake ==
  /\ MainRuns
  /\ main_pc = "sleep"
  /\ main_pc' = IF g_running THEN "send" ELSE "destroy"
  /\ UNCHANGED <<running, g_running, i, stop_pc, callbackVars, grpcVars, result,
                 fault>>

\* Mutant: the return after cb(-2) is missing.
ThroughSendRefused ==
  /\ MainRuns
  /\ main_pc = "send"
  /\ ~running
  /\ result' = [result EXCEPT ![i] = "refused"]
  /\ main_pc' = "write"
  /\ UNCHANGED <<running, g_running, i, stop_pc, callbackVars, grpcVars, fault>>

SendRefused ==
  /\ MainRuns
  /\ main_pc = "send"
  /\ ~running
  /\ result' = [result EXCEPT ![i] = "refused"]
  /\ i' = i + 1
  /\ main_pc' = "loop"
  /\ UNCHANGED <<running, g_running, stop_pc, callbackVars, grpcVars, fault>>

SendChecked ==
  /\ MainRuns
  /\ main_pc = "send"
  /\ running
  /\ main_pc' = "write"
  /\ UNCHANGED <<running, g_running, i, stop_pc, callbackVars, grpcVars, result,
                 fault>>

\* running_ may have changed since it was tested.
SendWrite ==
  /\ MainRuns
  /\ main_pc = "write"
  /\ write' = [write EXCEPT ![i] = "pending"]
  /\ fault' = IF shut THEN "shutQueue"
              ELSE IF \E r \in Requests : write[r] # "idle" THEN "overlapWrite"
              ELSE fault
  /\ i' = i + 1
  /\ main_pc' = "loop"
  /\ UNCHANGED <<running, g_running, stop_pc, callbackVars, read, call, shut,
                 result>>

-----------------------------------------------------------------------------
(***************************************************************************)
(* stop(), from the destructor and from the signal handler.                *)
(***************************************************************************)
\* The test and the assignment of running_ at the head of stop().
StopEnter ==
  \/ /\ running
     /\ running' = FALSE
     /\ stop_pc' = "cancel"
  \/ /\ ~running
     /\ UNCHANGED <<running, stop_pc>>

MainDestroy ==
  /\ MainRuns
  /\ main_pc = "destroy"
  /\ StopEnter
  /\ main_pc' = "members"
  /\ UNCHANGED <<g_running, i, callbackVars, grpcVars, result, fault>>

\* The signal handler, while g_client points to the client.
Signal ==
  /\ ~Over
  /\ main_pc \notin {"run", "destroyed"}
  /\ g_running' = FALSE
  /\ IF stop_pc = "idle" THEN StopEnter ELSE UNCHANGED <<running, stop_pc>>
  /\ UNCHANGED <<i, main_pc, callbackVars, grpcVars, result, fault>>

\* g_client is never cleared: a signal after client.reset() uses a freed object.
SignalAfterReset ==
  /\ ~Over
  /\ main_pc = "destroyed"
  /\ fault' = "dangling"
  /\ UNCHANGED <<running, mainVars, stop_pc, callbackVars, grpcVars, result>>

\* Mutant: the stream is not cancelled.
KeepingStopCancel ==
  /\ ~Over
  /\ stop_pc = "cancel"
  /\ stop_pc' = "shutdown"
  /\ UNCHANGED <<running, mainVars, callbackVars, grpcVars, result, fault>>

StopCancel ==
  /\ ~Over
  /\ stop_pc = "cancel"
  /\ call' = "ended"
  /\ stop_pc' = "shutdown"
  /\ UNCHANGED <<running, mainVars, callbackVars, read, write, shut, result, fault>>

StopShutdown ==
  /\ ~Over
  /\ stop_pc = "shutdown"
  /\ shut' = TRUE
  /\ stop_pc' = "join"
  /\ UNCHANGED <<running, mainVars, callbackVars, read, write, call, result, fault>>

StopJoin ==
  /\ ~Over
  /\ stop_pc = "join"
  /\ callback_pc \in {"unborn", "done"}
  /\ stop_pc' = "idle"
  /\ UNCHANGED <<running, mainVars, callbackVars, grpcVars, result, fault>>

Completed(o) == o \in {"ok", "fail"}

\* The members go: thread_ joins, cq_ must be empty.
MainMembers ==
  /\ MainRuns
  /\ main_pc = "members"
  /\ callback_pc = "done"
  /\ fault' = IF Completed(read) \/ \E r \in Requests : Completed(write[r])
              THEN "undrained" ELSE fault
  /\ main_pc' = "destroyed"
  /\ UNCHANGED <<running, g_running, i, stop_pc, callbackVars, grpcVars, result>>

MainReturn ==
  /\ MainRuns
  /\ main_pc = "destroyed"
  /\ main_pc' = "exited"
  /\ UNCHANGED <<running, g_running, i, stop_pc, callbackVars, grpcVars, result,
                 fault>>

MainStep ==
  \/ RunEnter \/ RunStream \/ RunThread \/ MainFlag
  \/ MainLoop \/ MainWake
  \/ SendRefused \/ SendChecked \/ SendWrite
  \/ MainDestroy \/ MainMembers \/ MainReturn
  \/ StopCancel \/ StopShutdown \/ StopJoin

-----------------------------------------------------------------------------
(***************************************************************************)
(* The callback thread.                                                    *)
(***************************************************************************)
CallbackOnly == ~Over /\ UNCHANGED <<mainVars, stop_pc>>

CallbackCheck ==
  /\ callback_pc = "check"
  /\ callback_pc' = IF running THEN "next" ELSE "clear"
  /\ UNCHANGED <<running, got, grpcVars, result, fault>>
  /\ CallbackOnly

\* Next returns false only on a queue that is shut down with nothing under way;
\* ReadUnderWay says that this is never the case here, so the break of line 42
\* is not taken and has no action.
CallbackNextRead ==
  /\ callback_pc = "next"
  /\ Completed(read)
  /\ got' = [tag |-> Null, ok |-> read = "ok"]
  /\ read' = "idle"
  /\ callback_pc' = "handle"
  /\ UNCHANGED <<running, write, call, shut, result, fault>>
  /\ CallbackOnly

CallbackNextWrite(r) ==
  /\ callback_pc = "next"
  /\ Completed(write[r])
  /\ got' = [tag |-> r, ok |-> write[r] = "ok"]
  /\ write' = [write EXCEPT ![r] = "idle"]
  /\ callback_pc' = "handle"
  /\ UNCHANGED <<running, read, call, shut, result, fault>>
  /\ CallbackOnly

\* ok is false: the loop ends before it looks at the tag.
HandleClosed ==
  /\ callback_pc = "handle"
  /\ ~got.ok
  /\ callback_pc' = "clear"
  /\ UNCHANGED <<running, got, grpcVars, result, fault>>
  /\ CallbackOnly

\* Mutant: a notification is not followed by the next Read.
DeafHandleNotify ==
  /\ callback_pc = "handle"
  /\ got.ok /\ got.tag = Null
  /\ callback_pc' = "check"
  /\ UNCHANGED <<running, got, grpcVars, result, fault>>
  /\ CallbackOnly

\* nullptr: the stream is ready, or a notification came; read the next one.
HandleNotify ==
  /\ callback_pc = "handle"
  /\ got.ok /\ got.tag = Null
  /\ read' = "pending"
  /\ fault' = IF shut THEN "shutQueue"
              ELSE IF read # "idle" THEN "overlapRead" ELSE fault
  /\ callback_pc' = "check"
  /\ UNCHANGED <<running, got, write, call, shut, result>>
  /\ CallbackOnly

\* Mutant: every successful event reads the next notification.
ReadingHandleSent ==
  /\ callback_pc = "handle"
  /\ got.ok /\ got.tag # Null
  /\ result' = [result EXCEPT ![got.tag] = "sent"]
  /\ read' = "pending"
  /\ fault' = IF shut THEN "shutQueue"
              ELSE IF read # "idle" THEN "overlapRead" ELSE fault
  /\ callback_pc' = "check"
  /\ UNCHANGED <<running, got, write, call, shut>>
  /\ CallbackOnly

\* Mutant: the callback is not called while the client stops.
QuietHandleSent ==
  /\ callback_pc = "handle"
  /\ got.ok /\ got.tag # Null
  /\ result' = [result EXCEPT ![got.tag] = IF running THEN "sent" ELSE @]
  /\ callback_pc' = "check"
  /\ UNCHANGED <<running, got, grpcVars, fault>>
  /\ CallbackOnly

\* The tag is a request's context: its callback is called and it is freed.
HandleSent ==
  /\ callback_pc = "handle"
  /\ got.ok /\ got.tag # Null
  /\ result' = [result EXCEPT ![got.tag] = "sent"]
  /\ callback_pc' = "check"
  /\ UNCHANGED <<running, got, grpcVars, fault>>
  /\ CallbackOnly

CallbackEnd ==
  /\ callback_pc = "clear"
  /\ running' = FALSE
  /\ callback_pc' = "done"
  /\ UNCHANGED <<got, grpcVars, result, fault>>
  /\ CallbackOnly

CallbackStep ==
  \/ CallbackCheck \/ CallbackNextRead
  \/ \E r \in Requests : CallbackNextWrite(r)
  \/ HandleClosed \/ HandleNotify \/ HandleSent
  \/ CallbackEnd

-----------------------------------------------------------------------------
(***************************************************************************)
(* gRPC and the server.                                                    *)
(***************************************************************************)
Elsewhere ==
  ~Over /\ UNCHANGED <<running, mainVars, stop_pc, callbackVars, shut, result, fault>>

\* The server ends the stream, or could not be reached.
ServerCloses ==
  /\ main_pc \notin {"run", "stream"}
  /\ call = "open"
  /\ call' = "ended"
  /\ UNCHANGED <<read, write>>
  /\ Elsewhere

\* The stream is ready, or a notification came.
ServerNotifies ==
  /\ call = "open"
  /\ read = "pending"
  /\ read' = "ok"
  /\ UNCHANGED <<write, call>>
  /\ Elsewhere

ReadFails ==
  /\ call = "ended"
  /\ read = "pending"
  /\ read' = "fail"
  /\ UNCHANGED <<write, call>>
  /\ Elsewhere

WriteCompletes(r) ==
  /\ write[r] = "pending"
  /\ write' = [write EXCEPT ![r] = IF call = "open" THEN "ok" ELSE "fail"]
  /\ UNCHANGED <<read, call>>
  /\ Elsewhere

TransportStep == ReadFails \/ \E r \in Requests : WriteCompletes(r)

Terminated == Over /\ UNCHANGED vars

Next ==
  \/ MainStep
  \/ Signal
  \/ SignalAfterReset
  \/ CallbackStep
  \/ ServerCloses
  \/ ServerNotifies
  \/ TransportStep
  \/ Terminated

Spec == Init /\ [][Next]_vars

-----------------------------------------------------------------------------
(***************************************************************************)
(* Properties.                                                             *)
(***************************************************************************)
\* Every variable has a value the code can give it; in particular the loop
\* never gets past its last iteration.
TypeOK ==
  /\ running \in BOOLEAN
  /\ g_running \in BOOLEAN
  /\ i \in 0 .. MaxSends
  /\ main_pc \in {"run", "stream", "spawn", "flag", "loop", "sleep", "send",
                  "write", "destroy", "members", "destroyed", "exited"}
  /\ main_pc \in {"sleep", "send", "write"} => i < MaxSends
  /\ stop_pc \in {"idle", "cancel", "shutdown", "join"}
  /\ callback_pc \in {"unborn", "check", "next", "handle", "clear", "done"}
  /\ got \in [tag : Requests \cup {Null}, ok : BOOLEAN]
  /\ read \in OpStates
  /\ write \in [Requests -> OpStates]
  /\ result \in [Requests -> {"none", "sent", "refused"}]
  /\ call \in {"open", "ended"}
  /\ shut \in BOOLEAN
  /\ fault \in Faults

\* Only the handling of the tag nullptr reads again, and the start of the
\* stream uses the same tag: there is never a second Read under way.
NoOverlappedRead == fault # "overlapRead"

\* Whenever the callback thread waits in Next (line 41), the operation with the
\* tag nullptr is under way: a notification is never missed, and the cancel of
\* stop() has something to fail, so that the thread wakes up.
ReadUnderWay == callback_pc = "next" => read # "idle"

\* A request that was reported has no Write under way any more: its context
\* is not freed under gRPC's hands (line 66) and is not reported twice.
ReportedMeansDone ==
  \A r \in Requests : result[r] # "none" => write[r] = "idle"

\* The tag of request r was taken from cq_ and its callback was not called.
Forgotten(r) ==
  /\ r < i
  /\ write[r] = "idle"
  /\ result[r] = "none"
  /\ ~(callback_pc = "handle" /\ got.tag = r)

\* A taken tag whose callback is not called is the last one taken: the stream
\* has ended and the callback thread is leaving its loop. Whatever stop() does
\* meanwhile, a Write that succeeded and was taken is reported.
ForgottenOnlyAtEnd ==
  \A r \in Requests : Forgotten(r) =>
    /\ call = "ended"
    /\ callback_pc \in {"clear", "done"}
    /\ got = [tag |-> r, ok |-> FALSE]

\* What lines 58-67 say: whoever takes a request's tag from cq_ calls its
\* callback, with 0 when it was sent and with -1 when it was not.
EveryTagReported == \A r \in Requests : ~Forgotten(r)

-----------------------------------------------------------------------------
\* Both threads go on, and gRPC completes a Write, and a Read of an ended
\* stream; nothing is assumed of signals and of the server.
Fairness == WF_vars(MainStep) /\ WF_vars(CallbackStep) /\ WF_vars(TransportStep)

LiveSpec == Spec /\ Fairness

\* main returns: no join waits for ever, whether the stream was ended by the
\* server, by stop() in the destructor or by stop() in the signal handler.
ClientExits == <>Over
=============================================================================
