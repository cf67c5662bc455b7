---------------------------- MODULE ResponseFifo ----------------------------
(***************************************************************************)
(* What a session of the asynchronous greeter server promises its client,  *)
(* without tags, completion queues, threads or locks: the responses the    *)
(* session accepts are written in the order in which it accepted them,     *)
(* one at a time, and the writer is never idle while a response waits.     *)
(***************************************************************************)
EXTENDS Naturals, Sequences

CONSTANTS
  Streams,  \* the streams, each with its own responses
  Messages  \* the responses there are

VARIABLES
  accepted,  \* the responses each stream accepted, oldest first
  written,   \* those of them that were handed to the transport
  busy       \* whether the transport has not yet confirmed the last one

fifoVars == <<accepted, written, busy>>

Init ==
  /\ accepted = [s \in Streams |-> <<>>]
  /\ written  = [s \in Streams |-> <<>>]
  /\ busy     = [s \in Streams |-> FALSE]

\* A response that finds the writer idle is written at once.
AcceptAndWrite(s, m) ==
  /\ ~busy[s]
  /\ accepted' = [accepted EXCEPT ![s] = Append(@, m)]
  /\ written'  = [written EXCEPT ![s] = Append(@, m)]
  /\ busy'     = [busy EXCEPT ![s] = TRUE]

\* A response that finds the writer busy waits behind the others.
Accept(s, m) ==
  /\ busy[s]
  /\ accepted' = [accepted EXCEPT ![s] = Append(@, m)]
  /\ UNCHANGED <<written, busy>>

\* The transport confirms, and the oldest waiting response is written.
WriteNext(s) ==
  /\ busy[s]
  /\ Len(written[s]) < Len(accepted[s])
  /\ written' = [written EXCEPT ![s] =
                   Append(@, accepted[s][Len(written[s]) + 1])]
  /\ UNCHANGED <<accepted, busy>>

\* The transport confirms, and nothing waits.
GoIdle(s) ==
  /\ busy[s]
  /\ written[s] = accepted[s]
  /\ busy' = [busy EXCEPT ![s] = FALSE]
  /\ UNCHANGED <<accepted, written>>

Next ==
  \E s \in Streams :
    \/ \E m \in Messages : AcceptAndWrite(s, m) \/ Accept(s, m)
    \/ WriteNext(s)
    \/ GoIdle(s)

Spec == Init /\ [][Next]_fifoVars
=============================================================================
