-------------------------- MODULE ProducerConsumer --------------------------
(***************************************************************************)
(* misc/producer_consumer.cpp: a producer and several consumers share a    *)
(* buffer, a flag notified and a condition variable. A consumer leaves the *)
(* lock for a second between seeing the flag and emptying the buffer.      *)
(*                                                                         *)
(* Everything the threads share is touched under mtx, so a critical        *)
(* section is one step; cv.wait gives mtx up and is left either by         *)
(* notify_all or spuriously.                                               *)
(***************************************************************************)
EXTENDS Naturals, Sequences

CONSTANTS
  Consumers,  \* the consumer threads, two in the code
  MaxItems    \* bound: how many items the producer makes

ASSUME ProducerConsumerAssumption ==
  /\ Consumers # {}
  /\ MaxItems \in Nat

VARIABLES
  buffer,    \* the queue of produced numbers
  notified,
  i,         \* the producer's counter
  pc,        \* where each consumer is
  consumed   \* the numbers consumed so far, in the order of consumption

vars == <<buffer, notified, i, pc, consumed>>

Init ==
  /\ buffer = <<>>
  /\ notified = FALSE
  /\ i = 0
  /\ pc = [c \in Consumers |-> "lock"]
  /\ consumed = <<>>

\* cv.notify_all(): whoever waits must take the lock and look again.
NotifyAll == [c \in Consumers |-> IF pc[c] = "wait" THEN "lock" ELSE pc[c]]

\* Mutant: the waiting consumers are not woken.
SilentProduce ==
  /\ i < MaxItems
  /\ buffer' = Append(buffer, i)
  /\ notified' = TRUE
  /\ i' = i + 1
  /\ UNCHANGED <<pc, consumed>>

Produce ==
  /\ i < MaxItems
  /\ buffer' = Append(buffer, i)
  /\ notified' = TRUE
  /\ pc' = NotifyAll
  /\ i' = i + 1
  /\ UNCHANGED consumed

\* The consumer has the lock and tests notified: it sleeps, or it waits.
Test(c) ==
  /\ pc[c] = "lock"
  /\ pc' = [pc EXCEPT ![c] = IF notified THEN "sleep" ELSE "wait"]
  /\ UNCHANGED <<buffer, notified, i, consumed>>

SpuriousWakeup(c) ==
  /\ pc[c] = "wait"
  /\ pc' = [pc EXCEPT ![c] = "lock"]
  /\ UNCHANGED <<buffer, notified, i, consumed>>

\* Mutant: one item is taken per round, as if the inner while were an if.
OneDrain(c) ==
  /\ pc[c] = "sleep"
  /\ buffer' = IF buffer = <<>> THEN <<>> ELSE Tail(buffer)
  /\ consumed' = IF buffer = <<>> THEN consumed ELSE Append(consumed, Head(buffer))
  /\ notified' = FALSE
  /\ pc' = [pc EXCEPT ![c] = "lock"]
  /\ UNCHANGED i

\* Mutant: the flag stays set.
UnclearedDrain(c) ==
  /\ pc[c] = "sleep"
  /\ consumed' = consumed \o buffer
  /\ buffer' = <<>>
  /\ pc' = [pc EXCEPT ![c] = "lock"]
  /\ UNCHANGED <<notified, i>>

\* Mutant: front() without pop().
PeekingDrain(c) ==
  /\ pc[c] = "sleep"
  /\ consumed' = consumed \o buffer
  /\ notified' = FALSE
  /\ pc' = [pc EXCEPT ![c] = "lock"]
  /\ UNCHANGED <<buffer, i>>

\* After its sleep the consumer takes the lock again and empties the buffer,
\* which another consumer may have emptied before it.
Drain(c) ==
  /\ pc[c] = "sleep"
  /\ consumed' = consumed \o buffer
  /\ buffer' = <<>>
  /\ notified' = FALSE
  /\ pc' = [pc EXCEPT ![c] = "lock"]
  /\ UNCHANGED i

Consume(c) == Test(c) \/ Drain(c)

Next == Produce \/ \E c \in Consumers : Consume(c) \/ SpuriousWakeup(c)

Spec == Init /\ [][Next]_vars

-----------------------------------------------------------------------------
\* The counter, the flag and both sequences keep their types.
TypeOK ==
  /\ i \in 0 .. MaxItems
  /\ buffer \in Seq(Nat)
  /\ consumed \in Seq(Nat)
  /\ notified \in BOOLEAN
  /\ pc \in [Consumers -> {"lock", "wait", "sleep"}]

\* The flag says whether the buffer has items, although a consumer clears it a
\* second after it tested it (lines 30-40): a stale test makes no consumer
\* clear the flag over an item, and none spins on an empty buffer.
FlagMirrorsBuffer == notified <=> buffer # <<>>

\* No consumer sits in cv.wait while there is an item: the wakeup is neither
\* lost before the wait nor taken away by the other consumer.
NoLostWakeup == buffer # <<>> => \A c \in Consumers : pc[c] # "wait"

\* Every item is consumed at most once, in the order of production, and is in
\* the buffer until it is.
InOrderOnce == consumed \o buffer = [n \in 1 .. i |-> n - 1]

-----------------------------------------------------------------------------
\* The scheduler runs every consumer; the producer may pause for ever.
Fairness == \A c \in Consumers : WF_vars(Consume(c))

LiveSpec == Spec /\ Fairness

\* Every item is consumed in the end, even if the producer makes no other.
EveryItemConsumed ==
  \A n \in 1 .. MaxItems : i >= n ~> Len(consumed) >= n
=============================================================================
