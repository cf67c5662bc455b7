----------------------- MODULE ProducerConsumerProofs -----------------------
(***************************************************************************)
(* Proofs about misc/producer_consumer.cpp for any number of consumers and *)
(* any number of items. The four parts of the invariant are inductive only *)
(* together: that nobody waits while the buffer has items rests on the     *)
(* flag being set exactly then.                                            *)
(***************************************************************************)
EXTENDS ProducerConsumer, TLAPS

IInv == TypeOK /\ FlagMirrorsBuffer /\ NoLostWakeup /\ InOrderOnce

\* Appending to the second of two sequences appends to their concatenation.
LEMMA ConcatAppend ==
  ASSUME NEW S, NEW p \in Seq(S), NEW q \in Seq(S), NEW x \in S
  PROVE  p \o Append(q, x) = Append(p \o q, x)
OBVIOUS

\* Appending the next number continues the sequence 0, 1, 2, ...
LEMMA CountUp ==
  ASSUME NEW n \in Nat
  PROVE  Append([k \in 1 .. n |-> k - 1], n) = [k \in 1 .. n + 1 |-> k - 1]
<1> DEFINE s == [k \in 1 .. n |-> k - 1]
<1>1. s \in Seq(Nat) /\ Len(s) = n
  OBVIOUS
<1>2. Append(s, n) \in Seq(Nat) /\ Len(Append(s, n)) = n + 1
  BY <1>1
<1> QED
  BY <1>1, <1>2

\* Producing sets the flag, leaves nobody waiting and continues the numbers.
LEMMA ProduceIInv == IInv /\ Produce => IInv'
<1> SUFFICES ASSUME IInv, Produce PROVE IInv'
  OBVIOUS
<1> USE DEF IInv, Produce
<1>1. TypeOK'
  BY ProducerConsumerAssumption DEF TypeOK, NotifyAll
<1>2. FlagMirrorsBuffer'
  BY DEF FlagMirrorsBuffer, TypeOK
<1>3. NoLostWakeup'
  BY DEF NoLostWakeup, NotifyAll, TypeOK
<1>4. InOrderOnce'
  <2>1. consumed' \o buffer' = Append(consumed \o buffer, i)
    BY ConcatAppend DEF TypeOK
  <2> QED
    BY <2>1, CountUp DEF InOrderOnce, TypeOK
<1> QED
  BY <1>1, <1>2, <1>3, <1>4

\* A consumer waits only when the flag, and so the buffer, says there is nothing.
LEMMA TestIInv ==
  ASSUME IInv, NEW c \in Consumers, Test(c) \/ SpuriousWakeup(c)
  PROVE  IInv'
<1>1. TypeOK'
  BY DEF IInv, TypeOK, Test, SpuriousWakeup
<1>2. NoLostWakeup'
  BY DEF IInv, TypeOK, FlagMirrorsBuffer, NoLostWakeup, Test, SpuriousWakeup
<1>3. FlagMirrorsBuffer' /\ InOrderOnce'
  BY DEF IInv, FlagMirrorsBuffer, InOrderOnce, Test, SpuriousWakeup
<1> QED
  BY <1>1, <1>2, <1>3 DEF IInv

\* Emptying the buffer and clearing the flag go together, however stale the test.
LEMMA DrainIInv ==
  ASSUME IInv, NEW c \in Consumers, Drain(c)
  PROVE  IInv'
<1> USE DEF IInv, Drain
<1>1. TypeOK'
  <2>1. consumed' \in Seq(Nat) /\ buffer' \in Seq(Nat)
    BY DEF TypeOK
  <2>2. notified' \in BOOLEAN /\ pc' \in [Consumers -> {"lock", "wait", "sleep"}]
    BY DEF TypeOK
  <2> QED
    BY <2>1, <2>2 DEF TypeOK
<1>2. FlagMirrorsBuffer' /\ NoLostWakeup'
  BY DEF FlagMirrorsBuffer, NoLostWakeup
<1>3. InOrderOnce'
  BY DEF InOrderOnce, TypeOK
<1> QED
  BY <1>1, <1>2, <1>3

\* The invariant holds in every state of every run.
THEOREM InductiveInvariant == Spec => []IInv
<1>1. Init => IInv
  <2> SUFFICES ASSUME Init PROVE IInv
    OBVIOUS
  <2>1. <<>> \in Seq(Nat) /\ 0 \in 0 .. MaxItems
    BY ProducerConsumerAssumption
  <2>2. TypeOK
    BY <2>1 DEF Init, TypeOK
  <2>3. FlagMirrorsBuffer /\ NoLostWakeup
    BY DEF Init, FlagMirrorsBuffer, NoLostWakeup
  <2>4. <<>> \o <<>> = [n \in 1 .. 0 |-> n - 1]
    OBVIOUS
  <2> QED
    BY <2>2, <2>3, <2>4 DEF Init, IInv, InOrderOnce
<1>2. IInv /\ [Next]_vars => IInv'
  <2> SUFFICES ASSUME IInv, [Next]_vars PROVE IInv'
    OBVIOUS
  <2>1. CASE UNCHANGED vars
    BY <2>1 DEF vars, IInv, TypeOK, FlagMirrorsBuffer, NoLostWakeup, InOrderOnce
  <2> QED
    BY <2>1, ProduceIInv, TestIInv, DrainIInv DEF Next, Consume
<1> QED
  BY <1>1, <1>2, PTL DEF Spec

\* The flag the consumers wait for says whether the buffer has an item, also
\* when a consumer drains it on a test that is out of date.
THEOREM FlagIsExact == Spec => []FlagMirrorsBuffer
<1>1. IInv => FlagMirrorsBuffer
  BY DEF IInv
<1> QED
  BY <1>1, InductiveInvariant, PTL

\* No consumer waits on the condition variable while the buffer has an item.
THEOREM NeverLosesWakeup == Spec => []NoLostWakeup
<1>1. IInv => NoLostWakeup
  BY DEF IInv
<1> QED
  BY <1>1, InductiveInvariant, PTL

\* What is consumed is what was produced, in order and without repetition.
THEOREM ConsumesInOrder == Spec => []InOrderOnce
<1>1. IInv => InOrderOnce
  BY DEF IInv
<1> QED
  BY <1>1, InductiveInvariant, PTL
=============================================================================
