---------------------------- MODULE InventoryProofs ----------------------------
(***************************************************************************)
(* Proofs about Inventory for any number of producers and consumers and    *)
(* any limit: the bound on the inventory and print_inventory's EXPECT_EQ.  *)
(***************************************************************************)
EXTENDS Inventory, TLAPS

Types ==
  /\ lk \in SUBSET Threads
  /\ inventory \in Int
  /\ last \in Int
  /\ pc \in [Threads -> {"test", "wait", "change", "print", "unlock", "stopped"}]

\* A thread between the return of its wait and Unlock holds the mutex alone.
MutexHeld ==
  \A t \in Threads : pc[t] \in {"change", "print", "unlock"} => lk = {t}

\* The condition a thread waited for still holds when it makes its change.
ConditionStands == \A t \in Threads : pc[t] = "change" => Condition(t)

\* Outside the step between a change and its print, last is up to date.
LastUpToDate == (\A t \in Threads : pc[t] # "print") => last = inventory

IInv == /\ Types
        /\ MutexHeld
        /\ ConditionStands
        /\ LastUpToDate
        /\ InventoryInRange
        /\ ChangesPrintedOneByOne

LEMMA InitIInv == Init => IInv
  BY InventoryAssumption
  DEF Init, IInv, Types, MutexHeld, ConditionStands, LastUpToDate,
      InventoryInRange, ChangesPrintedOneByOne

\* While t is past its wait every other thread is not.
LEMMA Alone ==
  ASSUME IInv, NEW t \in Threads, pc[t] \in {"change", "print", "unlock"},
         NEW u \in Threads, u # t
  PROVE  pc[u] \notin {"change", "print", "unlock"}
  BY DEF IInv, MutexHeld

\* While the mutex is free no thread is past its wait.
LEMMA Free ==
  ASSUME IInv, lk = {}, NEW t \in Threads
  PROVE  pc[t] \notin {"change", "print", "unlock"}
  BY DEF IInv, MutexHeld

LEMMA NextIInv == IInv /\ [Next]_vars => IInv'
<1> SUFFICES ASSUME IInv, [Next]_vars PROVE IInv'
  OBVIOUS
<1> USE DEF At
<1>1. ASSUME NEW t \in Threads, Test(t) PROVE IInv'
  BY <1>1 DEF Test, IInv, Types, MutexHeld, ConditionStands, LastUpToDate,
     InventoryInRange, ChangesPrintedOneByOne, Condition
<1>2. ASSUME NEW t \in Threads, LockWhen(t) PROVE IInv'
  <2>1. \A u \in Threads : pc[u] \notin {"change", "print", "unlock"}
    BY <1>2, Free DEF LockWhen
  <2> QED
    BY <1>2, <2>1 DEF LockWhen, IInv, Types, MutexHeld, ConditionStands,
       LastUpToDate, InventoryInRange, ChangesPrintedOneByOne, Condition
<1>3. ASSUME NEW t \in Threads, Timeout(t) PROVE IInv'
  <2>1. \A u \in Threads : pc[u] \notin {"change", "print", "unlock"}
    BY <1>3, Free DEF Timeout
  <2> QED
    BY <1>3, <2>1 DEF Timeout, IInv, Types, MutexHeld, ConditionStands,
       LastUpToDate, InventoryInRange, ChangesPrintedOneByOne, Condition
<1>4. ASSUME NEW t \in Threads, Change(t) PROVE IInv'
  <2>1. \A u \in Threads \ {t} : pc[u] \notin {"change", "print", "unlock"}
    BY <1>4, Alone DEF Change
  <2>2. Condition(t) /\ last = inventory
    BY <1>4, <2>1 DEF Change, IInv, ConditionStands, LastUpToDate
  <2>3. /\ inventory' \in 0 .. MaxInventory
        /\ inventory' - last' \in {-1, 1}
    BY <1>4, <2>2, InventoryAssumption
    DEF Change, Condition, IInv, Types, InventoryInRange
  <2> QED
    BY <1>4, <2>1, <2>3, InventoryAssumption
    DEF Change, IInv, Types, MutexHeld, ConditionStands, LastUpToDate,
        InventoryInRange, ChangesPrintedOneByOne
<1>5. ASSUME NEW t \in Threads, print_inventory(t) PROVE IInv'
  <2>1. \A u \in Threads \ {t} : pc[u] \notin {"change", "print", "unlock"}
    BY <1>5, Alone DEF print_inventory
  <2> QED
    BY <1>5, <2>1 DEF print_inventory, IInv, Types, MutexHeld, ConditionStands,
       LastUpToDate, InventoryInRange, ChangesPrintedOneByOne
<1>6. ASSUME NEW t \in Threads, Unlock(t) PROVE IInv'
  <2>1. \A u \in Threads \ {t} : pc[u] \notin {"change", "print", "unlock"}
    BY <1>6, Alone DEF Unlock
  <2> QED
    BY <1>6, <2>1 DEF Unlock, IInv, Types, MutexHeld, ConditionStands,
       LastUpToDate, InventoryInRange, ChangesPrintedOneByOne
<1>7. ASSUME UNCHANGED <<lk, inventory, last, pc>> PROVE IInv'
  BY <1>7 DEF IInv, Types, MutexHeld, ConditionStands, LastUpToDate,
     InventoryInRange, ChangesPrintedOneByOne, Condition
<1> QED
  BY <1>1, <1>2, <1>3, <1>4, <1>5, <1>6, <1>7
  DEF Next, Step, Main, SetStop, Join, StoreArrives, vars

\* The invariant holds in every state of every run.
LEMMA InductiveInvariant == Spec => []IInv
  BY InitIInv, NextIInv, PTL DEF Spec

\* The inventory stays between zero and the limit, for all numbers of threads:
\* the condition a thread was let in for still holds when it changes it.
THEOREM InventoryStaysInRange == Spec => []InventoryInRange
<1>1. IInv => InventoryInRange
  BY DEF IInv
<1> QED
  BY InductiveInvariant, <1>1, PTL

\* Every change is printed before the next one is made, for all numbers of
\* threads: print_inventory runs under the lock of the change it prints.
THEOREM EveryChangePrinted == Spec => []ChangesPrintedOneByOne
<1>1. IInv => ChangesPrintedOneByOne
  BY DEF IInv
<1> QED
  BY InductiveInvariant, <1>1, PTL
================================================================================
