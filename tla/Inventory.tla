------------------------------ MODULE Inventory ------------------------------
(***************************************************************************)
(* abseil/abseil_sync.cpp, TEST(sync, lock_unlock): producers and          *)
(* consumers change one inventory inside conditional critical sections     *)
(* that give up waiting after a second. The test's thread sets a plain     *)
(* bool after three seconds and joins them all.                            *)
(***************************************************************************)
EXTENDS Integers

CONSTANTS
  Producers, Consumers,  \* the threads, ten and three in the code
  MaxInventory           \* what the producers' condition allows, 30

ASSUME InventoryAssumption ==
  /\ Producers \cap Consumers = {}
  /\ MaxInventory \in Nat \ {0}

Threads == Producers \cup Consumers

VARIABLES
  lk,         \* the threads that hold the mutex: none or one
  inventory,
  last,       \* print_inventory's static
  stop,       \* what the test's thread stored
  seen,       \* what each thread's unsynchronised loads of stop return
  pc,
  main        \* the test's thread: "sleep", then one join loop per vector

vars == <<lk, inventory, last, stop, seen, pc, main>>

Init ==
  /\ lk = {}
  /\ inventory = 0
  /\ last = 0
  /\ stop = FALSE
  /\ seen = [t \in Threads |-> FALSE]
  /\ pc = [t \in Threads |-> "test"]
  /\ main = "sleep"

At(t, from, to) == pc[t] = from /\ pc' = [pc EXCEPT ![t] = to]

Test(t) ==
  /\ At(t, "test", IF seen[t] THEN "stopped" ELSE "wait")
  /\ UNCHANGED <<lk, inventory, last, stop, seen, main>>

\* The data race on stop: a thread may go on reading false for a while.
StoreArrives(t) ==
  /\ stop /\ ~seen[t]
  /\ seen' = [seen EXCEPT ![t] = TRUE]
  /\ UNCHANGED <<lk, inventory, last, stop, pc, main>>

Condition(t) == IF t \in Producers THEN inventory < MaxInventory
                                   ELSE inventory > 0

LockWhen(t) ==
  /\ lk = {}
  /\ Condition(t)
  /\ At(t, "wait", "change")
  /\ lk' = {t}
  /\ UNCHANGED <<inventory, last, stop, seen, main>>

\* Mutant: the result of the wait is not tested.
BlindTimeout(t) ==
  /\ lk = {}
  /\ ~Condition(t)
  /\ At(t, "wait", "change")
  /\ lk' = {t}
  /\ UNCHANGED <<inventory, last, stop, seen, main>>

\* Mutant: LockWhen instead of LockWhenWithTimeout.
NoTimeout(t) == FALSE /\ UNCHANGED vars

\* The wait is given up: the lock is taken all the same, the result is false.
Timeout(t) ==
  /\ lk = {}
  /\ ~Condition(t)
  /\ At(t, "wait", "unlock")
  /\ lk' = {t}
  /\ UNCHANGED <<inventory, last, stop, seen, main>>

\* Mutant: the mutex is released before print_inventory.
EarlyUnlock(t) ==
  /\ At(t, "change", "print")
  /\ inventory' = IF t \in Producers THEN inventory + 1 ELSE inventory - 1
  /\ lk' = {}
  /\ UNCHANGED <<last, stop, seen, main>>

Change(t) ==
  /\ At(t, "change", "print")
  /\ inventory' = IF t \in Producers THEN inventory + 1 ELSE inventory - 1
  /\ UNCHANGED <<lk, last, stop, seen, main>>

print_inventory(t) ==
  /\ At(t, "print", "unlock")
  /\ last' = inventory
  /\ UNCHANGED <<lk, inventory, stop, seen, main>>

Unlock(t) ==
  /\ At(t, "unlock", "test")
  /\ lk' = {}
  /\ UNCHANGED <<inventory, last, stop, seen, main>>

\* sleep(3) is over; the vectors are destroyed in reverse, joining each thread.
SetStop ==
  /\ main = "sleep"
  /\ main' = "joinConsumers"
  /\ stop' = TRUE
  /\ UNCHANGED <<lk, inventory, last, seen, pc>>

Join(from, threads, to) ==
  /\ main = from
  /\ \A t \in threads : pc[t] = "stopped"
  /\ main' = to
  /\ UNCHANGED <<lk, inventory, last, stop, seen, pc>>

Main == \/ SetStop
        \/ Join("joinConsumers", Consumers, "joinProducers")
        \/ Join("joinProducers", Producers, "done")

Step(t) == \/ Test(t) \/ LockWhen(t) \/ Timeout(t)
           \/ Change(t) \/ print_inventory(t) \/ Unlock(t)

Next == Main \/ \E t \in Threads : Step(t) \/ StoreArrives(t)

Spec == Init /\ [][Next]_vars

-----------------------------------------------------------------------------
\* However waits, timeouts and stale tests of stop interleave, a change is made
\* only under its condition: the inventory stays between zero and its limit.
InventoryInRange == inventory \in 0 .. MaxInventory

\* EXPECT_EQ(abs(last - inventory), 1) in print_inventory (line 29) holds
\* whenever a thread is about to evaluate it: every change is printed before
\* the next one, by the thread that made it.
ChangesPrintedOneByOne ==
  \A t \in Threads : pc[t] = "print" => inventory - last \in {-1, 1}

\* The scheduler runs every thread and a store reaches the other cores in the
\* end. Nothing is asked of the mutex: a waiter may be passed over while others
\* come back for it.
LiveSpec ==
  /\ Spec
  /\ WF_vars(Main)
  /\ \A t \in Threads : WF_vars(StoreArrives(t)) /\ WF_vars(Step(t))

\* The test ends: once stop is set no thread waits for ever for a change that
\* nobody is left to make, because every wait has its timeout.
TestEnds == <>(main = "done")
=============================================================================
