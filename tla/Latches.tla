------------------------------ MODULE Latches -------------------------------
(***************************************************************************)
(* The latch table of src/src/transaction/latches/latches.rs and the loop  *)
(* in which a command waits for its keys.                                  *)
(*                                                                         *)
(* latch_map maps a latched key to the Notify object of the command that   *)
(* latched it.  Both acquire_latches and release_latches run under the     *)
(* mutex of the map, so each is one step.  wait_for_latches is not one     *)
(* step: between the return of acquire_latches and the call of notified()  *)
(* the mutex is free, and notify_waiters() only wakes the Notified futures *)
(* that already exist.                                                     *)
(***************************************************************************)
EXTENDS Naturals, Sequences, FiniteSets

CONSTANTS
    Keys,       \* the keys a command can latch
    Tasks,      \* the tasks of the runtime, each serving one command at a time
    Commands,   \* the key lists commands latch: non-empty sequences over Keys
    Notifies,   \* identities of Notify objects
    NoNotify        \* no Notify

ASSUME CommandsAssumption == Commands \subseteq (Seq(Keys) \ {<< >>})
ASSUME NoneAssumption == NoNotify \notin Notifies
ASSUME TasksAssumption == "free" \notin Tasks /\ "leaked" \notin Tasks

VARIABLES
    latch_map,  \* Keys -> Notifies \cup {NoNotify}
    pc,         \* where each task is in wait_for_latches
    keys,       \* the keys of the command each task serves
    notify,     \* the Notify a waiting task holds a clone of
    late        \* history: notified() was called after the latch was released

latchVars == <<latch_map, pc, keys, notify, late>>

KeySet(ks) == {ks[i] : i \in DOMAIN ks}

Latched == {k \in Keys : latch_map[k] # NoNotify}

\* Objects some map entry or some task still refers to.
Referenced == {latch_map[k] : k \in Keys} \cup {notify[p] : p \in Tasks}

\* Notify::new: an object nobody refers to.
NewNotify == CHOOSE n \in Notifies : n \notin Referenced

LatchesInit ==
    /\ latch_map = [k \in Keys |-> NoNotify]
    /\ pc = [p \in Tasks |-> "idle"]
    /\ keys = [p \in Tasks |-> << >>]
    /\ notify = [p \in Tasks |-> NoNotify]
    /\ late = [p \in Tasks |-> FALSE]

\* A handler calls wait_for_latches(keys).
Call(p) ==
    /\ pc[p] = "idle"
    /\ \E ks \in Commands : keys' = [keys EXCEPT ![p] = ks]
    /\ pc' = [pc EXCEPT ![p] = "try"]
    /\ UNCHANGED <<latch_map, notify, late>>

\* Mutant: only the first key checked.
AcquireFreeFirst(p) ==
    /\ pc[p] = "try"
    /\ Head(keys[p]) \notin Latched
    /\ Notifies \ Referenced # {}
    /\ latch_map' = [k \in Keys |-> IF k \in KeySet(keys[p]) THEN NewNotify ELSE latch_map[k]]
    /\ pc' = [pc EXCEPT ![p] = "holding"]
    /\ UNCHANGED <<keys, notify, late>>

\* acquire_latches, no key of the command is latched: all of them get one
\* new Notify and wait_for_latches returns.
AcquireFree(p) ==
    /\ pc[p] = "try"
    /\ KeySet(keys[p]) \cap Latched = {}
    /\ Notifies \ Referenced # {}
    /\ latch_map' = [k \in Keys |-> IF k \in KeySet(keys[p]) THEN NewNotify ELSE latch_map[k]]
    /\ pc' = [pc EXCEPT ![p] = "holding"]
    /\ UNCHANGED <<keys, notify, late>>

\* acquire_latches, some key is latched: the Notify of the first such key in
\* the order of the list is cloned and returned.
AcquireBusy(p) ==
    /\ pc[p] = "try"
    /\ \E i \in DOMAIN keys[p] :
          /\ keys[p][i] \in Latched
          /\ \A j \in 1..(i - 1) : keys[p][j] \notin Latched
          /\ notify' = [notify EXCEPT ![p] = latch_map[keys[p][i]]]
    /\ pc' = [pc EXCEPT ![p] = "busy"]
    /\ UNCHANGED <<latch_map, keys, late>>

\* The call notify.notified(): from here on notify_waiters() reaches the task.
Register(p) ==
    /\ pc[p] = "busy"
    /\ pc' = [pc EXCEPT ![p] = "await"]
    /\ late' = [late EXCEPT ![p] = \A k \in Keys : latch_map[k] # notify[p]]
    /\ UNCHANGED <<latch_map, keys, notify>>

\* Mutant: notify_one.
WokenOne(n) ==
    LET waiting == {q \in Tasks : pc[q] = "await" /\ notify[q] = n} IN
    IF waiting = {} THEN {} ELSE {CHOOSE q \in waiting : TRUE}

\* The tasks that notify_waiters() on n sends back to the top of their loop.
Woken(n) == {q \in Tasks : pc[q] = "await" /\ notify[q] = n}

\* Mutant: only the first key is removed.
ReleaseLatchesFirst(p) ==
    /\ pc[p] = "holding"
    /\ LET woken == Woken(latch_map[Head(keys[p])])
       IN  /\ pc' = [q \in Tasks |-> IF q = p THEN "idle"
                                     ELSE IF q \in woken THEN "try" ELSE pc[q]]
           /\ notify' = [q \in Tasks |-> IF q \in woken THEN NoNotify ELSE notify[q]]
           /\ late' = [q \in Tasks |-> IF q \in woken THEN FALSE ELSE late[q]]
    /\ latch_map' = [latch_map EXCEPT ![Head(keys[p])] = NoNotify]
    /\ keys' = [keys EXCEPT ![p] = << >>]

\* release_latches: the Notify is taken from the entry of the first key, its
\* waiters are woken, and every key of the command is removed.
ReleaseLatches(p) ==
    /\ pc[p] = "holding"
    /\ LET first == latch_map[Head(keys[p])]
           woken == IF first = NoNotify THEN {} ELSE Woken(first)
       IN  /\ pc' = [q \in Tasks |-> IF q = p THEN "idle"
                                     ELSE IF q \in woken THEN "try" ELSE pc[q]]
           /\ notify' = [q \in Tasks |-> IF q \in woken THEN NoNotify ELSE notify[q]]
           /\ late' = [q \in Tasks |-> IF q \in woken THEN FALSE ELSE late[q]]
    /\ latch_map' = [k \in Keys |-> IF k \in KeySet(keys[p]) THEN NoNotify ELSE latch_map[k]]
    /\ keys' = [keys EXCEPT ![p] = << >>]

\* The handler returns through `?` or its future is dropped while it holds
\* latches: nothing releases them.
Die(p) ==
    /\ pc[p] = "holding"
    /\ pc' = [pc EXCEPT ![p] = "idle"]
    /\ keys' = [keys EXCEPT ![p] = << >>]
    /\ UNCHANGED <<latch_map, notify, late>>

LatchesNext ==
    \E p \in Tasks :
        \/ Call(p)
        \/ AcquireFree(p)
        \/ AcquireBusy(p)
        \/ Register(p)
        \/ ReleaseLatches(p)
        \/ Die(p)

LatchesSpec == LatchesInit /\ [][LatchesNext]_latchVars

\* Handlers that do not fail always come to release_latches, and the runtime
\* keeps polling every task that can run.
LiveNext ==
    \E p \in Tasks :
        \/ Call(p)
        \/ AcquireFree(p)
        \/ AcquireBusy(p)
        \/ Register(p)
        \/ ReleaseLatches(p)

FairSpec ==
    /\ LatchesInit /\ [][LiveNext]_latchVars
    /\ \A p \in Tasks : WF_latchVars(AcquireFree(p) \/ AcquireBusy(p) \/ Register(p) \/ ReleaseLatches(p))
-----------------------------------------------------------------------------
TypeOK ==
    /\ latch_map \in [Keys -> Notifies \cup {NoNotify}]
    /\ pc \in [Tasks -> {"idle", "try", "busy", "await", "holding"}]
    /\ keys \in [Tasks -> Commands \cup {<< >>}]
    /\ notify \in [Tasks -> Notifies \cup {NoNotify}]
    /\ late \in [Tasks -> BOOLEAN]

\* Two commands past wait_for_latches share no key (the module comment of
\* latches.rs: concurrent commands do not conflict), even when a command
\* that died has left keys behind.
MutualExclusion ==
    \A p, q \in Tasks :
        (p # q /\ pc[p] = "holding" /\ pc[q] = "holding")
            => KeySet(keys[p]) \cap KeySet(keys[q]) = {}

\* A waiter that called notified() while the latch it waits for was still
\* taken is woken before that latch disappears from the map, whichever of
\* the keys of the holder it collided on: all entries of one command share
\* the Notify that release_latches fires through the first key.
RegisteredWaiterIsWoken ==
    \A p \in Tasks :
        (pc[p] = "await" /\ ~late[p]) => \E k \in Keys : latch_map[k] = notify[p]

\* A waiter whose keys are all free.
Stranded(p) == pc[p] = "await" /\ KeySet(keys[p]) \cap Latched = {}

\* wait_for_latches blocks "until all keys are available" (latches.rs:61): no
\* task waits for ever while its keys are available.
NoStrandedWaiter == \A p \in Tasks : []<>(~Stranded(p))
-----------------------------------------------------------------------------
\* The command-level view: who holds a key.  An entry no holding task
\* accounts for was left behind by a command that died.
HolderOf(k) ==
    IF latch_map[k] = NoNotify THEN "free"
    ELSE IF \E p \in Tasks : pc[p] = "holding" /\ k \in KeySet(keys[p])
         THEN CHOOSE p \in Tasks : pc[p] = "holding" /\ k \in KeySet(keys[p])
         ELSE "leaked"

Holders == [k \in Keys |-> HolderOf(k)]

Abstract == INSTANCE KeyLatches WITH holder <- Holders, Free <- "free", Leaked <- "leaked"

\* The table with its Notify objects and wait loop implements the promise
\* of KeyLatches: every step takes, gives back or abandons all keys of one
\* command at once, or leaves the holders alone.
ImplementsKeyLatches == Abstract!Spec
=============================================================================
