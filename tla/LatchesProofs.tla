--------------------------- MODULE LatchesProofs ----------------------------
(***************************************************************************)
(* Mutual exclusion of the latch table, the wake-up of registered waiters, *)
(* and the refinement of KeyLatches, for any keys, tasks and commands.     *)
(*                                                                         *)
(* MutualExclusion is not inductive: AcquireFree only looks at the map, so *)
(* the invariant has to say that the map accounts for every holder         *)
(* (HoldersInMap).  That all keys of a holder carry one Notify is what     *)
(* makes the wake-up through the first key reach every waiter.             *)
(***************************************************************************)
EXTENDS Latches, TLAPS

\* A task past Call has a command; one that waits has a Notify.
LocalState ==
    \A p \in Tasks :
        /\ pc[p] # "idle" => keys[p] \in Commands
        /\ pc[p] \in {"busy", "await"} => notify[p] \in Notifies

\* The entries of a holder's keys are all the same Notify.
HoldersInMap ==
    \A p \in Tasks :
        pc[p] = "holding" =>
            \E n \in Notifies : \A k \in KeySet(keys[p]) : latch_map[k] = n

IInv ==
    /\ TypeOK
    /\ LocalState
    /\ HoldersInMap
    /\ MutualExclusion
    /\ RegisteredWaiterIsWoken

\* The keys of a command are keys, and there is a first one.
LEMMA CommandKeys ==
    ASSUME NEW ks \in Commands
    PROVE  /\ KeySet(ks) \subseteq Keys
           /\ Head(ks) \in KeySet(ks)
           /\ KeySet(ks) # {}
<1>1. ks \in Seq(Keys) /\ ks # << >>
  BY CommandsAssumption
<1>2. Len(ks) \in Nat /\ Len(ks) > 0 /\ DOMAIN ks = 1..Len(ks) /\ Head(ks) = ks[1]
  BY <1>1
<1>3. \A i \in DOMAIN ks : ks[i] \in Keys
  BY <1>1, <1>2
<1>4. 1 \in DOMAIN ks
  BY <1>2
<1> QED
  BY <1>2, <1>3, <1>4 DEF KeySet

\* An empty latch map satisfies the invariant.
LEMMA InitIInv == LatchesInit => IInv
BY NoneAssumption DEF LatchesInit, IInv, TypeOK, LocalState, HoldersInMap, MutualExclusion,
   RegisteredWaiterIsWoken

\* Every step keeps the invariant.
LEMMA NextIInv == IInv /\ [LatchesNext]_latchVars => IInv'
<1> SUFFICES ASSUME IInv, [LatchesNext]_latchVars
             PROVE  IInv'
  OBVIOUS
<1> USE NoneAssumption
<1>1. ASSUME NEW p \in Tasks, Call(p)
      PROVE  IInv'
  BY <1>1 DEF Call, IInv, TypeOK, LocalState, HoldersInMap, MutualExclusion, RegisteredWaiterIsWoken
<1>2. ASSUME NEW p \in Tasks, AcquireFree(p)
      PROVE  IInv'
  <2>1. PICK n \in Notifies \ Referenced :
           latch_map' = [k \in Keys |-> IF k \in KeySet(keys[p]) THEN n ELSE latch_map[k]]
    <3>1. \E n \in Notifies : n \notin Referenced
      BY <1>2, Zenon DEF AcquireFree
    <3>2. NewNotify \in Notifies /\ NewNotify \notin Referenced
      BY <3>1, Zenon DEF NewNotify
    <3> QED
      BY <1>2, <3>2, Zenon DEF AcquireFree
  <2>2. keys[p] \in Commands /\ pc[p] = "try"
    BY <1>2 DEF AcquireFree, IInv, LocalState
  <2>3. KeySet(keys[p]) \subseteq Keys
    BY <2>2, CommandKeys
  <2>4. \A k \in KeySet(keys[p]) : latch_map[k] = NoNotify
    BY <1>2, <2>3 DEF AcquireFree, Latched
  <2>5. TypeOK' /\ LocalState'
    BY <1>2, <2>1, <2>2 DEF AcquireFree, IInv, TypeOK, LocalState
  <2>6. \A q \in Tasks \ {p} :
           pc[q] = "holding" => KeySet(keys[q]) \cap KeySet(keys[p]) = {}
    BY <2>4 DEF IInv, HoldersInMap
  <2>7. \A q \in Tasks : pc'[q] = "holding" => keys[q] \in Commands /\ KeySet(keys[q]) \subseteq Keys
    BY <1>2, <2>2, CommandKeys DEF AcquireFree, IInv, TypeOK, LocalState
  <2>8. HoldersInMap'
    BY <1>2, <2>1, <2>3, <2>6, <2>7 DEF AcquireFree, IInv, TypeOK, HoldersInMap
  <2>9. MutualExclusion'
    BY <1>2, <2>6 DEF AcquireFree, IInv, TypeOK, MutualExclusion
  <2>10. RegisteredWaiterIsWoken'
    BY <1>2, <2>1, <2>4 DEF AcquireFree, IInv, TypeOK, LocalState, RegisteredWaiterIsWoken
  <2> QED
    BY <2>5, <2>8, <2>9, <2>10 DEF IInv
<1>3. ASSUME NEW p \in Tasks, AcquireBusy(p)
      PROVE  IInv'
  <2>1. keys[p] \in Commands /\ KeySet(keys[p]) \subseteq Keys
    BY <1>3, CommandKeys DEF AcquireBusy, IInv, LocalState
  <2>2. PICK i \in DOMAIN keys[p] :
           /\ keys[p][i] \in Latched
           /\ notify' = [notify EXCEPT ![p] = latch_map[keys[p][i]]]
    BY <1>3 DEF AcquireBusy
  <2>3. latch_map[keys[p][i]] \in Notifies
    BY <2>2 DEF Latched, IInv, TypeOK
  <2> QED
    BY <1>3, <2>1, <2>2, <2>3
    DEF AcquireBusy, IInv, TypeOK, LocalState, HoldersInMap, MutualExclusion, RegisteredWaiterIsWoken
<1>4. ASSUME NEW p \in Tasks, Register(p)
      PROVE  IInv'
  BY <1>4 DEF Register, IInv, TypeOK, LocalState, HoldersInMap, MutualExclusion, RegisteredWaiterIsWoken
<1>5. ASSUME NEW p \in Tasks, ReleaseLatches(p)
      PROVE  IInv'
  <2> DEFINE first == latch_map[Head(keys[p])]
             woken == IF first = NoNotify THEN {} ELSE Woken(first)
  <2>1. keys[p] \in Commands /\ pc[p] = "holding"
    BY <1>5 DEF ReleaseLatches, IInv, LocalState
  <2>2. /\ KeySet(keys[p]) \subseteq Keys
        /\ Head(keys[p]) \in KeySet(keys[p])
    BY <2>1, CommandKeys
  <2>3. first \in Notifies /\ \A k \in KeySet(keys[p]) : latch_map[k] = first
    BY <2>1, <2>2 DEF IInv, HoldersInMap
  <2>4. woken = Woken(first)
    BY <2>3
  <2>5. /\ pc' = [q \in Tasks |-> IF q = p THEN "idle"
                                  ELSE IF q \in woken THEN "try" ELSE pc[q]]
        /\ notify' = [q \in Tasks |-> IF q \in woken THEN NoNotify ELSE notify[q]]
        /\ late' = [q \in Tasks |-> IF q \in woken THEN FALSE ELSE late[q]]
        /\ latch_map' = [k \in Keys |-> IF k \in KeySet(keys[p]) THEN NoNotify ELSE latch_map[k]]
        /\ keys' = [keys EXCEPT ![p] = << >>]
    BY <1>5 DEF ReleaseLatches
  <2> HIDE DEF woken
  <2>6. \A q \in Tasks : q \in woken <=> (pc[q] = "await" /\ notify[q] = first)
    BY <2>4 DEF Woken
  <2>7. TypeOK' /\ LocalState'
    BY <2>5, <2>6 DEF IInv, TypeOK, LocalState
  <2>8. ASSUME NEW q \in Tasks, pc'[q] = "holding"
        PROVE  q # p /\ pc[q] = "holding" /\ keys'[q] = keys[q]
    BY <2>5, <2>8 DEF IInv, TypeOK
  <2>9. HoldersInMap'
    <3> SUFFICES ASSUME NEW q \in Tasks, pc'[q] = "holding"
                 PROVE  \E n \in Notifies : \A k \in KeySet(keys'[q]) : latch_map'[k] = n
      BY DEF HoldersInMap, KeySet
    <3>1. q # p /\ pc[q] = "holding" /\ keys'[q] = keys[q]
      BY <2>8
    <3>2. KeySet(keys[q]) \subseteq Keys /\ KeySet(keys[q]) \cap KeySet(keys[p]) = {}
      BY <2>1, <3>1, CommandKeys DEF IInv, LocalState, MutualExclusion
    <3>3. \A k \in KeySet(keys[q]) : latch_map'[k] = latch_map[k]
      BY <2>5, <3>2
    <3> QED
      BY <3>1, <3>3 DEF IInv, HoldersInMap
  <2>10. MutualExclusion'
    BY <2>8 DEF IInv, MutualExclusion, KeySet
  <2>11. RegisteredWaiterIsWoken'
    <3> SUFFICES ASSUME NEW q \in Tasks, pc'[q] = "await", ~late'[q]
                 PROVE  \E k \in Keys : latch_map'[k] = notify'[q]
      BY DEF RegisteredWaiterIsWoken
    <3>1. q \notin woken /\ pc[q] = "await" /\ notify'[q] = notify[q] /\ late'[q] = late[q]
      BY <2>5 DEF IInv, TypeOK
    <3>2. notify[q] # first
      BY <2>6, <3>1
    <3>3. PICK k \in Keys : latch_map[k] = notify[q]
      BY <3>1 DEF IInv, RegisteredWaiterIsWoken
    <3>4. latch_map'[k] = latch_map[k]
      BY <2>3, <2>5, <3>2, <3>3
    <3> QED
      BY <3>1, <3>3, <3>4
  <2> QED
    BY <2>7, <2>9, <2>10, <2>11 DEF IInv
<1>6. ASSUME NEW p \in Tasks, Die(p)
      PROVE  IInv'
  BY <1>6 DEF Die, IInv, TypeOK, LocalState, HoldersInMap, MutualExclusion, RegisteredWaiterIsWoken
<1>7. CASE UNCHANGED latchVars
  BY <1>7 DEF latchVars, IInv, TypeOK, LocalState, HoldersInMap, MutualExclusion, RegisteredWaiterIsWoken
<1> QED
  BY <1>1, <1>2, <1>3, <1>4, <1>5, <1>6, <1>7 DEF LatchesNext

\* The invariant holds in every state of every behaviour.
LEMMA SpecIInv == LatchesSpec => []IInv
BY InitIInv, NextIInv, PTL DEF LatchesSpec

\* acquire_latches and release_latches keep two commands with a common key
\* from holding latches at the same time.
THEOREM LatchesExclude == LatchesSpec => []MutualExclusion
<1>1. IInv => MutualExclusion
  BY DEF IInv
<1> QED
  BY <1>1, SpecIInv, PTL

\* release_latches leaves no waiter behind that was registered in time.
THEOREM WakeupReachesWaiters == LatchesSpec => []RegisteredWaiterIsWoken
<1>1. IInv => RegisteredWaiterIsWoken
  BY DEF IInv
<1> QED
  BY <1>1, SpecIInv, PTL
-----------------------------------------------------------------------------
(* The refinement of KeyLatches. *)

\* The abstract holder of a key is the one task that is past wait_for_latches
\* with that key, and "free" is an empty entry.
HolderFacts ==
    \A k \in Keys :
        /\ latch_map[k] = NoNotify <=> HolderOf(k) = "free"
        /\ \A p \in Tasks : HolderOf(k) = p <=> (pc[p] = "holding" /\ k \in KeySet(keys[p]))
        /\ HolderOf(k) \in Tasks \cup {"free", "leaked"}

\* The refinement mapping reads the right holder off the latch map.
LEMMA IInvHolderFacts == IInv => HolderFacts
<1> SUFFICES ASSUME IInv, NEW k \in Keys
             PROVE  /\ latch_map[k] = NoNotify <=> HolderOf(k) = "free"
                    /\ \A p \in Tasks : HolderOf(k) = p
                                          <=> (pc[p] = "holding" /\ k \in KeySet(keys[p]))
                    /\ HolderOf(k) \in Tasks \cup {"free", "leaked"}
  BY DEF HolderFacts
<1> DEFINE Holds(p) == pc[p] = "holding" /\ k \in KeySet(keys[p])
<1>1. \A p \in Tasks : Holds(p) => latch_map[k] # NoNotify
  BY NoneAssumption DEF IInv, HoldersInMap
<1>2. \A p, q \in Tasks : Holds(p) /\ Holds(q) => p = q
  BY DEF IInv, MutualExclusion
<1>3. CASE latch_map[k] = NoNotify
  BY <1>1, <1>3, TasksAssumption DEF HolderOf
<1>4. CASE latch_map[k] # NoNotify /\ \E p \in Tasks : Holds(p)
  <2>1. HolderOf(k) = CHOOSE p \in Tasks : Holds(p)
    BY <1>4 DEF HolderOf
  <2>2. HolderOf(k) \in Tasks /\ Holds(HolderOf(k))
    BY <1>4, <2>1
  <2> QED
    BY <1>2, <1>4, <2>2, TasksAssumption
<1>5. CASE latch_map[k] # NoNotify /\ ~\E p \in Tasks : Holds(p)
  <2>1. HolderOf(k) = "leaked"
    BY <1>5 DEF HolderOf
  <2> QED
    BY <1>5, <2>1, TasksAssumption
<1> QED
  BY <1>3, <1>4, <1>5

\* The same in the next state.
LEMMA IInvHolderFactsNext == IInv' => HolderFacts'
BY IInvHolderFacts, PTL

\* A key keeps its abstract holder if its entry and the tasks that hold it
\* stay the same.
LEMMA SameHolder ==
    ASSUME HolderFacts, HolderFacts', NEW k \in Keys, latch_map'[k] = latch_map[k],
           \A p \in Tasks : (pc[p] = "holding" /\ k \in KeySet(keys[p]))
                               <=> (pc'[p] = "holding" /\ k \in KeySet(keys[p])')
    PROVE  HolderOf(k)' = HolderOf(k)
<1>1. CASE \E p \in Tasks : pc[p] = "holding" /\ k \in KeySet(keys[p])
  <2>1. PICK p \in Tasks : pc[p] = "holding" /\ k \in KeySet(keys[p])
    BY <1>1
  <2>2. HolderOf(k) = p
    BY <2>1 DEF HolderFacts
  <2>3. HolderOf(k)' = p
    BY <2>1 DEF HolderFacts
  <2> QED
    BY <2>2, <2>3
<1>2. CASE ~\E p \in Tasks : pc[p] = "holding" /\ k \in KeySet(keys[p])
  BY <1>2 DEF HolderOf
<1> QED
  BY <1>1, <1>2

\* Every step of the table is a step of KeyLatches or none.
LEMMA NextRefines == IInv /\ IInv' /\ [LatchesNext]_latchVars => [Abstract!Next]_Holders
<1> SUFFICES ASSUME IInv, IInv', [LatchesNext]_latchVars
             PROVE  Abstract!Next \/ Holders' = Holders
  OBVIOUS
<1>f. HolderFacts /\ HolderFacts'
  BY IInvHolderFacts, IInvHolderFactsNext
<1>s. ASSUME latch_map' = latch_map,
             \A p \in Tasks : /\ pc[p] = "holding" <=> pc'[p] = "holding"
                              /\ pc[p] = "holding" => keys'[p] = keys[p]
      PROVE  Holders' = Holders
  <2> SUFFICES ASSUME NEW k \in Keys
               PROVE  HolderOf(k)' = HolderOf(k)
    BY DEF Holders
  <2>1. \A p \in Tasks : (pc[p] = "holding" /\ k \in KeySet(keys[p]))
                         <=> (pc'[p] = "holding" /\ k \in KeySet(keys[p])')
    <3> TAKE p \in Tasks
    <3>1. pc[p] = "holding" <=> pc'[p] = "holding"
      BY <1>s
    <3>2. CASE pc[p] = "holding"
      <4>1. KeySet(keys[p])' = KeySet(keys[p])
        BY <1>s, <3>2 DEF KeySet
      <4> QED
        BY <3>1, <4>1
    <3>3. CASE pc[p] # "holding"
      BY <3>1, <3>3
    <3> QED
      BY <3>2, <3>3
  <2> QED
    BY <1>f, <1>s, <2>1, SameHolder
<1>1. ASSUME NEW p \in Tasks, Call(p) \/ AcquireBusy(p) \/ Register(p)
      PROVE  Holders' = Holders
  <2>1. /\ latch_map' = latch_map
        /\ \A q \in Tasks : /\ pc[q] = "holding" <=> pc'[q] = "holding"
                            /\ pc[q] = "holding" => keys'[q] = keys[q]
    BY <1>1 DEF Call, AcquireBusy, Register, IInv, TypeOK
  <2> QED
    BY <1>s, <2>1
<1>2. ASSUME NEW p \in Tasks, AcquireFree(p)
      PROVE  Abstract!Next
  <2> DEFINE K == KeySet(keys[p])
  <2>1. keys[p] \in Commands /\ pc[p] = "try"
    BY <1>2 DEF AcquireFree, IInv, LocalState
  <2>2. K \subseteq Keys /\ K # {}
    BY <2>1, CommandKeys
  <2>3. \A k \in K : Holders[k] = "free"
    BY <1>2, <1>f, <2>2 DEF AcquireFree, Latched, Holders, HolderFacts
  <2>4. Abstract!Held(p) = {}
    BY <1>f, <2>1 DEF Abstract!Held, Holders, HolderFacts
  <2>5. \A k \in Keys : HolderOf(k)' = IF k \in K THEN p ELSE HolderOf(k)
    <3> SUFFICES ASSUME NEW k \in Keys
                 PROVE  HolderOf(k)' = IF k \in K THEN p ELSE HolderOf(k)
      OBVIOUS
    <3>1. /\ keys' = keys /\ pc' = [pc EXCEPT ![p] = "holding"]
          /\ k \notin K => latch_map'[k] = latch_map[k]
      BY <1>2 DEF AcquireFree
    <3>2. CASE k \in K
      <4>1. pc'[p] = "holding" /\ k \in KeySet(keys[p])'
        BY <3>1, <3>2 DEF IInv, TypeOK, KeySet
      <4> QED
        BY <1>f, <3>2, <4>1 DEF HolderFacts
    <3>3. CASE k \notin K
      <4>1. \A q \in Tasks : (pc[q] = "holding" /\ k \in KeySet(keys[q]))
                             <=> (pc'[q] = "holding" /\ k \in KeySet(keys[q])')
        BY <2>1, <3>1, <3>3 DEF IInv, TypeOK, KeySet
      <4> QED
        BY <1>f, <3>1, <3>3, <4>1, SameHolder
    <3> QED
      BY <3>2, <3>3
  <2>6. Abstract!Take(p, K)
    BY <2>2, <2>3, <2>4, <2>5 DEF Abstract!Take, Holders
  <2> QED
    BY <2>2, <2>6 DEF Abstract!Next
<1>3. ASSUME NEW p \in Tasks, ReleaseLatches(p) \/ Die(p)
      PROVE  Abstract!Next
  <2> DEFINE K == KeySet(keys[p])
  <2>1. keys[p] \in Commands /\ pc[p] = "holding"
    BY <1>3 DEF ReleaseLatches, Die, IInv, LocalState
  <2>2. K \subseteq Keys /\ K # {}
    BY <2>1, CommandKeys
  <2>3. Abstract!Held(p) = K
    BY <1>f, <2>1, <2>2 DEF Abstract!Held, Holders, HolderFacts
  <2>4. /\ \A q \in Tasks \ {p} : /\ pc[q] = "holding" <=> pc'[q] = "holding"
                                  /\ keys'[q] = keys[q]
        /\ pc'[p] = "idle"
    BY <1>3 DEF ReleaseLatches, Die, Woken, IInv, TypeOK
  <2>5. \A k \in Keys \ K : latch_map'[k] = latch_map[k]
    BY <1>3 DEF ReleaseLatches, Die
  <2>6. \A k \in Keys \ K : HolderOf(k)' = HolderOf(k)
    <3> SUFFICES ASSUME NEW k \in Keys \ K
                 PROVE  HolderOf(k)' = HolderOf(k)
      OBVIOUS
    <3>1. \A q \in Tasks : (pc[q] = "holding" /\ k \in KeySet(keys[q]))
                           <=> (pc'[q] = "holding" /\ k \in KeySet(keys[q])')
      BY <2>1, <2>4 DEF KeySet
    <3> QED
      BY <1>f, <2>5, <3>1, SameHolder
  <2>7. CASE ReleaseLatches(p)
    <3>1. \A k \in K : latch_map'[k] = NoNotify
      BY <2>2, <2>7 DEF ReleaseLatches
    <3>2. \A k \in K : HolderOf(k)' = "free"
      BY <1>f, <2>2, <3>1 DEF HolderFacts
    <3>3. Abstract!GiveBack(p)
      BY <2>2, <2>3, <2>6, <3>2 DEF Abstract!GiveBack, Holders
    <3> QED
      BY <3>3 DEF Abstract!Next
  <2>8. CASE Die(p)
    <3>1. \A k \in K : latch_map'[k] # NoNotify
      BY <2>1, <2>2, <2>8, NoneAssumption DEF Die, IInv, HoldersInMap
    <3>2. \A k \in K, q \in Tasks : ~(pc'[q] = "holding" /\ k \in KeySet(keys[q])')
      BY <2>1, <2>4 DEF IInv, MutualExclusion, KeySet
    <3>3. \A k \in K : HolderOf(k)' = "leaked"
      BY <1>f, <2>2, <3>1, <3>2 DEF HolderFacts
    <3>4. Abstract!Abandon(p)
      BY <2>2, <2>3, <2>6, <3>3 DEF Abstract!Abandon, Holders
    <3> QED
      BY <3>4 DEF Abstract!Next
  <2> QED
    BY <1>3, <2>7, <2>8
<1>4. CASE UNCHANGED latchVars
  <2>1. /\ latch_map' = latch_map
        /\ \A q \in Tasks : /\ pc[q] = "holding" <=> pc'[q] = "holding"
                            /\ pc[q] = "holding" => keys'[q] = keys[q]
    BY <1>4 DEF latchVars
  <2> QED
    BY <1>s, <2>1
<1> QED
  BY <1>1, <1>2, <1>3, <1>4 DEF LatchesNext

\* The table, the pending notifications and the tasks keep their types (latches.rs).
THEOREM LatchesTypes == LatchesSpec => []TypeOK
<1>1. IInv => TypeOK
  BY DEF IInv
<1> QED
  BY <1>1, SpecIInv, PTL

\* The latch table with its Notify objects and its wait loop implements the
\* all-or-nothing key locks of KeyLatches that the handlers rely on.
THEOREM LatchesRefine == LatchesSpec => ImplementsKeyLatches
<1>1. LatchesInit => Abstract!Init
  BY DEF LatchesInit, Abstract!Init, Holders, HolderOf
<1> QED
  BY <1>1, SpecIInv, NextRefines, PTL DEF LatchesSpec, Abstract!Spec, ImplementsKeyLatches
=============================================================================
