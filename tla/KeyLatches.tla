----------------------------- MODULE KeyLatches -----------------------------
(***************************************************************************)
(* What the latch table of src/src/transaction/latches/latches.rs promises *)
(* the request handlers: a task takes all the keys of its command in one   *)
(* step, only when none of them is taken, and gives all of them back in    *)
(* one step.  Keys of a command that died between the two stay taken.      *)
(***************************************************************************)
CONSTANTS Keys, Tasks, Free, Leaked

VARIABLE holder

Init == holder = [k \in Keys |-> Free]

Held(p) == {k \in Keys : holder[k] = p}

Take(p, K) ==
    /\ K # {}
    /\ Held(p) = {}
    /\ \A k \in K : holder[k] = Free
    /\ holder' = [k \in Keys |-> IF k \in K THEN p ELSE holder[k]]

GiveBack(p) ==
    /\ Held(p) # {}
    /\ holder' = [k \in Keys |-> IF k \in Held(p) THEN Free ELSE holder[k]]

Abandon(p) ==
    /\ Held(p) # {}
    /\ holder' = [k \in Keys |-> IF k \in Held(p) THEN Leaked ELSE holder[k]]

Next ==
    \E p \in Tasks :
        \/ \E K \in SUBSET Keys : Take(p, K)
        \/ GiveBack(p)
        \/ Abandon(p)

Spec == Init /\ [][Next]_holder
=============================================================================
