------------------------------- MODULE Engine -------------------------------
(***************************************************************************)
(* What the storage implementations share: encoded keys (column family,    *)
(* '_', user key; key_with_cf), numbered in byte order.                    *)
(***************************************************************************)
EXTENDS Naturals, Sequences, FiniteSets, Functions

CONSTANTS NKeys,          \* bound: encoded keys 1..NKeys
          CFOf,           \* column family of an encoded key
          Values, None

Keys == 1..NKeys
CFs == Range(CFOf)
NoKeys == [k \in Keys |-> None]

ASSUME EngineAssumption ==
  /\ NKeys \in Nat /\ None \notin Values
  /\ \A i, j, k \in Keys : i < j /\ j < k /\ CFOf[i] = CFOf[k] => CFOf[j] = CFOf[i]
==============================================================================
