---------------------------- MODULE MCRegionData -----------------------------
(***************************************************************************)
(* Two stores and two regions: the first, on both stores, begins at the    *)
(* empty key and ends at "m", the second, on A alone, goes from "m" on.    *)
(***************************************************************************)
EXTENDS RegionData

CONSTANTS A, B

(* The raw keys in byte order are region states 1 and 2, apply states 3 and *)
(* 4, the bound "a" 5, then what set_cf("default", _) makes of 1 to 4, of   *)
(* the data keys 12 and 14, the key "default_x" 12, the bound "m" 13, and   *)
(* the key "write_x" 14.                                                    *)
MCRawKeys == (1..14) \ {5, 13}
MCStateKey == [r \in {1, 2} |-> r]
MCApplyKey == [r \in {1, 2} |-> r + 2]
MCDefaultKey == [k \in {1, 2, 3, 4, 12, 14} |->
                   CASE k <= 4 -> k + 5 [] k = 12 -> 10 [] k = 14 -> 11]
MCStart == [r \in {1, 2} |-> IF r = 1 THEN 0 ELSE 13]
MCEnd == [r \in {1, 2} |-> IF r = 1 THEN 13 ELSE 0]
MCMembers == [r \in {1, 2} |-> IF r = 1 THEN {A, B} ELSE {A}]
==============================================================================
