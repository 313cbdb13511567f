----------------------------- MODULE MCLatches ------------------------------
(***************************************************************************)
(* Three tasks over two keys: both orders of the two keys and the single   *)
(* keys.  Four Notify identities are enough: a command that takes its keys *)
(* leaves at most one other key in the map, and the two other tasks can    *)
(* hold on to one more each.                                               *)
(***************************************************************************)
EXTENDS Latches

CONSTANTS ka, kb, p1, p2, p3, w1, w2, w3, w4

MCKeys == {ka, kb}
MCTasks == {p1, p2, p3}
MCTwoTasks == {p1, p2}
MCNotifies == {w1, w2, w3, w4}
MCCommands == {<<ka>>, <<kb>>, <<ka, kb>>, <<kb, ka>>}
=============================================================================
