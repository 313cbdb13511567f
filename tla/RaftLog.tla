------------------------------ MODULE RaftLog -------------------------------
(***************************************************************************)
(* The log of a Raft node, src/src/raft/log.rs, as operators on a record   *)
(*                                                                         *)
(*    entries    the entries in memory, each with the index it carries     *)
(*    committed, applied, stabled                                          *)
(*                                                                         *)
(* Entries carry their index because append does not keep position and     *)
(* index in step in every case.  The payload of an entry is named by the   *)
(* leader that created it.  There is no pending snapshot: nothing in the   *)
(* repository sends MsgSnapshot or calls maybe_compact.                    *)
(***************************************************************************)
EXTENDS Naturals, Sequences

Entry(term, index, data) == [term |-> term, index |-> index, data |-> data]

EmptyLog == [entries |-> << >>, committed |-> 0, applied |-> 0, stabled |-> 0]

last_index(l) == IF l.entries = << >> THEN l.stabled ELSE l.entries[Len(l.entries)].index

first_index(l) == IF l.entries = << >> THEN l.stabled + 1 ELSE l.entries[1].index

\* The term at an index: a set with one element, or the empty set for None.
term_sync(l, index) ==
    LET offset == index - first_index(l) IN
    IF index = 0 THEN {0}
    ELSE IF first_index(l) <= index /\ index <= last_index(l) /\ offset < Len(l.entries)
         THEN {l.entries[offset + 1].term}
    ELSE {}

\* append panics when the first of the entries is already committed.
AppendPanics(l, es) == es # << >> /\ es[1].index <= l.committed

\* Mutant: one entry too many is cut.
AppendCutsOneMore(l, es) ==
    LET offset == es[1].index - first_index(l)
        kept == IF es[1].index > first_index(l) /\ offset <= Len(l.entries)
                THEN SubSeq(l.entries, 1, offset - 1) ELSE l.entries
    IN  IF es = << >> THEN l ELSE [l EXCEPT !.entries = kept \o es]

\* What is kept is cut only if the first new entry comes after the first of
\* the log.
append(l, es) ==
    LET offset == es[1].index - first_index(l)
        kept == IF es[1].index > first_index(l) /\ offset < Len(l.entries)
                THEN SubSeq(l.entries, 1, offset) ELSE l.entries
    IN  IF es = << >> THEN l ELSE [l EXCEPT !.entries = kept \o es]

\* How many entries there are up to an index; a slice that begins past the end
\* panics.
Offset(l, i) == IF i >= first_index(l) THEN i - first_index(l) + 1 ELSE 0

UnstablePanics(l) == Offset(l, l.stabled) > Len(l.entries)
unstable_entries(l) == SubSeq(l.entries, Offset(l, l.stabled) + 1, Len(l.entries))
=============================================================================
