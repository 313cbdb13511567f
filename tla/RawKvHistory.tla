---------------------------- MODULE RawKvHistory ----------------------------
(* RawKv with a history of the last write of every key, to state what a    *)
(* get that follows a put must return.                                     *)
EXTENDS MCRawKv

MCNothing == {[hot |-> NoKeys, warm |-> NoKeys, cold |-> NoKeys]}

VARIABLE latest   \* value of the last write if it ran alone, "?" otherwise

LastOf(b, k) == LastOn(b, LAMBDA m : m[1] = k, "?")

\* A write ends in this step: task c returns to idle from its last step.
Ends(c) == task[c].batch # <<>> /\ task'[c].batch = <<>>

HistoryInit == Init /\ latest = [k \in Keys |-> IF HasCopy(k) THEN "?" ELSE None]

HistoryNext ==
  /\ Next
  /\ latest' = [k \in Keys |->
       IF \E c \in Clients : Ends(c) /\ k \in Touches(task[c])
       THEN LET c == CHOOSE x \in Clients : Ends(x)
            IN  IF task[c].alone /\ bounds'.crashes = bounds.crashes
                THEN LastOf(task[c].batch, k) ELSE "?"
       ELSE latest[k]]

HistorySpec == HistoryInit /\ [][HistoryNext]_<<vars, latest>>

\* tests/raw_api_test.rs asserts that a get after a put returns the value put:
\* a get that runs alone answers with the last write, if that ran alone too.
GetReturnsLastPut ==
  [][\A c \in Clients :
       /\ task[c].pc \in {"get", "bump", "read", "fill"} /\ task'[c].pc = "idle"
       /\ task[c].alone /\ latest[task[c].key] # "?" /\ bounds' = bounds
       => (IF task[c].pc = "get" /\ backend = "standalone"
           THEN cache[CacheKeyOf[task[c].key]] ELSE task[c].got) = latest[task[c].key]
    ]_<<vars, latest>>
=============================================================================
