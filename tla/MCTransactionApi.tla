-------------------------- MODULE MCTransactionApi --------------------------
(***************************************************************************)
(* Two transactions that overlap in time.  Transaction 1 writes both keys  *)
(* with primary a, transaction 2 (start 2) writes a.  The commit           *)
(* timestamps are 3 and 4.  Two tasks: every pair of handlers races.  Only *)
(* the locks of transaction 1 are resolved.  When tasks can fail,          *)
(* MaxFailures times, they serve the requests that write after other       *)
(* handlers: Prewrite, Commit and ResolveLock.                             *)
(***************************************************************************)
EXTENDS TransactionApi, TLC

CONSTANTS a, b, p1, p2, MaxFailures

MCKeys == {a, b}
MCTasks == {p1, p2}
MCTimestamps == 1..4
MCStartTs == {1, 2}
MCCommitTs == (1 :> 3) @@ (2 :> 4)
MCMutation == (1 :> (a :> "Put" @@ b :> "Delete")) @@ (2 :> (a :> "Put"))
MCPrimary == (1 :> a) @@ (2 :> a)

VARIABLES
    failing,    \* tasks can fail
    failures    \* how many times more

Failable == {"Prewrite", "Commit", "ResolveLock"}

Asked ==
    {r \in Requests : (failing => r.op \in Failable) /\ (r.op = "ResolveLock" => r.start = 1)}

\* Steps that neither read nor change what another task reads or changes are
\* taken at once: the answer of a handler that writes, and the latches of a
\* request that has read nothing yet and need not wait.  Every behaviour of the
\* handlers has the same store, latches and answers as one of that kind.
Ready(p) ==
    \/ pc[p] = "done" /\ req[p].op # "Get"
    \/ /\ pc[p] = "wait" /\ req[p].op # "ResolveLock"
       /\ \A k \in keys[p] : latches[k] = Free

HandlersInit == Init /\ failing \in BOOLEAN /\ failures = IF failing THEN MaxFailures ELSE 0

HandlersNext ==
    \/ \E p \in Tasks :
          /\ (\E q \in Tasks : Ready(q)) => Ready(p)
          /\ \/ \E r \in Asked : Receive(p, r)
             \/ Handle(p)
             \/ Reply(p)
          /\ UNCHANGED <<failing, failures>>
    \/ \E p \in Tasks :
          /\ failures > 0
          /\ \A q \in Tasks : ~Ready(q)
          /\ Fail(p)
          /\ failures' = failures - 1
          /\ UNCHANGED failing
    \* Tasks that wait for leaked latches may wait for ever.
    \/ failing /\ UNCHANGED <<vars, failing, failures>>

HandlersSpec == HandlersInit /\ [][HandlersNext]_<<vars, failing, failures>>

Symmetry == Permutations(MCTasks)
=============================================================================
