----------------------------- MODULE TxnClients -----------------------------
(***************************************************************************)
(* The handlers of TransactionApi with clients that follow the two-phase   *)
(* commit protocol the API is made for (README, "Write Flow"; the clients  *)
(* themselves are not part of the repository).                             *)
(*                                                                         *)
(* One coordinator per transaction prewrites all keys, takes a commit      *)
(* timestamp, commits the primary and then the rest; when its prewrite     *)
(* fails, or it has not heard of it when the commit timestamp passes, it   *)
(* rolls everything back, once.  It can disappear at any moment.  A        *)
(* resolver that meets a lock asks for the status of the transaction and   *)
(* resolves its locks the way the answer says.  A reader reads at a        *)
(* timestamp it has just taken.                                            *)
(*                                                                         *)
(* clock is the timestamp oracle: the last timestamp it has given out.     *)
(***************************************************************************)
EXTENDS TransactionApi

CONSTANTS
    Coordinator,    \* the task that serves each transaction's coordinator
    Readers,        \* the tasks that serve readers
    Resolvers,      \* the tasks that serve resolvers
    Mortal,         \* the transactions whose coordinator can disappear
    MaxTs           \* the last timestamp

ASSUME ClientsAssumption ==
    /\ Coordinator \in [StartTs -> Tasks]
    /\ Readers \subseteq Tasks /\ Resolvers \subseteq Tasks
    /\ Mortal \subseteq StartTs
    /\ MaxTs \in Nat
    \* A coordinator has a connection of its own.
    /\ \A s, t \in StartTs : Coordinator[s] = Coordinator[t] => s = t
    /\ \A s \in StartTs : Coordinator[s] \notin Readers \cup Resolvers

VARIABLES
    clock,
    coord,      \* what each coordinator is doing
    verdict,    \* what each resolver has learnt: a transaction and a commit_version
    resolving   \* ghost: a resolver has been at work

clientVars == <<clock, coord, verdict, resolving>>
allVars == <<vars, clientVars>>

NoVerdict == [start |-> 0, commit |-> 0]

ClientInit ==
    /\ Init
    /\ clock = 0
    /\ coord = [s \in StartTs |-> "begin"]
    /\ verdict = [r \in Resolvers |-> NoVerdict]
    /\ resolving = FALSE

\* The oracle gives out the next timestamp.  Its owner uses it as a commit
\* timestamp only if it already knows that the prewrite succeeded.
Tick ==
    /\ clock < MaxTs
    /\ clock' = clock + 1
    /\ coord' = [s \in StartTs |->
                    IF CommitTs[s] = clock' /\ coord[s] = "prewritten" THEN "commit"
                    ELSE coord[s]]
    /\ UNCHANGED <<vars, verdict, resolving>>

Secondaries(s) == DOMAIN Mutation[s] \ {Primary[s]}

Send(s, from, r, to) ==
    /\ coord[s] = from
    /\ Receive(Coordinator[s], r)
    /\ coord' = [coord EXCEPT ![s] = to]
    /\ UNCHANGED <<clock, verdict, resolving>>

SendPrewrite(s) ==
    /\ clock >= s
    /\ Send(s, "begin", Request("Prewrite", s, DOMAIN Mutation[s], 0, 0), "prewriting")

SendCommitPrimary(s) ==
    Send(s, "commit", Request("Commit", s, {Primary[s]}, CommitTs[s], 0), "committing")

SendCommitRest(s) ==
    Send(s, "commitRest", Request("Commit", s, Secondaries(s), CommitTs[s], 0), "committingRest")

SendRollback(s) ==
    /\ coord[s] = "prewritten" => clock >= CommitTs[s]
    /\ \E from \in {"abort", "prewritten"} :
          Send(s, from, Request("BatchRollback", s, DOMAIN Mutation[s], 0, 0), "aborting")

AfterAnswer(s, ok) ==
    CASE coord[s] = "prewriting"     -> IF ok THEN "prewritten" ELSE "abort"
      [] coord[s] = "committing"     -> IF ~ok THEN "failed"
                                        ELSE IF Secondaries(s) = {} THEN "committed" ELSE "commitRest"
      [] coord[s] = "committingRest" -> IF ok THEN "committed" ELSE "failed"
      [] coord[s] = "aborting"       -> IF ok THEN "aborted" ELSE "refused"
      [] OTHER                       -> coord[s]

CoordinatorAnswer(s) ==
    /\ Reply(Coordinator[s])
    /\ coord' = [coord EXCEPT ![s] = AfterAnswer(s, resp[Coordinator[s]].kind = "Ok")]
    /\ UNCHANGED <<clock, verdict, resolving>>

\* The client goes away; a request it has sent is still served.
Disappear(s) ==
    /\ s \in Mortal
    /\ coord[s] \notin {"gone", "committed", "aborted", "refused", "failed"}
    /\ coord' = [coord EXCEPT ![s] = "gone"]
    /\ UNCHANGED <<vars, clock, verdict, resolving>>

Read(p) ==
    /\ \E k \in Keys : clock \in ReadTs /\ Receive(p, Request("Get", clock, {k}, 0, 0))
    /\ UNCHANGED clientVars

ReaderAnswer(p) == Reply(p) /\ UNCHANGED clientVars

\* A resolver has met a lock of s and asks what became of s.
AskStatus(p, s) ==
    /\ verdict[p] = NoVerdict
    /\ \E k \in Keys : OwnLock(k, s)
    /\ Receive(p, Request("CheckTxnStatus", s, {Primary[s]}, 0, clock))
    /\ resolving' = TRUE
    /\ UNCHANGED <<clock, coord, verdict>>

ResolverAnswer(p) ==
    /\ Reply(p)
    /\ verdict' = [verdict EXCEPT ![p] =
           IF resp[p].kind = "Committed" THEN [start |-> req[p].start, commit |-> resp[p].ts]
           ELSE IF resp[p].kind \in {"TtlExpireRollback", "LockNotExistRollback"}
                THEN [start |-> req[p].start, commit |-> 0]
           ELSE NoVerdict]
    /\ UNCHANGED <<clock, coord, resolving>>

\* The resolver passes the verdict on.
Resolve(p) ==
    /\ verdict[p] # NoVerdict
    /\ Receive(p, Request("ResolveLock", verdict[p].start, {}, verdict[p].commit, 0))
    /\ verdict' = [verdict EXCEPT ![p] = NoVerdict]
    /\ resolving' = TRUE
    /\ UNCHANGED <<clock, coord>>

Serve(p) == Handle(p) /\ UNCHANGED clientVars

CoordinatorStep(s) ==
    \/ SendPrewrite(s)
    \/ SendCommitPrimary(s)
    \/ SendCommitRest(s)
    \/ SendRollback(s)
    \/ CoordinatorAnswer(s)

ClientNext ==
    \/ Tick
    \/ \E s \in StartTs : CoordinatorStep(s) \/ Disappear(s)
    \/ \E p \in Readers : Read(p) \/ ReaderAnswer(p)
    \/ \E p \in Resolvers : (\E s \in StartTs : AskStatus(p, s)) \/ ResolverAnswer(p) \/ Resolve(p)
    \/ \E p \in Tasks : Serve(p)

ClientSpec == ClientInit /\ [][ClientNext]_allVars
-----------------------------------------------------------------------------
\* README:61, two-phase commit: once a transaction is committed on one key it
\* is committed, or still locked and so can be committed, on all the others.
AtomicCommit ==
    \A s \in StartTs : \A j, k \in DOMAIN Mutation[s] :
        Committed(j, s) => Committed(k, s) \/ OwnLock(k, s)

\* A coordinator that was told so has its transaction committed on every key,
\* with every value in place; one whose rollback succeeded, or was refused
\* because it met the lock of another transaction, has it committed on none
\* and has left no lock.
OutcomeIsKept ==
    \A s \in StartTs :
        /\ coord[s] = "committed" =>
              \A k \in DOMAIN Mutation[s] :
                  Committed(k, s) /\ (Mutation[s][k] = "Put" => s \in data[k])
        /\ coord[s] \in {"aborted", "refused"} =>
              \A k \in DOMAIN Mutation[s] : ~Committed(k, s) /\ ~OwnLock(k, s)

\* Of the keys of a transaction none is committed while another is rolled back,
\* in every interleaving of coordinators and handlers, as long as nobody resolves
\* locks (with a resolver: the run resolved_commit).
AtomicWithoutResolvers == ~resolving => AtomicCommit

\* What a coordinator has told its client, committed or rolled back, is what the
\* store holds from then on, as long as nobody resolves locks.
OutcomeWithoutResolvers == ~resolving => OutcomeIsKept

\* Snapshot isolation of what kv_get does return (README:181): no other
\* transaction has a commit between the one that was read and the version of
\* the read, neither when the answer is given nor later.  As above, nobody
\* resolves locks.
ValueIsSnapshot ==
    ~resolving => \A p \in Readers :
        (req[p].op = "Get" /\ resp[p].kind = "Value")
            => \A t \in StartTs :
                  Committed(GetKey(p), t)
                      => ~(CommitTs[resp[p].ts] < CommitTs[t] /\ CommitTs[t] <= req[p].start)

\* Without resolvers every coordinator that does not disappear comes to an
\* end, whatever locks a lost one has left in its way, and leaves no lock of
\* its own: two-phase commit over the latches does not deadlock.
EveryTxnEnds ==
    <>[](\A s \in StartTs :
            \/ coord[s] = "gone"
            \/ /\ coord[s] \in {"committed", "aborted", "refused"}
               /\ \A k \in Keys : ~OwnLock(k, s))

\* README:65, transaction recovery: whatever coordinators disappear, no key
\* stays locked for ever once the TTL of its lock has passed.
LocksAreResolved == \A k \in Keys : []<>Unlocked(k)
=============================================================================
