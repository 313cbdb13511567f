---------------------------- MODULE MCTxnClients ----------------------------
(***************************************************************************)
(* Two coordinators whose transactions overlap in time, transaction 1 with *)
(* commit timestamp 3 and transaction 2 with 5, and a third party: a       *)
(* reader, a resolver or a scan.  The coordinator of transaction 1 can     *)
(* disappear, in the resolver's scenario that of transaction 2 as well.    *)
(* A scan reads at one of the commit timestamps: what it can see does not  *)
(* change between two of them.                                             *)
(***************************************************************************)
EXTENDS TxnClients, KvScan, TLC

CONSTANTS a, b, c1, c2, r1

MCKeys == {a, b}
MCScanOrder == <<a, b>>
MCTasks == {c1, c2, r1}
MCTimestamps == 1..5
MCStartTs == {1, 2}
MCCommitTs == (1 :> 3) @@ (2 :> 5)
MCMutation == (1 :> (a :> "Put" @@ b :> "Put")) @@ (2 :> (a :> "Put" @@ b :> "Delete"))
MCPrimary == (1 :> a) @@ (2 :> b)
MCCoordinator == (1 :> c1) @@ (2 :> c2)

\* One key and two transactions of which the second starts after the first
\* has committed.
OneKey == {a}
SuccessiveStartTs == {1, 3}
SuccessiveCommitTs == (1 :> 2) @@ (3 :> 5)
SuccessiveMutation == (1 :> (a :> "Put")) @@ (3 :> (a :> "Put"))
SuccessivePrimary == (1 :> a) @@ (3 :> a)
SuccessiveCoordinator == (1 :> c1) @@ (3 :> c2)
OneScanOrder == <<a>>

VARIABLE third  \* the third party: "reader", "resolver" or "scan"

thirdVars == <<allVars, scan, third>>

ThirdInit ==
    /\ ClientInit
    /\ scan = NoScan
    /\ third \in {"reader", "resolver", "scan"}

\* A step of the clients and handlers beside a scan.
Beside(A) == A /\ WatchScan /\ UNCHANGED third

Reader(p) == third = "reader" /\ (Read(p) \/ ReaderAnswer(p))

Asks(p, s) == third = "resolver" /\ AskStatus(p, s)

Resolver(p) == third = "resolver" /\ (ResolverAnswer(p) \/ Resolve(p))

Scan ==
    /\ third = "scan"
    /\ \/ \E s \in StartTs : CommitTs[s] <= clock /\ ScanBegin(CommitTs[s])
       \/ ScanStep
       \/ ScanReply
    /\ UNCHANGED <<clientVars, third>>

ThirdNext ==
    \/ Beside(Tick)
    \/ \E s \in StartTs : Beside(CoordinatorStep(s))
    \/ \E s \in StartTs : (s = 1 \/ third = "resolver") /\ Beside(Disappear(s))
    \/ \E p \in Tasks : Beside(Serve(p))
    \/ \E p \in Readers : Beside(Reader(p))
    \/ \E p \in Resolvers, s \in StartTs : Beside(Asks(p, s))
    \/ \E p \in Resolvers : Beside(Resolver(p))
    \/ Scan

ThirdSpec == ThirdInit /\ [][ThirdNext]_thirdVars

\* The runtime polls every task that can run, a coordinator that is there goes
\* on with its protocol, and the oracle keeps giving out timestamps.  Somebody
\* who is blocked by a lock keeps asking about its transaction, and acts on the
\* answer.
FairThirdSpec ==
    /\ ThirdSpec
    /\ WF_thirdVars(Beside(Tick))
    /\ \A s \in StartTs : WF_thirdVars(Beside(CoordinatorStep(s)))
    /\ \A p \in Tasks : WF_thirdVars(Beside(Serve(p)))
    /\ \A p \in Resolvers :
          /\ WF_thirdVars(Beside(Resolver(p)))
          /\ \A s \in StartTs : SF_thirdVars(Beside(Asks(p, s)))

\* Coordinators whose transactions block one another all come to an end, without
\* help of a resolver.
EndsWithoutResolvers == third = "reader" => EveryTxnEnds

\* A lock whose coordinator has disappeared goes in the end when somebody keeps
\* asking about it (CheckTxnStatus) and resolves it (ResolveLock).
ResolverFreesLocks == third = "resolver" => LocksAreResolved
=============================================================================
