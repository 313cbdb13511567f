----------------------------- MODULE StoreProofs -----------------------------
(***************************************************************************)
(* What the raw API keeps: values and cached values (RawKv).               *)
(***************************************************************************)
EXTENDS RawKv, FiniteSetTheorems, TLAPS

-----------------------------------------------------------------------------
(* The last of a batch. *)

\* A nonempty set of positions has a last one.
LEMMA LastPosition ==
  ASSUME NEW n \in Nat, NEW S \in SUBSET (1..n), S # {}
  PROVE  \E i \in S : \A j \in S : j <= i
<1> DEFINE T == {i..n : i \in S}
<1>1. T \subseteq FiniteSubsetsOf(Nat) /\ T # {}
  <2>1. ASSUME NEW i \in S PROVE i..n \in FiniteSubsetsOf(Nat)
    <3>1. i \in Int /\ n \in Int /\ i..n \in SUBSET Nat
      OBVIOUS
    <3> QED
      BY <3>1, FS_Interval, Zenon DEF FiniteSubsetsOf
  <2> QED
    BY <2>1, Zenon
<1> HIDE DEF T
<1>2. PICK x \in T : \A y \in T : ~ (<<y, x>> \in StrictSubsetOrdering(Nat))
  BY <1>1, FS_StrictSubsetOrderingWellFounded, WFMin, Zenon
<1>3. PICK i \in S : x = i..n
  BY <1>2, Zenon DEF T
<1>4. ASSUME NEW j \in S, j > i PROVE FALSE
  <2>1. j..n \in T
    BY Zenon DEF T
  <2>2. i \notin j..n /\ i \in i..n /\ j..n \subseteq i..n /\ j..n \in SUBSET Nat /\ i..n \in SUBSET Nat
    BY <1>4
  <2>3. <<j..n, x>> \in StrictSubsetOrdering(Nat)
    BY <1>3, <2>2, Zenon DEF StrictSubsetOrdering
  <2> QED
    BY <1>2, <2>1, <2>3, Zenon
<1> QED
  BY <1>4

\* ... and a first one.
LEMMA FirstPosition ==
  ASSUME NEW n \in Nat, NEW S \in SUBSET (1..n), S # {}
  PROVE  \E i \in S : \A j \in S : i <= j
<1> DEFINE T == {n + 1 - i : i \in S}
<1>1. T \in SUBSET (1..n) /\ T # {}
  <2>1. \A i \in S : n + 1 - i \in 1..n
    OBVIOUS
  <2> QED
    BY <2>1, Zenon
<1>2. PICK m \in T : \A j \in T : j <= m
  <2> HIDE DEF T
  <2> QED
    BY <1>1, LastPosition, Zenon
<1>3. PICK i \in S : m = n + 1 - i
  BY <1>2, Zenon
<1>4. ASSUME NEW j \in S PROVE i <= j
  <2>1. n + 1 - j \in T
    BY Zenon
  <2>2. n + 1 - j <= n + 1 - i
    BY <1>2, <1>3, <2>1, Zenon
  <2> QED
    BY <2>2
<1> QED
  BY <1>4, Zenon

\* The position LastOn chooses.
LEMMA LastChosen ==
  ASSUME NEW n \in Nat, NEW I \in SUBSET (1..n), I # {}, NEW last,
         last = CHOOSE i \in I : \A j \in I : j <= i
  PROVE  last \in I /\ \A j \in I : j <= last
BY LastPosition, Zenon

\* What the database holds after a batch: the value of the last modification of
\* a key, or what was there.
LEMMA DbAfterLast ==
  ASSUME NEW b \in Seq(Modifies), NEW k \in Keys
  PROVE  \/ /\ \A i \in 1..Len(b) : b[i][1] # k
            /\ DbAfter(b)[k] = db[k]
         \/ \E i \in 1..Len(b) : /\ b[i][1] = k /\ \A j \in 1..Len(b) : b[j][1] = k => j <= i
                                 /\ DbAfter(b)[k] = b[i][2]
<1> DEFINE I == {i \in 1..Len(b) : b[i][1] = k}
           last == CHOOSE i \in I : \A j \in I : j <= i
<1>1. DbAfter(b)[k] = IF I = {} THEN db[k] ELSE b[last][2]
  BY Zenon DEF DbAfter, LastOn
<1>2. ASSUME I # {} PROVE last \in I /\ \A j \in I : j <= last
  <2>1. Len(b) \in Nat /\ I \in SUBSET (1..Len(b))
    OBVIOUS
  <2>2. last = CHOOSE i \in I : \A j \in I : j <= i
    BY Zenon
  <2> HIDE DEF I, last
  <2> QED
    BY <1>2, <2>1, <2>2, LastChosen, Zenon
<1> QED
  BY <1>1, <1>2, Zenon

\* The same of a cache entry.
LEMMA CacheAfterLast ==
  ASSUME NEW b \in Seq(Modifies), NEW e \in CacheKeys
  PROVE  \/ /\ \A i \in 1..Len(b) : CacheKeyOf[b[i][1]] # e
            /\ CacheAfter(b)[e] = cache[e]
         \/ \E i \in 1..Len(b) : /\ CacheKeyOf[b[i][1]] = e
                                 /\ \A j \in 1..Len(b) : CacheKeyOf[b[j][1]] = e => j <= i
                                 /\ CacheAfter(b)[e] = b[i][2]
<1> DEFINE I == {i \in 1..Len(b) : CacheKeyOf[b[i][1]] = e}
           last == CHOOSE i \in I : \A j \in I : j <= i
<1>1. CacheAfter(b)[e] = IF I = {} THEN cache[e] ELSE b[last][2]
  BY Zenon DEF CacheAfter, LastOn
<1>2. ASSUME I # {} PROVE last \in I /\ \A j \in I : j <= last
  <2>1. Len(b) \in Nat /\ I \in SUBSET (1..Len(b))
    OBVIOUS
  <2>2. last = CHOOSE i \in I : \A j \in I : j <= i
    BY Zenon
  <2> HIDE DEF I, last
  <2> QED
    BY <1>2, <2>1, <2>2, LastChosen, Zenon
<1> QED
  BY <1>1, <1>2, Zenon

\* A batch that is committed to a tier removes nothing from it.
LEMMA CommitKeepsValues ==
  ASSUME NEW b \in Seq(Modifies), NEW k \in Keys, NEW before, NEW after,
         after = LastPut(b, k, before)
  PROVE  /\ after = before \/ after \in Values
         /\ before # None \/ k \in Puts(b) => after # None
<1> DEFINE I == {i \in 1..Len(b) : b[i][1] = k /\ b[i][2] # None}
           last == CHOOSE i \in I : \A j \in I : j <= i
<1>1. after = IF I = {} THEN before ELSE b[last][2]
  BY Zenon DEF LastPut, LastOn
<1>2. ASSUME I # {} PROVE last \in I
  <2>1. Len(b) \in Nat /\ I \in SUBSET (1..Len(b))
    OBVIOUS
  <2>2. last = CHOOSE i \in I : \A j \in I : j <= i
    BY Zenon
  <2> HIDE DEF I, last
  <2> QED
    BY <1>2, <2>1, <2>2, LastChosen, Zenon
<1>3. k \in Puts(b) => I # {}
  BY Zenon DEF Puts
<1>4. \A i \in I : b[i][2] \in Values /\ b[i][2] # None
  BY DEF Modifies
<1> QED
  BY <1>1, <1>2, <1>3, <1>4, Zenon

-----------------------------------------------------------------------------
(* The raw API: types, and what a step does to the task of a call. *)

AllValues == Values \cup {None} \cup StoredValues
ContentT == [Keys -> AllValues]
TaskT ==
  [pc : {"idle", "apply", "cache", "get", "bump", "read", "fill", "scan"}, batch : Seq(Modifies),
   i : Nat \ {0}, d : 1..3, key : Keys \cup {0}, got : AllValues, snaps : Seq(ContentT),
   alone : BOOLEAN]
MoverT ==
  [pc : {"idle", "open", "scan", "put", "delete", "clear"}, tier : 1..3, snap : ContentT,
   at : Nat, target : Tiers, moved : Nat]

\* A call works on a batch or on a key.
ShapeOK(t) ==
  /\ t.pc \notin {"apply", "cache"} => t.batch = <<>>
  /\ t.pc \in {"idle", "apply", "cache"} => t.key = 0
  /\ t.pc \notin {"idle", "apply", "cache"} => t.key \in Keys
  /\ t.pc = "cache" => backend = "standalone"

KvTypeOK ==
  /\ tiers \in [Tiers -> ContentT] /\ mover \in MoverT
  /\ db \in ContentT /\ cache \in [CacheKeys -> AllValues]
  /\ task \in [Clients -> TaskT]
  /\ \A c \in Clients : ShapeOK(task[c])

\* What a step of a call makes of its task: it ends, or goes on with its batch
\* and key.
Proceeds(c, f) ==
  /\ f \in TaskT /\ task' = [task EXCEPT ![c] = f]
  /\ f = NoTask \/ (f.batch = task[c].batch /\ f.key = task[c].key)
  /\ ShapeOK(f)
  /\ f.pc = "cache" => WriteDb(c)
  /\ f.pc = "fill" => GetRead(c) /\ f.got = db[f.key]

\* The tiers.
LEMMA TierFacts ==
  /\ Tiers = {"hot", "warm", "cold"}
  /\ \A d \in 1..3 : TierOrder[d] \in Tiers
BY DEF Tiers, TierOrder, Range

\* A task that does nothing is well formed.
LEMMA NoTaskOK ==
  /\ NoTask \in TaskT /\ ShapeOK(NoTask)
  /\ NoTask.batch = <<>> /\ NoTask.key = 0 /\ NoTask.pc = "idle"
BY DEF NoTask, TaskT, ShapeOK, AllValues

\* The calls that begin.
LEMMA CallBegins ==
  ASSUME NEW c \in Clients, RunCli(c) \/ MultiLevelService(c) \/ BatchWrite(c)
  PROVE  \E t \in TaskT : Begin(c, t) /\ ShapeOK(t) /\ t.pc \in {"apply", "get", "scan"}
<1>1. ASSUME NEW b \in Seq(Modifies), Write(c, b)
      PROVE  \E t \in TaskT : Begin(c, t) /\ ShapeOK(t) /\ t.pc \in {"apply", "get", "scan"}
  <2> DEFINE t == [NoTask EXCEPT !.pc = "apply", !.batch = b]
  <2>1. t \in TaskT /\ t.pc = "apply" /\ t.key = 0
    BY NoTaskOK, Zenon DEF TaskT
  <2>2. Begin(c, t)
    BY <1>1, Zenon DEF Write
  <2> HIDE DEF t
  <2> QED
    BY <2>1, <2>2, Zenon DEF ShapeOK
<1>2. ASSUME NEW k \in Keys, NEW pc \in {"get", "scan"}, Begin(c, [NoTask EXCEPT !.pc = pc, !.key = k])
      PROVE  \E t \in TaskT : Begin(c, t) /\ ShapeOK(t) /\ t.pc \in {"apply", "get", "scan"}
  <2> DEFINE t == [NoTask EXCEPT !.pc = pc, !.key = k]
  <2>1. t \in TaskT /\ t.pc = pc /\ t.key = k /\ t.batch = <<>>
    BY NoTaskOK, Zenon DEF TaskT
  <2>2. Begin(c, t)
    BY <1>2, Zenon
  <2> HIDE DEF t
  <2> QED
    BY <2>1, <2>2, Zenon DEF ShapeOK
<1>3. ASSUME NEW k \in Keys, NEW v \in Values \cup {None} PROVE <<<<k, v>>>> \in Seq(Modifies)
  BY DEF Modifies
<1>4. CASE RunCli(c)
  BY <1>1, <1>2, <1>3, <1>4, Zenon DEF RunCli, CliGet, CliSet, CliDel, CliScan, GrpcRawGet, GrpcRawPut,
     GrpcRawDelete, GrpcRawScan, RawGet, RawPut, RawDelete, RawScan
<1>5. CASE MultiLevelService(c)
  <2>1. PICK rs \in DOMAIN FullKey :
          \/ \E v \in Values : MultiLevelPut(c, rs[1], rs[2], v)
          \/ MultiLevelGet(c, rs[1], rs[2])
          \/ MultiLevelDelete(c, rs[1], rs[2])
    BY <1>5, Zenon DEF MultiLevelService
  <2> DEFINE k == FullKey[<<rs[1], rs[2]>>]
  <2>2. k \in Keys
    BY RawKvAssumption, Zenon
  <2>3. \/ \E v \in Values : Write(c, <<<<k, v>>>>)
        \/ RawGet(c, k) \/ Write(c, <<<<k, None>>>>)
    BY <2>1, Zenon DEF MultiLevelPut, MultiLevelGet, MultiLevelDelete
  <2> HIDE DEF k
  <2> QED
    BY <1>1, <1>2, <1>3, <2>2, <2>3, Zenon DEF RawGet
<1>6. CASE BatchWrite(c)
  <2>1. Batches \subseteq Seq(Modifies)
    BY RawKvAssumption, Zenon
  <2> QED
    BY <1>1, <1>6, <2>1, Zenon DEF BatchWrite
<1> QED
  BY <1>4, <1>5, <1>6, Zenon

\* A call that begins changes its own task; of the others only the ghost.
LEMMA BeginTasks ==
  ASSUME KvTypeOK, NEW c \in Clients, NEW t \in TaskT, ShapeOK(t), Begin(c, t)
  PROVE  /\ task' \in [Clients -> TaskT]
         /\ task'[c].pc = t.pc /\ task'[c].batch = t.batch /\ task'[c].key = t.key
         /\ \A o \in Clients \ {c} :
              /\ task'[o].pc = task[o].pc /\ task'[o].batch = task[o].batch
              /\ task'[o].key = task[o].key /\ task'[o].got = task[o].got
<1> DEFINE alone == mover.pc = "idle" /\ \A o \in Clients : ~Busy(o)
           u == [t EXCEPT !.alone = alone]
<1>1. task' = [NotAlone(task) EXCEPT ![c] = u]
  BY Zenon DEF Begin
<1>2. alone \in BOOLEAN
  BY Zenon
<1> HIDE DEF alone
<1>3. u \in TaskT /\ u.pc = t.pc /\ u.batch = t.batch /\ u.key = t.key
  BY <1>2, Zenon DEF TaskT
<1> HIDE DEF u
<1>4. ASSUME NEW o \in Clients
      PROVE  LET n == NotAlone(task)[o]
             IN  /\ n \in TaskT /\ n.pc = task[o].pc /\ n.batch = task[o].batch
                 /\ n.key = task[o].key /\ n.got = task[o].got
  <2>1. task[o] \in TaskT
    BY Zenon DEF KvTypeOK
  <2>2. NotAlone(task)[o] = [task[o] EXCEPT !.alone = FALSE]
    BY Zenon DEF NotAlone
  <2> QED
    BY <2>1, <2>2, Zenon DEF TaskT
<1>5. DOMAIN NotAlone(task) = Clients /\ NotAlone(task) \in [Clients -> TaskT]
  BY <1>4, Zenon DEF NotAlone
<1> QED
  BY <1>1, <1>3, <1>4, <1>5, Zenon

\* A call that ends.
LEMMA ReturnProceeds ==
  ASSUME KvTypeOK, NEW c \in Clients, Return(c)
  PROVE  Proceeds(c, NoTask)
BY NoTaskOK, Zenon DEF Return, Proceeds

\* The steps of a call.
LEMMA CallProceeds ==
  ASSUME KvTypeOK, NEW c \in Clients, Step(c) \/ CallFails(c)
  PROVE  \E f : Proceeds(c, f)
<1> DEFINE t == task[c]
<1>0. t \in TaskT /\ ShapeOK(t) /\ DOMAIN task = Clients
  BY Zenon DEF KvTypeOK
<1>1. CASE Return(c)
  BY <1>1, ReturnProceeds, Zenon
<1>2. CASE ApplyPut(c)
  <2> DEFINE n == t.i + 1
             f == [t EXCEPT !.i = n]
  <2>1. n \in Nat \ {0}
    BY <1>0 DEF TaskT
  <2>2. task' = [task EXCEPT ![c] = f]
    BY <1>2, <1>0, Zenon DEF ApplyPut
  <2> HIDE DEF n
  <2>3. f \in TaskT /\ f.pc = t.pc /\ f.batch = t.batch /\ f.key = t.key
    BY <1>0, <2>1, Zenon DEF TaskT
  <2>4. t.pc = "apply"
    BY <1>2, Zenon DEF ApplyPut
  <2> HIDE DEF f
  <2> QED
    BY <1>0, <2>2, <2>3, <2>4, Zenon DEF Proceeds, ShapeOK
<1>3. CASE ApplyDelete(c)
  <2> DEFINE n == IF t.d < 3 THEN t.d + 1 ELSE 1
             i == IF t.d < 3 THEN t.i ELSE t.i + 1
             f == [t EXCEPT !.d = n, !.i = i]
  <2>1. n \in 1..3 /\ i \in Nat \ {0}
    BY <1>0 DEF TaskT
  <2>2. task' = [task EXCEPT ![c] = f]
    BY <1>3, <1>0, Zenon DEF ApplyDelete
  <2> HIDE DEF n, i
  <2>3. f \in TaskT /\ f.pc = t.pc /\ f.batch = t.batch /\ f.key = t.key
    BY <1>0, <2>1, Zenon DEF TaskT
  <2>4. t.pc = "apply"
    BY <1>3, Zenon DEF ApplyDelete
  <2> HIDE DEF f
  <2> QED
    BY <1>0, <2>2, <2>3, <2>4, Zenon DEF Proceeds, ShapeOK
<1>4. CASE WriteDb(c)
  <2> DEFINE f == [t EXCEPT !.pc = "cache"]
  <2>1. task' = [task EXCEPT ![c] = f] /\ t.pc = "apply" /\ backend = "standalone"
    BY <1>4, <1>0, Zenon DEF WriteDb
  <2>2. f \in TaskT /\ f.pc = "cache" /\ f.batch = t.batch /\ f.key = t.key
    BY <1>0, Zenon DEF TaskT
  <2> HIDE DEF f
  <2> QED
    BY <1>0, <1>4, <2>1, <2>2, Zenon DEF Proceeds, ShapeOK
<1>5. CASE GetTier(c)
  <2> DEFINE v == tiers[TierOrder[t.d]][t.key]
             n == t.d + 1
             f == [t EXCEPT !.pc = "bump", !.got = v]
             g == [t EXCEPT !.d = n]
  <2>1. t.pc = "get" /\ t.key \in Keys /\ v \in AllValues
    BY <1>0, <1>5, TierFacts DEF GetTier, ShapeOK, KvTypeOK, TaskT, ContentT
  <2>2. \/ task' = [task EXCEPT ![c] = f]
        \/ task' = [task EXCEPT ![c] = g] /\ t.d < 3
        \/ Return(c)
    BY <1>5, <1>0, Zenon DEF GetTier
  <2> HIDE DEF v
  <2>3. f \in TaskT /\ f.pc = "bump" /\ f.batch = t.batch /\ f.key = t.key
    BY <1>0, <2>1, Zenon DEF TaskT
  <2>4. t.d < 3 => n \in 1..3
    BY <1>0 DEF TaskT
  <2> HIDE DEF n
  <2>5. t.d < 3 => g \in TaskT /\ g.pc = t.pc /\ g.batch = t.batch /\ g.key = t.key
    BY <1>0, <2>4, Zenon DEF TaskT
  <2> HIDE DEF f, g
  <2>6. CASE task' = [task EXCEPT ![c] = f]
    BY <1>0, <2>1, <2>3, <2>6, Zenon DEF Proceeds, ShapeOK
  <2>7. CASE task' = [task EXCEPT ![c] = g] /\ t.d < 3
    BY <1>0, <2>1, <2>5, <2>7, Zenon DEF Proceeds, ShapeOK
  <2> QED
    BY <1>1, <2>2, <2>6, <2>7, Zenon
<1>6. CASE GetPeek(c)
  <2> DEFINE f == [t EXCEPT !.pc = "read"]
  <2>1. (task' = [task EXCEPT ![c] = f] \/ Return(c)) /\ t.pc = "get"
    BY <1>6, <1>0, Zenon DEF GetPeek
  <2>2. f \in TaskT /\ f.pc = "read" /\ f.batch = t.batch /\ f.key = t.key
    BY <1>0, Zenon DEF TaskT
  <2> HIDE DEF f
  <2>3. CASE task' = [task EXCEPT ![c] = f]
    BY <1>0, <2>1, <2>2, <2>3, Zenon DEF Proceeds, ShapeOK
  <2> QED
    BY <1>1, <2>1, <2>3, Zenon
<1>7. CASE GetRead(c)
  <2> DEFINE f == [t EXCEPT !.pc = "fill", !.got = db[t.key]]
  <2>1. (task' = [task EXCEPT ![c] = f] \/ Return(c)) /\ t.pc = "read" /\ t.key \in Keys
    BY <1>7, <1>0, Zenon DEF GetRead, ShapeOK
  <2>2. db[t.key] \in AllValues
    BY <2>1, Zenon DEF KvTypeOK, ContentT
  <2>3. f \in TaskT /\ f.pc = "fill" /\ f.batch = t.batch /\ f.key = t.key /\ f.got = db[t.key]
    BY <1>0, <2>2, Zenon DEF TaskT
  <2> HIDE DEF f
  <2>4. CASE task' = [task EXCEPT ![c] = f]
    BY <1>0, <1>7, <2>1, <2>3, <2>4, Zenon DEF Proceeds, ShapeOK
  <2> QED
    BY <1>1, <2>1, <2>4, Zenon
<1>8. CASE ScanOpen(c)
  <2> DEFINE n == t.d + 1
             content == tiers[TierOrder[t.d]]
             more == Append(t.snaps, content)
             f == [t EXCEPT !.d = n, !.snaps = more]
  <2>1. ((task' = [task EXCEPT ![c] = f] /\ t.d < 3) \/ Return(c)) /\ t.pc = "scan"
    BY <1>8, <1>0, Zenon DEF ScanOpen
  <2>2. content \in ContentT
    BY <1>0, TierFacts, Zenon DEF KvTypeOK, TaskT
  <2> HIDE DEF content
  <2>3. more \in Seq(ContentT) /\ (t.d < 3 => n \in 1..3)
    BY <1>0, <2>2 DEF TaskT
  <2> HIDE DEF more, n
  <2>4. t.d < 3 => f \in TaskT /\ f.pc = t.pc /\ f.batch = t.batch /\ f.key = t.key
    BY <1>0, <2>3, Zenon DEF TaskT
  <2> HIDE DEF f
  <2>5. CASE task' = [task EXCEPT ![c] = f] /\ t.d < 3
    BY <1>0, <2>1, <2>4, <2>5, Zenon DEF Proceeds, ShapeOK
  <2> QED
    BY <1>1, <2>1, <2>5, Zenon
<1>9. ApplyCommit(c) \/ WriteCache(c) \/ GetBump(c) \/ GetFill(c) \/ CallFails(c) => Return(c)
  BY Zenon DEF ApplyCommit, WriteCache, GetBump, GetFill, CallFails, Acknowledge
<1> QED
  BY <1>1, <1>2, <1>3, <1>4, <1>5, <1>6, <1>7, <1>8, <1>9, Zenon DEF Step

\* Every step keeps the types of tasks.
LEMMA TasksTyped ==
  ASSUME KvTypeOK, Next
  PROVE  /\ backend' = backend
         /\ task' \in [Clients -> TaskT] /\ \A c \in Clients : ShapeOK(task[c])'
<1>1. ASSUME NEW c \in Clients, RunCli(c) \/ MultiLevelService(c) \/ BatchWrite(c)
      PROVE  backend' = backend /\ task' \in [Clients -> TaskT] /\ \A o \in Clients : ShapeOK(task[o])'
  <2>1. PICK t \in TaskT : Begin(c, t) /\ ShapeOK(t) /\ t.pc \in {"apply", "get", "scan"}
    BY <1>1, CallBegins, Zenon
  <2>2. backend' = backend
    BY <2>1, Zenon DEF Begin
  <2>3. /\ task' \in [Clients -> TaskT]
        /\ task'[c].pc = t.pc /\ task'[c].batch = t.batch /\ task'[c].key = t.key
        /\ \A o \in Clients \ {c} :
             /\ task'[o].pc = task[o].pc /\ task'[o].batch = task[o].batch
             /\ task'[o].key = task[o].key
    BY <2>1, BeginTasks, Zenon
  <2>4. \A o \in Clients : ShapeOK(task[o])
    BY Zenon DEF KvTypeOK
  <2> QED
    BY <2>1, <2>2, <2>3, <2>4, Zenon DEF ShapeOK
<1>2. ASSUME NEW c \in Clients, Step(c) \/ CallFails(c)
      PROVE  backend' = backend /\ task' \in [Clients -> TaskT] /\ \A o \in Clients : ShapeOK(task[o])'
  <2>1. PICK f : Proceeds(c, f)
    BY <1>2, CallProceeds, Zenon
  <2>2. backend' = backend
    BY <1>2, Zenon DEF Step, CallFails, ApplyPut, ApplyDelete, ApplyCommit, WriteDb, WriteCache, GetTier,
       GetBump, GetPeek, GetRead, GetFill, ScanOpen, Acknowledge, ghostsUnchanged
  <2>3. task \in [Clients -> TaskT] /\ \A o \in Clients : ShapeOK(task[o])
    BY Zenon DEF KvTypeOK
  <2>4. \A o \in Clients : ShapeOK(task'[o]) /\ task'[o] \in TaskT
    BY <2>1, <2>3, Zenon DEF Proceeds
  <2> QED
    BY <2>1, <2>2, <2>3, <2>4, Zenon DEF Proceeds, ShapeOK
<1>3. ASSUME task' = NotAlone(task), backend' = backend
      PROVE  task' \in [Clients -> TaskT] /\ \A o \in Clients : ShapeOK(task[o])'
  <2>1. ASSUME NEW o \in Clients
        PROVE  /\ task'[o] \in TaskT /\ task'[o].pc = task[o].pc /\ task'[o].batch = task[o].batch
               /\ task'[o].key = task[o].key
    <3>1. task[o] \in TaskT
      BY Zenon DEF KvTypeOK
    <3>2. task'[o] = [task[o] EXCEPT !.alone = FALSE]
      BY <1>3, Zenon DEF NotAlone
    <3> QED
      BY <3>1, <3>2, Zenon DEF TaskT
  <2>2. \A o \in Clients : ShapeOK(task[o])
    BY Zenon DEF KvTypeOK
  <2> QED
    BY <1>3, <2>1, <2>2, Zenon DEF NotAlone, ShapeOK
<1>4. CASE Rebalance
  <2>1. backend' = backend /\ (task' = NotAlone(task) \/ task' = task)
    BY <1>4, Zenon DEF Rebalance, kvVars
  <2> QED
    BY <1>3, <2>1, Zenon DEF KvTypeOK, ShapeOK
<1>5. CASE EvictEntry
  BY <1>5, Zenon DEF EvictEntry, kvVars, KvTypeOK, ShapeOK
<1>6. CASE Crash
  BY <1>6, NoTaskOK, Zenon DEF Crash, ShapeOK
<1> QED
  BY <1>1, <1>2, <1>4, <1>5, <1>6, Zenon DEF Next

\* What the steps of a call do to the databases.
LEMMA StoresTyped ==
  ASSUME KvTypeOK, Next
  PROVE  /\ tiers' \in [Tiers -> ContentT] /\ db' \in ContentT
         /\ cache' \in [CacheKeys -> AllValues]
<1> USE DEF ContentT
<1>0. /\ tiers \in [Tiers -> [Keys -> AllValues]] /\ db \in [Keys -> AllValues]
      /\ cache \in [CacheKeys -> AllValues]
      /\ None \in AllValues /\ Values \subseteq AllValues
  <2>1. None \in AllValues /\ Values \subseteq AllValues
    BY Zenon DEF AllValues
  <2> QED
    BY <2>1, Zenon DEF KvTypeOK
<1>1. ASSUME NEW b \in Seq(Modifies), NEW i \in 1..Len(b) PROVE b[i][1] \in Keys /\ b[i][2] \in AllValues
  BY DEF Modifies, AllValues
<1>2. \A c \in Clients : task[c] \in TaskT /\ task[c].batch \in Seq(Modifies)
  <2>1. \A c \in Clients : task[c] \in TaskT
    BY Zenon DEF KvTypeOK
  <2> QED
    BY <2>1, Zenon DEF TaskT
<1>3. ASSUME NEW c \in Clients, ApplyDelete(c)
      PROVE  tiers' \in [Tiers -> ContentT]
  <2>1. tiers' = [tiers EXCEPT ![TierOrder[task[c].d]][Current(c)[1]] = None]
    BY <1>3, Zenon DEF ApplyDelete
  <2> QED
    BY <1>0, <2>1, Zenon
<1>4. ASSUME NEW c \in Clients, ApplyCommit(c)
      PROVE  tiers' \in [Tiers -> ContentT]
  <2> DEFINE warm == [k \in Keys |-> LastPut(task[c].batch, k, tiers["warm"][k])]
  <2>1. tiers' = [tiers EXCEPT !["warm"] = warm]
    BY <1>4, Zenon DEF ApplyCommit
  <2>2. ASSUME NEW k \in Keys PROVE warm[k] \in AllValues
    <3>0. task[c].batch \in Seq(Modifies) /\ warm[k] = LastPut(task[c].batch, k, tiers["warm"][k])
      BY <1>2, Zenon
    <3>1. warm[k] = tiers["warm"][k] \/ warm[k] \in Values
      BY <3>0, CommitKeepsValues, Zenon
    <3> QED
      BY <1>0, <3>0, <3>1, TierFacts, Zenon
  <2>3. warm \in [Keys -> AllValues]
    BY <2>2, Zenon
  <2> HIDE DEF warm
  <2> QED
    BY <1>0, <2>1, <2>3, Zenon
<1>5. ASSUME NEW c \in Clients PROVE DbAfter(task[c].batch) \in ContentT
  <2>1. ASSUME NEW k \in Keys PROVE DbAfter(task[c].batch)[k] \in AllValues
    <3> DEFINE b == task[c].batch
    <3>1. b \in Seq(Modifies)
      BY <1>2, Zenon
    <3> HIDE DEF b
    <3>2. DbAfter(b)[k] \in AllValues
      BY <1>0, <1>1, <3>1, DbAfterLast, Zenon
    <3> QED
      BY <3>2, Zenon DEF b
  <2>2. DbAfter(task[c].batch) = [k \in Keys |-> DbAfter(task[c].batch)[k]]
    BY Zenon DEF DbAfter
  <2> QED
    BY <2>1, <2>2, Zenon
<1>6. ASSUME NEW c \in Clients PROVE CacheAfter(task[c].batch) \in [CacheKeys -> AllValues]
  <2>1. ASSUME NEW e \in CacheKeys PROVE CacheAfter(task[c].batch)[e] \in AllValues
    <3> DEFINE b == task[c].batch
    <3>1. b \in Seq(Modifies)
      BY <1>2, Zenon
    <3> HIDE DEF b
    <3>2. CacheAfter(b)[e] \in AllValues
      BY <1>0, <1>1, <3>1, CacheAfterLast, Zenon
    <3> QED
      BY <3>2, Zenon DEF b
  <2>2. CacheAfter(task[c].batch) = [e \in CacheKeys |-> CacheAfter(task[c].batch)[e]]
    BY Zenon DEF CacheAfter
  <2> QED
    BY <2>1, <2>2, Zenon
<1>7. ASSUME NEW c \in Clients, GetFill(c) PROVE cache' \in [CacheKeys -> AllValues]
  <2>1. task[c].got \in AllValues
    BY <1>2, Zenon DEF TaskT
  <2> QED
    BY <1>0, <1>7, <2>1, Zenon DEF GetFill
<1>8. ASSUME MoverStep PROVE tiers' \in [Tiers -> ContentT]
  <2>1. \/ UNCHANGED tiers
        \/ tiers' = [tiers EXCEPT ![mover.target][mover.at] = mover.snap[mover.at]]
        \/ tiers' = [tiers EXCEPT ![CurrentTier][mover.at] = None]
    BY <1>8, Zenon DEF MoverStep, MoverOpen, MoverScan, MoverPut, MoverDelete, MoverClear
  <2>2. ASSUME mover.at \in Keys PROVE mover.snap[mover.at] \in AllValues
    BY <2>2, Zenon DEF KvTypeOK, MoverT
  <2> QED
    BY <1>0, <2>1, <2>2
<1>9. ASSUME NEW c \in Clients, Step(c)
      PROVE  /\ ApplyDelete(c) \/ ApplyCommit(c) \/ tiers' = tiers
             /\ db' = DbAfter(task[c].batch) \/ db' = db
             /\ GetFill(c) \/ cache' = CacheAfter(task[c].batch) \/ cache' = cache
  BY <1>9, Zenon DEF Step, ApplyPut, ApplyDelete, ApplyCommit, WriteDb, WriteCache, GetTier, GetBump,
     GetPeek, GetRead, GetFill, ScanOpen, tieredUnchanged, standaloneUnchanged
<1>10. ASSUME NEW c \in Clients, RunCli(c) \/ MultiLevelService(c) \/ BatchWrite(c) \/ CallFails(c)
       PROVE  UNCHANGED <<tiers, db, cache>>
  BY <1>10, CallBegins, Zenon DEF CallFails, Begin, tieredUnchanged, standaloneUnchanged
<1>11. CASE Rebalance
  <2>1. MoverStep \/ tiers' = tiers
    BY <1>11, Zenon DEF Rebalance, MoverStart, MoverFail
  <2>2. db' = db /\ cache' = cache
    BY <1>11, Zenon DEF Rebalance, standaloneUnchanged
  <2> QED
    BY <1>0, <1>8, <2>1, <2>2, Zenon
<1>12. CASE EvictEntry
  <2>1. PICK e \in CacheKeys : Evict(e) /\ UNCHANGED tiers
    BY <1>12, Zenon DEF EvictEntry, tieredUnchanged
  <2> QED
    BY <1>0, <2>1, Zenon DEF Evict
<1>13. CASE Crash
  BY <1>0, <1>13, Zenon DEF Crash, EmptyCache
<1> QED
  BY <1>0, <1>3, <1>4, <1>5, <1>6, <1>7, <1>9, <1>10, <1>11, <1>12, <1>13, Zenon DEF Next

-----------------------------------------------------------------------------
(* The mover. *)

\* The mover is about to move a copy it has read, to another tier.
Moving(m) ==
  m.pc \in {"put", "delete"} =>
    m.at \in Keys /\ m.snap[m.at] # None /\ m.target # TierOrder[m.tier]

LEMMA IdleOK == Idle \in MoverT /\ Moving(Idle) /\ Idle.pc = "idle"
<1>1. NoKeys \in ContentT
  BY Zenon DEF NoKeys, ContentT, AllValues
<1> QED
  BY <1>1, TierFacts DEF Idle, MoverT, Moving

\* A round of the mover.
LEMMA MoverTyped ==
  ASSUME KvTypeOK, Moving(mover), MoverStart \/ MoverStep \/ MoverFail
  PROVE  mover' \in MoverT /\ Moving(mover')
<1> DEFINE m == mover
<1>0. m \in MoverT
  BY Zenon DEF KvTypeOK
<1>1. ASSUME NEW pc \in {"open", "scan", "clear"}
      PROVE  [m EXCEPT !.pc = pc] \in MoverT /\ Moving([m EXCEPT !.pc = pc])
  BY <1>0, Zenon DEF MoverT, Moving
<1>2. CASE MoverStart
  BY <1>2, IdleOK, Zenon DEF MoverStart, MoverT, Moving
<1>3. CASE MoverOpen
  <2> DEFINE content == tiers[CurrentTier]
             f == [m EXCEPT !.pc = "scan", !.snap = content, !.at = 1]
  <2>1. mover' = f
    BY <1>3, Zenon DEF MoverOpen
  <2>2. content \in ContentT
    BY <1>0, TierFacts, Zenon DEF KvTypeOK, MoverT, CurrentTier
  <2> HIDE DEF content
  <2>3. f \in MoverT /\ f.pc = "scan"
    BY <1>0, <2>2, Zenon DEF MoverT
  <2> HIDE DEF f
  <2> QED
    BY <2>1, <2>3, Zenon DEF Moving
<1>4. CASE MoverScan
  <2>1. CASE mover' = [m EXCEPT !.pc = "clear"]
    BY <1>1, <2>1, Zenon
  <2>2. CASE mover' = [m EXCEPT !.pc = "open", !.tier = @ + 1] /\ m.tier # 3
    <3> DEFINE n == m.tier + 1
               f == [m EXCEPT !.pc = "open", !.tier = n]
    <3>1. n \in 1..3 /\ mover' = f
      BY <1>0, <2>2 DEF MoverT
    <3> HIDE DEF n
    <3>2. f \in MoverT /\ f.pc = "open"
      BY <1>0, <3>1, Zenon DEF MoverT
    <3> HIDE DEF f
    <3> QED
      BY <3>1, <3>2, Zenon DEF Moving
  <2>3. CASE ~(Rest = {} \/ m.moved >= MaxMove)
    <3> DEFINE k == Least(Rest)
               t == DecideTarget(CurrentTier, access[k])
               next == k + 1
               f == [m EXCEPT !.at = next]
               g == [m EXCEPT !.pc = "put", !.at = k, !.target = t]
    <3>1. mover' = (IF t = CurrentTier THEN f ELSE g) /\ m.pc = "scan"
      BY <1>4, <2>3, Zenon DEF MoverScan
    <3>2. k \in Rest
      <4>1. Rest \in SUBSET (1..NKeys) /\ NKeys \in Nat
        BY EngineAssumption, Zenon DEF Rest, Keys
      <4> HIDE DEF k
      <4>2. \E x \in Rest : \A y \in Rest : x <= y
        BY <2>3, <4>1, FirstPosition, Zenon
      <4> QED
        BY <4>2, Zenon DEF Least, k
    <3>3. k \in Keys /\ m.snap[k] # None /\ k \in Nat /\ next \in Nat
      BY <3>2 DEF Rest, Keys
    <3>4. t \in Tiers
      <4>1. CurrentTier \in {"hot", "warm", "cold"}
        BY <1>0, TierFacts, Zenon DEF CurrentTier, MoverT
      <4> HIDE DEF k
      <4> QED
        BY <4>1, TierFacts, Zenon DEF DecideTarget
    <3> HIDE DEF k, t, next
    <3>5. f \in MoverT /\ f.pc = m.pc
      BY <1>0, <3>3, Zenon DEF MoverT
    <3>6. /\ g \in MoverT /\ g.pc = "put" /\ g.at = k /\ g.target = t /\ g.snap = m.snap
          /\ g.tier = m.tier
      BY <1>0, <3>3, <3>4, Zenon DEF MoverT
    <3> HIDE DEF f, g
    <3> QED
      BY <3>1, <3>3, <3>5, <3>6, Zenon DEF Moving, CurrentTier
  <2> QED
    BY <1>4, <2>1, <2>2, <2>3, Zenon DEF MoverScan
<1>5. CASE MoverPut
  <2> DEFINE f == [m EXCEPT !.pc = "delete"]
  <2>1. mover' = f /\ m.pc = "put"
    BY <1>5, Zenon DEF MoverPut
  <2>2. f \in MoverT /\ f.at = m.at /\ f.snap = m.snap /\ f.target = m.target /\ f.tier = m.tier
    BY <1>0, Zenon DEF MoverT
  <2> HIDE DEF f
  <2> QED
    BY <2>1, <2>2, Zenon DEF Moving
<1>6. CASE MoverDelete
  <2> DEFINE n == m.at + 1
             d == m.moved + 1
             f == [m EXCEPT !.pc = "scan", !.at = n, !.moved = d]
  <2>1. mover' = f /\ n \in Nat /\ d \in Nat
    BY <1>0, <1>6 DEF MoverDelete, MoverT
  <2> HIDE DEF n, d
  <2>2. f \in MoverT /\ f.pc = "scan"
    BY <1>0, <2>1, Zenon DEF MoverT
  <2> HIDE DEF f
  <2> QED
    BY <2>1, <2>2, Zenon DEF Moving
<1>7. CASE MoverClear \/ MoverFail
  BY <1>7, IdleOK, Zenon DEF MoverClear, MoverFail
<1> QED
  BY <1>2, <1>3, <1>4, <1>5, <1>6, <1>7, Zenon DEF MoverStep

-----------------------------------------------------------------------------
(* No acknowledged put is lost. *)

KeptOK ==
  /\ Moving(mover)
  /\ kept \subseteq Keys \ erased
  /\ \A c \in Clients : Deletes(task[c].batch) \subseteq erased
  /\ mover.pc = "delete" /\ mover.at \notin erased => tiers[mover.target][mover.at] # None
  /\ \A c \in Clients : task[c].pc = "cache" =>
       \A k \in Puts(task[c].batch) \ erased : db[k] # None
  /\ PutSurvives

\* The keys of a batch.
LEMMA BatchKeys ==
  /\ Puts(<<>>) = {} /\ Deletes(<<>>) = {}
  /\ \A b \in Seq(Modifies) : Puts(b) \subseteq Keys /\ Deletes(b) \subseteq Keys
BY DEF Puts, Deletes, Modifies

\* A step of a call other than the write to the database.
LEMMA ProceedsKeeps ==
  ASSUME KvTypeOK, NEW c \in Clients, NEW f, Proceeds(c, f), ~WriteDb(c)
  PROVE  \A o \in Clients : /\ task'[o].batch = task[o].batch \/ task'[o].batch = <<>>
                            /\ task'[o].pc = "cache" => task'[o] = task[o]
BY NoTaskOK, Zenon DEF Proceeds, KvTypeOK

\* As long as copies only become more, and keys erased, nothing is lost.
LEMMA KeptFrame ==
  ASSUME KvTypeOK, KeptOK, backend' = backend, kept' \subseteq kept \ erased', erased \subseteq erased',
         \/ mover' = mover
         \/ Moving(mover') /\ mover'.pc # "delete",
         \A t \in Tiers, k \in Keys \ erased' : tiers[t][k] # None => tiers'[t][k] # None,
         \A k \in Keys \ erased' : db[k] # None => db'[k] # None,
         \A o \in Clients : /\ Deletes(task'[o].batch) \subseteq erased'
                            /\ task'[o].pc = "cache" =>
                                 task[o].pc = "cache" /\ task'[o].batch = task[o].batch
  PROVE  KeptOK'
<1>1. \A c \in Clients : Puts(task[c].batch) \subseteq Keys
  <2>1. \A c \in Clients : task[c].batch \in Seq(Modifies)
    BY Zenon DEF KvTypeOK, TaskT
  <2> QED
    BY <2>1, BatchKeys, Zenon
<1>2. PutSurvives'
  BY Zenon DEF KeptOK, PutSurvives, HasCopy
<1>3. mover'.pc = "delete" /\ mover'.at \notin erased' => tiers'[mover'.target][mover'.at] # None
  <2>1. CASE mover' = mover
    <3>1. mover.target \in Tiers /\ (mover.pc = "delete" => mover.at \in Keys)
      BY Zenon DEF KvTypeOK, KeptOK, MoverT, Moving
    <3> QED
      BY <2>1, <3>1, Zenon DEF KeptOK
  <2> QED
    BY <2>1, Zenon
<1>4. \A c \in Clients : task'[c].pc = "cache" =>
        \A k \in Puts(task'[c].batch) \ erased' : db'[k] # None
  BY <1>1, Zenon DEF KeptOK
<1> QED
  BY <1>2, <1>3, <1>4, Zenon DEF KeptOK, Moving

\* The writes of a call.
LEMMA KeptWrites ==
  ASSUME KvTypeOK, KeptOK, NEW c \in Clients, NEW f, Proceeds(c, f),
         ApplyDelete(c) \/ ApplyCommit(c) \/ WriteDb(c) \/ WriteCache(c)
  PROVE  KeptOK'
<1> DEFINE b == task[c].batch
<1>0. /\ b \in Seq(Modifies) /\ task[c] \in TaskT /\ Deletes(b) \subseteq erased
      /\ Puts(b) \subseteq Keys /\ Deletes(b) \subseteq Keys
  <2>1. task[c] \in TaskT /\ Deletes(b) \subseteq erased
    BY Zenon DEF KvTypeOK, KeptOK
  <2>2. b \in Seq(Modifies)
    BY <2>1, Zenon DEF TaskT
  <2> QED
    BY <2>1, <2>2, BatchKeys, Zenon
<1>1. \A o \in Clients : Deletes(task[o].batch) \subseteq erased
  BY Zenon DEF KeptOK
<1>2. ASSUME ~WriteDb(c), erased' = erased
      PROVE  \A o \in Clients : /\ Deletes(task'[o].batch) \subseteq erased'
                                /\ task'[o].pc = "cache" =>
                                     task[o].pc = "cache" /\ task'[o].batch = task[o].batch
  BY <1>1, <1>2, ProceedsKeeps, BatchKeys, Zenon
<1>3. kept \subseteq Keys \ erased
  BY Zenon DEF KeptOK
<1>4. CASE ApplyDelete(c)
  <2>1. /\ backend = "tiered" /\ UNCHANGED <<backend, kept, erased, mover, db>>
        /\ task[c].i <= Len(b) /\ Current(c) = b[task[c].i] /\ Current(c)[2] = None
        /\ tiers' = [tiers EXCEPT ![TierOrder[task[c].d]][Current(c)[1]] = None]
    BY <1>4, Zenon DEF ApplyDelete, ghostsUnchanged, standaloneUnchanged, More, Current
  <2>2. task[c].i \in 1..Len(b)
    BY <1>0, <2>1 DEF TaskT
  <2>3. Current(c)[1] \in Deletes(b)
    BY <2>1, <2>2, Zenon DEF Deletes
  <2>4. Current(c)[1] \in erased
    BY <1>0, <2>3, Zenon
  <2>5. \A t \in Tiers, k \in Keys \ erased' : tiers'[t][k] = tiers[t][k]
    BY <2>1, <2>4, Zenon DEF KvTypeOK, ContentT
  <2>6. ~WriteDb(c)
    BY <2>1, Zenon DEF WriteDb
  <2> QED
    BY <1>2, <1>3, <2>1, <2>5, <2>6, KeptFrame, Zenon
<1>5. CASE ApplyCommit(c)
  <2>1. /\ backend = "tiered" /\ UNCHANGED <<backend, erased, mover, db>>
        /\ kept' = kept \cup (Puts(b) \ erased)
        /\ tiers' = [tiers EXCEPT !["warm"] = [k \in Keys |-> LastPut(b, k, tiers["warm"][k])]]
    BY <1>5, Zenon DEF ApplyCommit, Acknowledge, standaloneUnchanged
  <2>2. \A k \in Keys : tiers'["warm"][k] = LastPut(b, k, tiers["warm"][k])
    BY <2>1, TierFacts, Zenon DEF KvTypeOK, ContentT
  <2>3. \A t \in Tiers \ {"warm"} : tiers'[t] = tiers[t]
    BY <2>1, Zenon DEF KvTypeOK
  <2>4. ASSUME NEW k \in Keys
        PROVE  tiers["warm"][k] # None \/ k \in Puts(b) => tiers'["warm"][k] # None
    BY <1>0, <2>2, CommitKeepsValues, Zenon
  <2>5. ~WriteDb(c)
    BY <2>1, Zenon DEF WriteDb
  <2>6. \A t \in Tiers, k \in Keys : tiers[t][k] # None => tiers'[t][k] # None
    BY <2>3, <2>4, Zenon
  <2>7. PutSurvives'
    BY <1>0, <1>3, <2>1, <2>4, <2>6, TierFacts, Zenon DEF KeptOK, PutSurvives, HasCopy
  <2>8. \A o \in Clients : task'[o].pc = "cache" => \A k \in Puts(task'[o].batch) \ erased' : db'[k] # None
    BY <1>2, <2>1, <2>5, Zenon DEF KeptOK
  <2>9. mover'.pc = "delete" /\ mover'.at \notin erased' => tiers'[mover'.target][mover'.at] # None
    <3>1. mover.target \in Tiers /\ (mover.pc = "delete" => mover.at \in Keys)
      BY Zenon DEF KvTypeOK, KeptOK, MoverT, Moving
    <3> QED
      BY <2>1, <2>6, <3>1, Zenon DEF KeptOK
  <2> QED
    BY <1>0, <1>2, <1>3, <2>1, <2>5, <2>7, <2>8, <2>9, Zenon DEF KeptOK, Moving
<1>6. CASE WriteDb(c)
  <2>1. /\ backend = "standalone" /\ UNCHANGED <<backend, kept, erased, mover, tiers>>
        /\ db' = DbAfter(b) /\ task' = [task EXCEPT ![c].pc = "cache"]
    BY <1>6, Zenon DEF WriteDb, ghostsUnchanged, tieredUnchanged
  <2>2. ASSUME NEW k \in Keys \ erased, db[k] # None \/ k \in Puts(b) PROVE db'[k] # None
    <3>1. \A i \in 1..Len(b) : b[i][1] = k => b[i][2] # None
      BY <1>0, <2>2, Zenon DEF Deletes
    <3>2. k \in Puts(b) => \E i \in 1..Len(b) : b[i][1] = k
      BY Zenon DEF Puts
    <3> HIDE DEF b
    <3>3. \/ (\A i \in 1..Len(b) : b[i][1] # k) /\ db'[k] = db[k]
          \/ \E i \in 1..Len(b) : b[i][1] = k /\ db'[k] = b[i][2]
      BY <1>0, <2>1, DbAfterLast, Zenon
    <3> QED
      BY <2>2, <3>1, <3>2, <3>3, Zenon
  <2>3. \A o \in Clients : /\ task'[o].batch = task[o].batch
                           /\ task'[o].pc = "cache" => o = c \/ task[o].pc = "cache"
    BY <2>1, Zenon DEF KvTypeOK, TaskT
  <2>4. \A o \in Clients : task'[o].pc = "cache" => \A k \in Puts(task'[o].batch) \ erased' : db'[k] # None
    <3>1. ASSUME NEW o \in Clients PROVE Puts(task[o].batch) \subseteq Keys
      <4>1. task[o].batch \in Seq(Modifies)
        BY Zenon DEF KvTypeOK, TaskT
      <4> QED
        BY <4>1, BatchKeys, Zenon
    <3> QED
      BY <2>1, <2>2, <2>3, <3>1, Zenon DEF KeptOK
  <2>5. PutSurvives'
    BY <1>3, <2>1, <2>2, Zenon DEF KeptOK, PutSurvives, HasCopy
  <2> QED
    BY <1>1, <1>3, <2>1, <2>3, <2>4, <2>5, Zenon DEF KeptOK, Moving
<1>7. CASE WriteCache(c)
  <2>1. /\ backend = "standalone" /\ UNCHANGED <<backend, erased, mover, tiers, db>>
        /\ kept' = kept \cup (Puts(b) \ erased) /\ task[c].pc = "cache"
    BY <1>7, Zenon DEF WriteCache, Acknowledge, tieredUnchanged, KvTypeOK, ShapeOK
  <2>2. ~WriteDb(c)
    BY <2>1, Zenon DEF WriteDb
  <2>3. PutSurvives'
    BY <2>1, Zenon DEF KeptOK, PutSurvives, HasCopy
  <2>4. \A o \in Clients : task'[o].pc = "cache" => \A k \in Puts(task'[o].batch) \ erased' : db'[k] # None
    BY <1>2, <2>1, <2>2, Zenon DEF KeptOK
  <2> QED
    BY <1>0, <1>2, <1>3, <2>1, <2>2, <2>3, <2>4, Zenon DEF KeptOK, Moving
<1> QED
  BY <1>4, <1>5, <1>6, <1>7, Zenon

\* The mover deletes a copy only when another one has been written.
LEMMA KeptMover ==
  ASSUME KvTypeOK, KeptOK, MoverPut \/ MoverDelete, backend = "tiered",
         UNCHANGED <<backend, kept, erased, task, db>>, Moving(mover')
  PROVE  KeptOK'
<1> DEFINE m == mover
<1>0. /\ m.target \in Tiers /\ m.at \in Keys /\ m.snap[m.at] # None /\ m.target # CurrentTier
      /\ CurrentTier \in Tiers
  <2>1. m \in MoverT /\ Moving(m)
    BY Zenon DEF KvTypeOK, KeptOK
  <2>2. m.pc \in {"put", "delete"}
    BY Zenon DEF MoverPut, MoverDelete
  <2> QED
    BY <2>1, <2>2, TierFacts, Zenon DEF MoverT, Moving, CurrentTier
<1>1. kept \subseteq Keys \ erased /\ \A k \in kept : \E t \in Tiers : tiers[t][k] # None
  BY Zenon DEF KeptOK, PutSurvives, HasCopy
<1>2. CASE MoverPut
  <2>1. /\ tiers' = [tiers EXCEPT ![m.target][m.at] = m.snap[m.at]]
        /\ mover' = [m EXCEPT !.pc = "delete"]
    BY <1>2, Zenon DEF MoverPut
  <2>2. tiers'[m.target][m.at] # None
    BY <1>0, <2>1, Zenon DEF KvTypeOK, ContentT
  <2>3. \A t \in Tiers, k \in Keys : tiers[t][k] # None => tiers'[t][k] # None
    BY <1>0, <2>1, Zenon DEF KvTypeOK, ContentT
  <2>4. mover'.at = m.at /\ mover'.target = m.target
    BY <2>1, Zenon DEF KvTypeOK, MoverT
  <2>5. PutSurvives'
    BY <1>1, <2>3, Zenon DEF PutSurvives, HasCopy
  <2> QED
    BY <2>2, <2>4, <2>5, Zenon DEF KeptOK
<1>3. CASE MoverDelete
  <2>1. /\ tiers' = [tiers EXCEPT ![CurrentTier][m.at] = None] /\ m.pc = "delete"
        /\ mover'.pc # "delete"
    BY <1>3, Zenon DEF MoverDelete, KvTypeOK, MoverT
  <2>2. m.at \notin erased => tiers'[m.target][m.at] # None
    BY <1>0, <2>1, Zenon DEF KvTypeOK, ContentT, KeptOK
  <2>3. \A t \in Tiers, k \in Keys \ {m.at} : tiers'[t][k] = tiers[t][k]
    BY <1>0, <2>1, Zenon DEF KvTypeOK, ContentT
  <2>4. PutSurvives'
    <3>1. ASSUME NEW k \in kept PROVE \E t \in Tiers : tiers'[t][k] # None
      <4>1. k \in Keys /\ k \notin erased /\ \E t \in Tiers : tiers[t][k] # None
        BY <1>1, Zenon
      <4>2. CASE k = m.at
        BY <1>0, <2>2, <4>1, <4>2, Zenon
      <4>3. CASE k # m.at
        BY <2>3, <4>1, <4>3, Zenon
      <4> QED
        BY <4>2, <4>3, Zenon
    <3> QED
      BY <3>1, Zenon DEF PutSurvives, HasCopy
  <2> QED
    BY <2>1, <2>4, Zenon DEF KeptOK
<1> QED
  BY <1>2, <1>3, Zenon

\* Every step keeps the invariant.
LEMMA KeptStep ==
  ASSUME KvTypeOK, KeptOK, Next PROVE KeptOK'
<1>0. backend' = backend
  BY TasksTyped, Zenon
<1>1. kept \subseteq Keys \ erased /\ \A o \in Clients : Deletes(task[o].batch) \subseteq erased
  BY Zenon DEF KeptOK
<1>2. ASSUME NEW c \in Clients, RunCli(c) \/ MultiLevelService(c) \/ BatchWrite(c) PROVE KeptOK'
  <2>1. PICK t \in TaskT : Begin(c, t) /\ ShapeOK(t) /\ t.pc \in {"apply", "get", "scan"}
    BY <1>2, CallBegins, Zenon
  <2>2. /\ task'[c].pc = t.pc /\ task'[c].batch = t.batch
        /\ \A o \in Clients \ {c} : task'[o].pc = task[o].pc /\ task'[o].batch = task[o].batch
    BY <2>1, BeginTasks, Zenon
  <2>3. /\ UNCHANGED <<tiers, mover, db>> /\ erased' = erased \cup Deletes(t.batch)
        /\ kept' = kept \ Deletes(t.batch)
    BY <2>1, Zenon DEF Begin, tieredUnchanged, standaloneUnchanged
  <2>4. t.pc # "cache"
    BY <2>1, Zenon
  <2>5. kept' \subseteq kept \ erased' /\ erased \subseteq erased'
    BY <1>1, <2>3, Zenon
  <2>6. \A o \in Clients : /\ Deletes(task'[o].batch) \subseteq erased'
                           /\ task'[o].pc = "cache" =>
                                task[o].pc = "cache" /\ task'[o].batch = task[o].batch
    BY <1>1, <2>2, <2>3, <2>4, Zenon
  <2> QED
    BY <1>0, <2>3, <2>5, <2>6, KeptFrame, Zenon
<1>3. ASSUME NEW c \in Clients, Step(c) \/ CallFails(c) PROVE KeptOK'
  <2>1. PICK f : Proceeds(c, f)
    BY <1>3, CallProceeds, Zenon
  <2>2. CASE ApplyDelete(c) \/ ApplyCommit(c) \/ WriteDb(c) \/ WriteCache(c)
    BY <2>1, <2>2, KeptWrites, Zenon
  <2>3. CASE ~(ApplyDelete(c) \/ ApplyCommit(c) \/ WriteDb(c) \/ WriteCache(c))
    <3>1. UNCHANGED <<tiers, mover, db, kept, erased>>
      BY <1>3, <2>3, Zenon DEF Step, CallFails, ApplyPut, GetTier, GetBump, GetPeek, GetRead, GetFill,
         ScanOpen, ghostsUnchanged, tieredUnchanged, standaloneUnchanged
    <3>2. \A o \in Clients : /\ Deletes(task'[o].batch) \subseteq erased'
                             /\ task'[o].pc = "cache" =>
                                  task[o].pc = "cache" /\ task'[o].batch = task[o].batch
      BY <1>1, <2>1, <2>3, <3>1, ProceedsKeeps, BatchKeys, Zenon
    <3> QED
      BY <1>0, <1>1, <3>1, <3>2, KeptFrame, Zenon
  <2> QED
    BY <2>2, <2>3, Zenon
<1>4. CASE Rebalance
  <2>1. Moving(mover) /\ (MoverStart \/ MoverStep \/ MoverFail) /\ backend = "tiered"
    BY <1>4, Zenon DEF Rebalance, KeptOK
  <2>2. Moving(mover')
    BY <2>1, MoverTyped, Zenon
  <2>3. UNCHANGED <<kept, erased, db>> /\ (task' = task \/ task' = NotAlone(task))
    BY <1>4, Zenon DEF Rebalance, kvVars, standaloneUnchanged
  <2>4. \A o \in Clients : task'[o].batch = task[o].batch /\ task'[o].pc = task[o].pc
    BY <2>3 DEF NotAlone, KvTypeOK, TaskT
  <2>5. CASE MoverPut \/ MoverDelete
    <3>1. task' = task
      BY <1>4, <2>5, Zenon DEF Rebalance, MoverPut, MoverDelete, MoverStart, MoverFail, KvTypeOK, MoverT, kvVars
    <3> QED
      BY <1>0, <2>1, <2>2, <2>3, <2>5, <3>1, KeptMover, Zenon
  <2>6. CASE ~(MoverPut \/ MoverDelete)
    <3>1. tiers' = tiers /\ mover'.pc # "delete"
      BY <2>1, <2>6, IdleOK, Zenon DEF MoverStart, MoverStep, MoverFail, MoverOpen, MoverScan, MoverClear,
         KvTypeOK, MoverT
    <3> QED
      BY <1>0, <1>1, <2>2, <2>3, <2>4, <3>1, KeptFrame, Zenon
  <2> QED
    BY <2>5, <2>6, Zenon
<1>5. CASE EvictEntry
  <2>1. UNCHANGED <<tiers, mover, db, kept, erased, task>>
    BY <1>5, Zenon DEF EvictEntry, Evict, tieredUnchanged, kvVars
  <2> QED
    BY <1>0, <1>1, <2>1, KeptFrame, Zenon
<1>6. CASE Crash
  <2>1. UNCHANGED <<tiers, db, kept, erased>> /\ mover' = Idle
    BY <1>6, Zenon DEF Crash
  <2>2. \A o \in Clients : task'[o] = NoTask
    BY <1>6, Zenon DEF Crash
  <2>3. \A o \in Clients : Deletes(task'[o].batch) \subseteq erased' /\ task'[o].pc # "cache"
    BY <2>2, NoTaskOK, BatchKeys, Zenon
  <2>4. Moving(mover') /\ mover'.pc # "delete"
    BY <2>1, IdleOK, Zenon
  <2> QED
    BY <1>0, <1>1, <2>1, <2>3, <2>4, KeptFrame, Zenon
<1> QED
  BY <1>2, <1>3, <1>4, <1>5, <1>6, Zenon DEF Next

\* The initial states: an empty cache, idle calls, what an earlier run left.
LEMMA KvInit ==
  ASSUME Init PROVE KvTypeOK /\ KeptOK
<1>1. PICK s \in Stored : TieredInit(s) /\ StandaloneInit(AnyCopy(s))
  BY Zenon DEF Init
<1>2. s \in [Tiers -> ContentT]
  <2>1. s \in [Tiers -> [Keys -> StoredValues]] /\ StoredValues \subseteq AllValues
    BY RawKvAssumption, Zenon DEF AllValues
  <2> QED
    BY <2>1, Zenon DEF ContentT
<1>3. \A k \in Keys : \E t \in Tiers : AnyCopy(s)[k] = s[t][k]
  <2>1. "hot" \in Tiers /\ "warm" \in Tiers /\ "cold" \in Tiers
    BY TierFacts, Zenon
  <2> QED
    BY <2>1, Zenon DEF AnyCopy
<1>4. AnyCopy(s) \in ContentT
  <2>1. \A k \in Keys : AnyCopy(s)[k] \in AllValues
    BY <1>2, <1>3, Zenon DEF ContentT
  <2>2. AnyCopy(s) = [k \in Keys |-> AnyCopy(s)[k]]
    BY Zenon DEF AnyCopy
  <2> QED
    BY <2>1, <2>2, Zenon DEF ContentT
<1>5. tiers = s /\ db = AnyCopy(s) /\ cache = EmptyCache /\ mover = Idle
  BY <1>1, Zenon DEF TieredInit, StandaloneInit
<1>6. task = [c \in Clients |-> NoTask] /\ kept = {k \in Keys : db[k] # None} /\ erased = {}
  BY Zenon DEF Init
<1>7. cache \in [CacheKeys -> AllValues]
  BY <1>5, Zenon DEF EmptyCache, AllValues
<1>8. KvTypeOK
  BY <1>2, <1>4, <1>5, <1>6, <1>7, NoTaskOK, IdleOK, Zenon DEF KvTypeOK
<1>9. PutSurvives
  BY <1>3, <1>5, <1>6, Zenon DEF PutSurvives, HasCopy
<1>10. \A c \in Clients : task[c].pc = "idle" /\ Deletes(task[c].batch) = {}
  BY <1>6, NoTaskOK, BatchKeys, Zenon
<1> QED
  BY <1>5, <1>6, <1>8, <1>9, <1>10, IdleOK, Zenon DEF KeptOK

\* Every step keeps the types.
LEMMA KvTypeStep ==
  ASSUME KvTypeOK, KeptOK, Next PROVE KvTypeOK'
<1>1. mover' \in MoverT
  <2>1. CASE mover' = mover
    BY <2>1, Zenon DEF KvTypeOK
  <2>2. CASE Crash
    BY <2>2, IdleOK, Zenon DEF Crash
  <2>3. CASE Rebalance
    BY <2>3, MoverTyped, Zenon DEF Rebalance, KeptOK
  <2>4. ASSUME NEW c \in Clients, RunCli(c) \/ MultiLevelService(c) \/ BatchWrite(c) PROVE mover' = mover
    BY <2>4, CallBegins, Zenon DEF Begin, tieredUnchanged
  <2>5. ASSUME NEW c \in Clients, Step(c) \/ CallFails(c) PROVE mover' = mover
    BY <2>5, Zenon DEF Step, CallFails, ApplyPut, ApplyDelete, ApplyCommit, WriteDb, WriteCache, GetTier,
       GetBump, GetPeek, GetRead, GetFill, ScanOpen, tieredUnchanged
  <2>6. EvictEntry => mover' = mover
    BY Zenon DEF EvictEntry, tieredUnchanged
  <2> QED
    BY <2>1, <2>2, <2>3, <2>4, <2>5, <2>6, Zenon DEF Next
<1> QED
  BY <1>1, TasksTyped, StoresTyped, Zenon DEF KvTypeOK

\* A step that changes nothing.
LEMMA KvStutter ==
  ASSUME KvTypeOK, KeptOK, UNCHANGED vars PROVE KvTypeOK' /\ KeptOK'
BY Zenon DEF KvTypeOK, KeptOK, PutSurvives, HasCopy, ShapeOK, Moving, vars, kvVars

\* RawKv, for any keys, batches, clients, stored contents and bounds: a key whose
\* put was acknowledged, and on which no delete was begun, has a copy in every
\* state, in some tier or in the database, however the mover, failed writes and
\* crashes come between (PutSurvives).
THEOREM PutsSurvive == Spec => []PutSurvives
<1>1. Init => KvTypeOK /\ KeptOK
  BY KvInit, Zenon
<1>2. KvTypeOK /\ KeptOK /\ [Next]_vars => (KvTypeOK /\ KeptOK)'
  BY KvTypeStep, KeptStep, KvStutter, Zenon
<1>3. KeptOK => PutSurvives
  BY Zenon DEF KeptOK
<1> QED
  BY <1>1, <1>2, <1>3, PTL DEF Spec

-----------------------------------------------------------------------------
(* Cache entries. *)

Own(k) == \A j \in Keys : CacheKeyOf[j] = CacheKeyOf[k] => j = k

\* What a batch makes of the entry with cache key e.
Entry(b, e) == LastOn(b, LAMBDA m : CacheKeyOf[m[1]] = e, None)

\* Between its two writes a call leaves the entry as it was.
Between(c, e) == task[c].pc = "cache" /\ e \in CacheKeysOf(task[c])
Filling(c, e) == task[c].pc = "fill" /\ e \in CacheKeysOf(task[c])

\* The entry e of the key k is right unless a call is between database and cache,
\* and a call that has written the database, or read it, has the right value.
EntryOK(k, e) ==
  /\ cache[e] = None \/ cache[e] = db[k] \/ \E c \in Clients : Between(c, e)
  /\ \A c \in Clients : Between(c, e) => Entry(task[c].batch, e) = db[k]
  /\ \A c \in Clients : Filling(c, e) => task[c].got = db[k]

CacheOK == \A k \in Keys : Own(k) /\ CacheKeyOf[k] \notin spoilt => EntryOK(k, CacheKeyOf[k])

SameTask(t, u) == t.pc = u.pc /\ t.batch = u.batch /\ t.key = u.key /\ t.got = u.got

\* The batch and the key of a call say which entries it works on.
LEMMA SameKeys ==
  \A t, u : t.batch = u.batch /\ t.key = u.key => CacheKeysOf(t) = CacheKeysOf(u)
BY Zenon DEF CacheKeysOf, Touches

\* An entry stays right when its key is not written, it is left alone or dropped,
\* and the calls on it go on as they were, or end without having it in hand.
LEMMA EntryFrame ==
  ASSUME NEW k \in Keys, NEW e, EntryOK(k, e), db'[k] = db[k], cache'[e] = cache[e] \/ cache'[e] = None,
         \A o \in Clients :
           \/ SameTask(task'[o], task[o])
           \/ ~Between(o, e) /\ ~Between(o, e)' /\ ~Filling(o, e)'
  PROVE  EntryOK(k, e)'
<1>1. \A o \in Clients : SameTask(task'[o], task[o]) =>
        /\ Between(o, e)' <=> Between(o, e)
        /\ Filling(o, e)' <=> Filling(o, e)
  BY SameKeys, Zenon DEF Between, Filling, SameTask
<1>2. \A o \in Clients : Between(o, e)' <=> Between(o, e)
  BY <1>1, Zenon
<1>3. cache'[e] = None \/ cache'[e] = db'[k] \/ \E o \in Clients : Between(o, e)'
  BY <1>2, Zenon DEF EntryOK
<1>4. ASSUME NEW o \in Clients, Between(o, e)' PROVE Entry(task'[o].batch, e) = db'[k]
  <2>1. Between(o, e) /\ task'[o].batch = task[o].batch
    BY <1>2, <1>4, Zenon DEF SameTask
  <2>2. Entry(task[o].batch, e) = db[k]
    BY <2>1, Zenon DEF EntryOK
  <2> QED
    BY <2>1, <2>2, Zenon
<1>5. ASSUME NEW o \in Clients, Filling(o, e)' PROVE task'[o].got = db'[k]
  <2>1. Filling(o, e) /\ task'[o].got = task[o].got
    BY <1>1, <1>5, Zenon DEF SameTask
  <2> QED
    BY <2>1, Zenon DEF EntryOK
<1> QED
  BY <1>3, <1>4, <1>5, Zenon DEF EntryOK

\* A step that writes no database and puts nothing into the cache.
LEMMA CacheFrame ==
  ASSUME CacheOK, spoilt \subseteq spoilt', db' = db,
         \A e \in CacheKeys : cache'[e] = cache[e] \/ cache'[e] = None,
         \A o \in Clients : \/ SameTask(task'[o], task[o])
                            \/ /\ task'[o].pc \notin {"cache", "fill"}
                               /\ task[o].pc # "cache" \/ CacheKeysOf(task[o]) \subseteq spoilt'
  PROVE  CacheOK'
<1> SUFFICES ASSUME NEW k \in Keys, Own(k), CacheKeyOf[k] \notin spoilt'
             PROVE  EntryOK(k, CacheKeyOf[k])'
  BY Zenon DEF CacheOK, Own
<1> DEFINE e == CacheKeyOf[k]
<1>1. EntryOK(k, e) /\ e \in CacheKeys
  BY Zenon DEF CacheOK, CacheKeys
<1>2. \A o \in Clients : \/ SameTask(task'[o], task[o])
                         \/ ~Between(o, e) /\ ~Between(o, e)' /\ ~Filling(o, e)'
  BY Zenon DEF Between, Filling
<1>3. db'[k] = db[k] /\ (cache'[e] = cache[e] \/ cache'[e] = None)
  BY <1>1, Zenon
<1> HIDE DEF e
<1>4. EntryOK(k, e)'
  BY <1>1, <1>2, <1>3, EntryFrame, Zenon
<1> QED
  BY <1>4, Zenon DEF e

\* What a batch does to a key with a cache key of its own and to its entry.
LEMMA BatchEntry ==
  ASSUME NEW b \in Seq(Modifies), NEW k \in Keys, Own(k), NEW e, e = CacheKeyOf[k],
         NEW hits, hits <=> (\E i \in 1..Len(b) : CacheKeyOf[b[i][1]] = e)
  PROVE  /\ hits => CacheAfter(b)[e] = Entry(b, e) /\ DbAfter(b)[k] = Entry(b, e)
         /\ ~hits => CacheAfter(b)[e] = cache[e] /\ DbAfter(b)[k] = db[k]
<1> DEFINE I == {i \in 1..Len(b) : CacheKeyOf[b[i][1]] = e}
           J == {i \in 1..Len(b) : b[i][1] = k}
           last(S) == CHOOSE i \in S : \A j \in S : j <= i
<1>1. e \in CacheKeys
  BY Zenon DEF CacheKeys
<1>2. CacheAfter(b)[e] = IF I = {} THEN cache[e] ELSE b[last(I)][2]
  BY <1>1, Zenon DEF CacheAfter, LastOn
<1>3. DbAfter(b)[k] = IF J = {} THEN db[k] ELSE b[last(J)][2]
  BY Zenon DEF DbAfter, LastOn
<1>4. Entry(b, e) = IF I = {} THEN None ELSE b[last(I)][2]
  BY Zenon DEF Entry, LastOn
<1>5. \A i \in 1..Len(b) : b[i][1] \in Keys
  BY DEF Modifies
<1>6. I = J
  BY <1>5, Zenon DEF Own
<1>7. hits <=> I # {}
  BY Zenon
<1> HIDE DEF I, J, last
<1> QED
  BY <1>2, <1>3, <1>4, <1>6, <1>7, Zenon

\* What a call works on: the keys of its batch, or its key.
LEMMA CallTouches ==
  ASSUME KvTypeOK, NEW c \in Clients
  PROVE  /\ task[c].pc = "cache" \/ task[c].pc = "apply" =>
              \A e : e \in CacheKeysOf(task[c]) <=>
                       \E i \in 1..Len(task[c].batch) : CacheKeyOf[task[c].batch[i][1]] = e
         /\ task[c].pc \in {"read", "fill"} =>
              task[c].key \in Keys /\ CacheKeysOf(task[c]) = {CacheKeyOf[task[c].key]}
<1> DEFINE t == task[c]
<1>1. ShapeOK(t) /\ t \in TaskT
  BY Zenon DEF KvTypeOK
<1>2. ASSUME t.pc = "cache" \/ t.pc = "apply" PROVE Touches(t) = {t.batch[i][1] : i \in 1..Len(t.batch)}
  BY <1>1, <1>2, Zenon DEF ShapeOK, Touches
<1>3. ASSUME t.pc \in {"read", "fill"} PROVE t.key \in Keys /\ Touches(t) = {t.key}
  <2>1. t.batch = <<>> /\ t.key \in Keys
    BY <1>1, <1>3, Zenon DEF ShapeOK
  <2>2. 0 \notin Keys
    BY DEF Keys
  <2> QED
    BY <2>1, <2>2 DEF Touches
<1>4. t.pc \in {"read", "fill"} => CacheKeysOf(t) = {CacheKeyOf[t.key]}
  BY <1>3, Zenon DEF CacheKeysOf
<1>5. t.pc = "cache" \/ t.pc = "apply" =>
        \A e : e \in CacheKeysOf(t) <=> \E i \in 1..Len(t.batch) : CacheKeyOf[t.batch[i][1]] = e
  <2>1. \A e : e \in CacheKeysOf(t) <=> \E k \in Touches(t) : CacheKeyOf[k] = e
    BY Zenon DEF CacheKeysOf
  <2>2. ASSUME t.pc = "cache" \/ t.pc = "apply", NEW k
        PROVE  k \in Touches(t) <=> \E i \in 1..Len(t.batch) : t.batch[i][1] = k
    BY <1>2, <2>2, Zenon
  <2> QED
    <3> SUFFICES ASSUME t.pc = "cache" \/ t.pc = "apply", NEW e
        PROVE  e \in CacheKeysOf(t) <=> \E i \in 1..Len(t.batch) : CacheKeyOf[t.batch[i][1]] = e
      BY Zenon
    <3>1. \A k : k \in Touches(t) <=> \E i \in 1..Len(t.batch) : t.batch[i][1] = k
      BY <2>2, Zenon
    <3> QED
      BY <2>1, <3>1, Zenon
<1> QED
  BY <1>3, <1>4, <1>5, Zenon

\* A call changes only its own task.
LEMMA ProceedsOwn ==
  ASSUME KvTypeOK, NEW c \in Clients, NEW f, Proceeds(c, f)
  PROVE  task'[c] = f /\ \A o \in Clients \ {c} : task'[o] = task[o]
BY Zenon DEF Proceeds, KvTypeOK

\* The write to the database: whoever has the entry in hand spoils it.
LEMMA CacheWriteDb ==
  ASSUME KvTypeOK, CacheOK, NEW c \in Clients, NEW f, Proceeds(c, f), WriteDb(c)
  PROVE  CacheOK'
<1> DEFINE b == task[c].batch
<1>1. task'[c] = f /\ \A o \in Clients \ {c} : task'[o] = task[o]
  BY ProceedsOwn, Zenon
<1>2. /\ task[c].pc = "apply" /\ db' = DbAfter(b) /\ cache' = cache
      /\ task' = [task EXCEPT ![c].pc = "cache"]
      /\ spoilt' = (spoilt \ CacheKeysOf(task[c]))
                     \cup {x \in CacheKeysOf(task[c]) : \E o \in Clients \ {c} : InHand(o, x)}
  BY Zenon DEF WriteDb
<1>3. task'[c].pc = "cache" /\ task'[c].batch = b /\ task'[c].key = task[c].key
  BY <1>1, <1>2, Zenon DEF KvTypeOK, TaskT
<1>4. CacheKeysOf(task'[c]) = CacheKeysOf(task[c])
  BY <1>3, SameKeys, Zenon
<1>5. b \in Seq(Modifies)
  BY Zenon DEF KvTypeOK, TaskT
<1> SUFFICES ASSUME NEW k \in Keys, Own(k), CacheKeyOf[k] \notin spoilt'
             PROVE  EntryOK(k, CacheKeyOf[k])'
  BY Zenon DEF CacheOK, Own
<1> DEFINE e == CacheKeyOf[k]
           hits == \E i \in 1..Len(b) : CacheKeyOf[b[i][1]] = e
<1>6. hits <=> e \in CacheKeysOf(task[c])
  BY <1>2, CallTouches, Zenon
<1>7. ~hits => EntryOK(k, e)
  BY <1>2, <1>6, Zenon DEF CacheOK
<1>8. (hits => DbAfter(b)[k] = Entry(b, e)) /\ (~hits => DbAfter(b)[k] = db[k])
  <2>1. (hits <=> \E i \in 1..Len(b) : CacheKeyOf[b[i][1]] = e) /\ e = CacheKeyOf[k]
    BY Zenon
  <2>2. Own(k) /\ k \in Keys
    OBVIOUS
  <2> HIDE DEF hits, b, e
  <2> QED
    BY <1>5, <2>1, <2>2, BatchEntry
<1>9. hits => \A o \in Clients \ {c} : ~InHand(o, e)
  BY <1>2, <1>6, Zenon
<1> HIDE DEF hits, e
<1>10. CASE hits
  <2>1. \A o \in Clients \ {c} : ~Between(o, e)' /\ ~Filling(o, e)'
    BY <1>1, <1>9, <1>10, Zenon DEF InHand, Between, Filling
  <2>2. Between(c, e)' /\ ~Filling(c, e)'
    BY <1>3, <1>4, <1>6, <1>10, Zenon DEF Between, Filling
  <2>3. Entry(task'[c].batch, e) = db'[k]
    BY <1>2, <1>3, <1>8, <1>10, Zenon
  <2>4. EntryOK(k, e)'
    BY <2>1, <2>2, <2>3, Zenon DEF EntryOK
  <2> QED
    BY <2>4, Zenon DEF e
<1>11. CASE ~hits
  <2>1. ~Between(c, e) /\ ~Between(c, e)' /\ ~Filling(c, e)'
    BY <1>2, <1>3, <1>4, <1>6, <1>11, Zenon DEF Between, Filling
  <2>2. \A o \in Clients : \/ SameTask(task'[o], task[o])
                           \/ ~Between(o, e) /\ ~Between(o, e)' /\ ~Filling(o, e)'
    BY <1>1, <2>1, Zenon DEF SameTask
  <2>3. db'[k] = db[k] /\ cache'[e] = cache[e]
    BY <1>2, <1>8, <1>11, Zenon
  <2>4. EntryOK(k, e)'
    BY <1>7, <1>11, <2>2, <2>3, EntryFrame, Zenon
  <2> QED
    BY <2>4, Zenon DEF e
<1> QED
  BY <1>10, <1>11, Zenon

\* The write to the cache: the call still has the value of the database.
LEMMA CacheWriteCache ==
  ASSUME KvTypeOK, CacheOK, NEW c \in Clients, NEW f, Proceeds(c, f), WriteCache(c)
  PROVE  CacheOK'
<1> DEFINE b == task[c].batch
<1>1. task'[c] = f /\ \A o \in Clients \ {c} : task'[o] = task[o]
  BY ProceedsOwn, Zenon
<1>2. /\ task[c].pc = "cache" /\ db' = db /\ cache' = CacheAfter(b) /\ task'[c] = NoTask
      /\ spoilt' = spoilt
  BY Zenon DEF WriteCache, Acknowledge, Return, KvTypeOK
<1>3. task'[c].pc = "idle"
  BY <1>2, NoTaskOK, Zenon
<1>4. b \in Seq(Modifies)
  BY Zenon DEF KvTypeOK, TaskT
<1> SUFFICES ASSUME NEW k \in Keys, Own(k), CacheKeyOf[k] \notin spoilt
             PROVE  EntryOK(k, CacheKeyOf[k])'
  BY <1>2, Zenon DEF CacheOK, Own
<1> DEFINE e == CacheKeyOf[k]
           hits == \E i \in 1..Len(b) : CacheKeyOf[b[i][1]] = e
<1>5. EntryOK(k, e)
  BY Zenon DEF CacheOK
<1>6. hits <=> e \in CacheKeysOf(task[c])
  BY <1>2, CallTouches, Zenon
<1>7. (hits => CacheAfter(b)[e] = Entry(b, e)) /\ (~hits => CacheAfter(b)[e] = cache[e])
  <2>1. (hits <=> \E i \in 1..Len(b) : CacheKeyOf[b[i][1]] = e) /\ e = CacheKeyOf[k]
    BY Zenon
  <2> HIDE DEF hits, b, e
  <2> QED
    BY <1>4, <2>1, BatchEntry, Zenon
<1> HIDE DEF hits, e
<1>8. ~Between(c, e)' /\ ~Filling(c, e)'
  BY <1>3, Zenon DEF Between, Filling
<1>9. CASE hits
  <2>1. cache'[e] = db'[k]
    BY <1>2, <1>5, <1>6, <1>7, <1>9, Zenon DEF EntryOK, Between
  <2>2. ASSUME NEW o \in Clients, Between(o, e)' PROVE Entry(task'[o].batch, e) = db'[k]
    <3>1. task'[o] = task[o] /\ Between(o, e)
      BY <1>1, <1>8, <2>2, Zenon DEF Between
    <3>2. Entry(task[o].batch, e) = db[k]
      BY <1>5, <3>1, Zenon DEF EntryOK
    <3> QED
      BY <1>2, <3>1, <3>2, Zenon
  <2>3. ASSUME NEW o \in Clients, Filling(o, e)' PROVE task'[o].got = db'[k]
    <3>1. task'[o] = task[o] /\ Filling(o, e)
      BY <1>1, <1>8, <2>3, Zenon DEF Filling
    <3> QED
      BY <1>2, <1>5, <3>1, Zenon DEF EntryOK
  <2>4. EntryOK(k, e)'
    BY <2>1, <2>2, <2>3, Zenon DEF EntryOK
  <2> QED
    BY <2>4, Zenon DEF e
<1>10. CASE ~hits
  <2>1. \A o \in Clients : \/ SameTask(task'[o], task[o])
                           \/ ~Between(o, e) /\ ~Between(o, e)' /\ ~Filling(o, e)'
    BY <1>1, <1>6, <1>8, <1>10, Zenon DEF SameTask, Between
  <2>2. db'[k] = db[k] /\ cache'[e] = cache[e]
    BY <1>2, <1>7, <1>10, Zenon
  <2>3. EntryOK(k, e)'
    BY <1>5, <2>1, <2>2, EntryFrame, Zenon
  <2> QED
    BY <2>3, Zenon DEF e
<1> QED
  BY <1>9, <1>10, Zenon

\* The read that misses the cache, and the fill with what it found.
LEMMA CacheFills ==
  ASSUME KvTypeOK, CacheOK, NEW c \in Clients, NEW f, Proceeds(c, f), GetRead(c) \/ GetFill(c)
  PROVE  CacheOK'
<1>1. task'[c] = f /\ \A o \in Clients \ {c} : task'[o] = task[o]
  BY ProceedsOwn, Zenon
<1>2. /\ task[c].pc \in {"read", "fill"} /\ db' = db /\ spoilt' = spoilt
      /\ GetRead(c) => cache' = cache
      /\ GetFill(c) => /\ task[c].pc = "fill"
                       /\ cache' = [cache EXCEPT ![CacheKeyOf[task[c].key]] = task[c].got]
  BY Zenon DEF GetRead, GetFill, standaloneUnchanged, ghostsUnchanged
<1>3. task[c].key \in Keys /\ CacheKeysOf(task[c]) = {CacheKeyOf[task[c].key]}
  BY <1>2, CallTouches, Zenon
<1>4. f.pc # "cache"
  BY <1>2, Zenon DEF Proceeds, WriteDb
<1>5. f.pc = "fill" => f.got = db[f.key] /\ f.key = task[c].key /\ f.batch = task[c].batch
  BY NoTaskOK, Zenon DEF Proceeds
<1> SUFFICES ASSUME NEW k \in Keys, Own(k), CacheKeyOf[k] \notin spoilt
             PROVE  EntryOK(k, CacheKeyOf[k])'
  BY <1>2, Zenon DEF CacheOK, Own
<1> DEFINE e == CacheKeyOf[k]
<1>6. EntryOK(k, e) /\ e \in CacheKeys
  BY Zenon DEF CacheOK, CacheKeys
<1>7. ~Between(c, e) /\ ~Between(c, e)'
  BY <1>1, <1>2, <1>4, Zenon DEF Between
<1>8. e = CacheKeyOf[task[c].key] => task[c].key = k
  BY <1>3, Zenon DEF Own
<1>9. Filling(c, e)' => task'[c].got = db'[k]
  <2> SUFFICES ASSUME Filling(c, e)' PROVE task'[c].got = db'[k]
    BY Zenon
  <2>1. f.pc = "fill" /\ e \in CacheKeysOf(f)
    BY <1>1, Zenon DEF Filling
  <2>2. CacheKeysOf(f) = CacheKeysOf(task[c])
    BY <1>5, <2>1, SameKeys, Zenon
  <2>3. task[c].key = k
    BY <1>3, <1>8, <2>1, <2>2, Zenon
  <2> QED
    BY <1>1, <1>2, <1>5, <2>1, <2>3, Zenon
<1>10. cache'[e] = cache[e] \/ cache'[e] = db[k]
  <2>1. CASE GetRead(c)
    BY <1>2, <2>1, Zenon
  <2>2. CASE GetFill(c) /\ e # CacheKeyOf[task[c].key]
    <3>1. cache \in [CacheKeys -> AllValues]
      BY Zenon DEF KvTypeOK
    <3> HIDE DEF e
    <3> QED
      BY <1>2, <1>6, <2>2, <3>1
  <2>3. CASE GetFill(c) /\ e = CacheKeyOf[task[c].key]
    <3>1. cache'[e] = task[c].got
      BY <1>2, <1>6, <2>3, Zenon DEF KvTypeOK
    <3>2. Filling(c, e)
      BY <1>2, <1>3, <2>3, Zenon DEF Filling
    <3> QED
      BY <1>6, <3>1, <3>2, Zenon DEF EntryOK
  <2> QED
    BY <2>1, <2>2, <2>3, Zenon
<1> HIDE DEF e
<1>11. \A o \in Clients \ {c} : (Between(o, e)' <=> Between(o, e)) /\ (Filling(o, e)' <=> Filling(o, e))
  BY <1>1, Zenon DEF Between, Filling
<1>12. cache'[e] = None \/ cache'[e] = db'[k] \/ \E o \in Clients : Between(o, e)'
  BY <1>2, <1>6, <1>7, <1>10, <1>11, Zenon DEF EntryOK
<1>13. ASSUME NEW o \in Clients, Between(o, e)' PROVE Entry(task'[o].batch, e) = db'[k]
  <2>1. task'[o] = task[o] /\ Between(o, e)
    BY <1>1, <1>7, <1>11, <1>13, Zenon
  <2>2. Entry(task[o].batch, e) = db[k]
    BY <1>6, <2>1, Zenon DEF EntryOK
  <2> QED
    BY <1>2, <2>1, <2>2, Zenon
<1>14. ASSUME NEW o \in Clients, Filling(o, e)' PROVE task'[o].got = db'[k]
  <2>1. CASE o = c
    BY <1>9, <1>14, <2>1, Zenon
  <2>2. CASE o # c
    BY <1>1, <1>2, <1>6, <1>11, <1>14, <2>2, Zenon DEF EntryOK
  <2> QED
    BY <2>1, <2>2, Zenon
<1>15. EntryOK(k, e)'
  BY <1>12, <1>13, <1>14, Zenon DEF EntryOK
<1> QED
  BY <1>15, Zenon DEF e

\* Every step keeps the cache right.
LEMMA CacheStep ==
  ASSUME KvTypeOK, CacheOK, Next PROVE CacheOK'
<1>1. ASSUME NEW c \in Clients, RunCli(c) \/ MultiLevelService(c) \/ BatchWrite(c) PROVE CacheOK'
  <2>1. PICK t \in TaskT : Begin(c, t) /\ ShapeOK(t) /\ t.pc \in {"apply", "get", "scan"}
    BY <1>1, CallBegins, Zenon
  <2>2. task'[c].pc = t.pc /\ \A o \in Clients \ {c} : SameTask(task'[o], task[o])
    BY <2>1, BeginTasks, Zenon DEF SameTask
  <2>3. db' = db /\ cache' = cache /\ spoilt' = spoilt /\ task[c].pc # "cache"
    BY <2>1, Zenon DEF Begin, Busy, standaloneUnchanged
  <2> QED
    BY <2>1, <2>2, <2>3, CacheFrame, Zenon
<1>2. ASSUME NEW c \in Clients, Step(c) \/ CallFails(c) PROVE CacheOK'
  <2>1. PICK f : Proceeds(c, f)
    BY <1>2, CallProceeds, Zenon
  <2>2. CASE WriteDb(c) \/ WriteCache(c) \/ GetRead(c) \/ GetFill(c)
    BY <2>1, <2>2, CacheWriteDb, CacheWriteCache, CacheFills, Zenon
  <2>3. CASE ~(WriteDb(c) \/ WriteCache(c) \/ GetRead(c) \/ GetFill(c))
    <3>1. /\ db' = db /\ cache' = cache /\ spoilt \subseteq spoilt'
          /\ task[c].pc = "cache" => CacheKeysOf(task[c]) \subseteq spoilt'
      BY <1>2, <2>3, Zenon DEF Step, CallFails, ApplyPut, ApplyDelete, ApplyCommit, GetTier, GetBump,
         GetPeek, ScanOpen, Acknowledge, ghostsUnchanged, standaloneUnchanged
    <3>2. f.pc \notin {"cache", "fill"}
      BY <2>1, <2>3, Zenon DEF Proceeds
    <3>3. task'[c] = f /\ \A o \in Clients \ {c} : task'[o] = task[o]
      BY <2>1, ProceedsOwn, Zenon
    <3> QED
      BY <3>1, <3>2, <3>3, CacheFrame, Zenon DEF SameTask
  <2> QED
    BY <2>2, <2>3, Zenon
<1>3. ASSUME UNCHANGED <<db, spoilt>>, task' = task \/ task' = NotAlone(task),
             \A e \in CacheKeys : cache'[e] = cache[e] \/ cache'[e] = None
      PROVE  CacheOK'
  <2>1. \A o \in Clients : SameTask(task'[o], task[o])
    BY <1>3 DEF NotAlone, KvTypeOK, TaskT, SameTask
  <2> QED
    BY <1>3, <2>1, CacheFrame, Zenon
<1>4. CASE Rebalance
  BY <1>3, <1>4, Zenon DEF Rebalance, kvVars, standaloneUnchanged
<1>5. CASE EvictEntry
  <2>1. PICK x \in CacheKeys : Evict(x)
    BY <1>5, Zenon DEF EvictEntry
  <2>2. \A e \in CacheKeys : cache'[e] = cache[e] \/ cache'[e] = None
    BY <2>1, Zenon DEF Evict, KvTypeOK
  <2> QED
    BY <1>3, <1>5, <2>1, <2>2, Zenon DEF EvictEntry, Evict, kvVars
<1>6. CASE Crash
  <2>1. \A k \in Keys : cache'[CacheKeyOf[k]] = None
    BY <1>6, Zenon DEF Crash, EmptyCache, CacheKeys
  <2>2. \A o \in Clients : task'[o].pc = "idle"
    BY <1>6, NoTaskOK, Zenon DEF Crash
  <2> QED
    BY <2>1, <2>2, Zenon DEF CacheOK, EntryOK, Between, Filling
<1> QED
  BY <1>1, <1>2, <1>4, <1>5, <1>6, Zenon DEF Next

\* RawKv, for any keys, cache keys, batches, clients and bounds: the cache entry
\* of a key that has its cache key for itself is the stored value of that key
\* unless a call is between its two writes, or one was dropped there, or a write
\* reached the database while another call had the entry in hand
\* (CacheMatchesDb).  From KvTypeOK and CacheOK: a call that has written the
\* database, or read it to fill the cache, still has the right value in hand.
THEOREM CacheMatches == Spec => []CacheMatchesDb
<1>1. Init => KvTypeOK /\ KeptOK /\ CacheOK
  <2>1. ASSUME Init PROVE CacheOK
    <3>1. cache = EmptyCache /\ task = [c \in Clients |-> NoTask]
      BY <2>1, Zenon DEF Init, StandaloneInit
    <3>2. \A c \in Clients : task[c].pc = "idle"
      BY <3>1, NoTaskOK, Zenon
    <3>3. \A k \in Keys : cache[CacheKeyOf[k]] = None
      BY <3>1, Zenon DEF EmptyCache, CacheKeys
    <3> QED
      BY <3>2, <3>3, Zenon DEF CacheOK, EntryOK, Between, Filling
  <2> QED
    BY <2>1, KvInit, Zenon
<1>2. KvTypeOK /\ KeptOK /\ CacheOK /\ [Next]_vars => (KvTypeOK /\ KeptOK /\ CacheOK)'
  <2>1. ASSUME CacheOK, UNCHANGED vars PROVE CacheOK'
    BY <2>1, CacheFrame, Zenon DEF SameTask, vars, kvVars
  <2> QED
    BY <2>1, KvTypeStep, KeptStep, KvStutter, CacheStep, Zenon
<1>3. CacheOK => CacheMatchesDb
  BY Zenon DEF CacheOK, EntryOK, CacheMatchesDb, Own, Between
<1> QED
  BY <1>1, <1>2, <1>3, PTL DEF Spec
==============================================================================
