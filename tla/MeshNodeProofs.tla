--------------------------- MODULE MeshNodeProofs ---------------------------
(***************************************************************************)
(* Proofs about MeshNode for any executors, jobs, prices and policies,         *)
(* and about Execution for any guests, memory and words.           *)
(*                                                                         *)
(* None of the run's invariants is inductive alone.  What a message says was   *)
(* true when it was published and stays true: NetJustified keeps that, since   *)
(* originated jobs and receipts only accumulate.  A query and   *)
(* a spawned task carry what they were started for over any number of steps of  *)
(* others (QueryJustified, TasksJustified), and in the loop as it is written no  *)
(* query is ever answered (LoopQuiet).                                        *)
(*                                                                         *)
(* Of the host environment the invariant keeps who opened the section that is  *)
(* open (Opener); of the VM it keeps that every call is recorded or failed      *)
(* (CallsCounted), also while an execution is under way.                       *)
(***************************************************************************)
EXTENDS MeshNode, Execution, SequenceTheorems, InductionTheorems

Bids == [bidder : Executors, price : Prices]
ReceiptsOf == [job : Jobs, executor : Executors, signer : Executors]
TasksOf == [what : {"settle", "reputation"}, job : Jobs, executor : Executors]
Known == {r \in PeerRecords : r.issuer \in Resolvable}

\* The types of everything the proofs look into.
State ==
    /\ mode \in {"loop", "task"} /\ policy \in Policies
    /\ alive \in BOOLEAN /\ (~alive => policy.kind = "score")
    /\ queue \in Seq(Jobs) /\ originated \in SUBSET Jobs /\ topics \in SUBSET originated
    /\ bids \in [Jobs -> Seq(Bids)]
    /\ assignedBy \in [Jobs -> Executors \cup {Nobody}]
    /\ available \in [Executors -> SUBSET Jobs]
    /\ assigned \in [Executors -> SUBSET Jobs]
    /\ receipts \in [Executors -> SUBSET ReceiptsOf]
    /\ actions \in [Executors -> Seq(ReceiptsOf)]
    /\ deliveries \in [Jobs -> 0 .. MaxDeliveries]
    /\ issued \in [Jobs -> Nat]
    /\ paid \in [Jobs -> Seq(Executors \X Prices)]
    /\ tasks \in Seq(TasksOf)
    /\ verified \in SUBSET Known /\ IsFiniteSet(verified)

\* What a message says of the originator and of the sender holds for ever.
NetJustified ==
    \A m \in net :
        /\ m.job \in Jobs
        /\ m.type \in {"JobAnnouncement", "AssignJob"} => m.job \in originated
        /\ m.type = "AssignJob" => m.to \in Executors
        /\ m.type = "JobBid" => m.bidder \in Executors /\ m.price \in Prices
        /\ m.type = "ReceiptAvailable" =>
              /\ m.executor \in Executors
              /\ m.content \in receipts[m.executor]
              /\ m.content.job = m.job

\* Executors know jobs from the originator, and sign for themselves.
WorkJustified ==
    \A e \in Executors :
        /\ available[e] \subseteq originated /\ assigned[e] \subseteq originated
        /\ \A r \in receipts[e] : r.executor = e
        /\ \A i \in DOMAIN actions[e] : actions[e][i] \in receipts[e]

\* A query still is about the message that started it.
QueryJustified ==
    \/ query = Idle
    \/ /\ query.pc = "fetch" \/ (query.pc = "verify" /\ mode = "task")
       /\ \/ /\ query.of.type = "ReceiptAvailable"
             /\ query.of \in net
             /\ deliveries[query.of.job] < MaxDeliveries
          \/ query.of.type = "RecordAvailable" /\ query.of.content \in PeerRecords

\* Only who has a receipt for the job is settled with.
TasksJustified ==
    \A i \in DOMAIN tasks :
        \E r \in receipts[tasks[i].executor] : r.job = tasks[i].job

\* The loop as it is written never learns what a query finds.
LoopQuiet ==
    mode = "loop" =>
        /\ anchored = {} /\ verified = {} /\ tasks = <<>>
        /\ \A j \in Jobs : paid[j] = <<>> /\ issued[j] = 0

IInv ==
    /\ State /\ NetJustified /\ WorkJustified /\ QueryJustified
    /\ TasksJustified /\ LoopQuiet /\ SettledPerDelivery

-----------------------------------------------------------------------------
(* Facts about sequences of tasks and bids.                                  *)

\* Removing one position: the others keep their order.
LEMMA RemoveAtFacts ==
    ASSUME NEW T, NEW s \in Seq(T), NEW i \in DOMAIN s
    PROVE  /\ RemoveAt(s, i) \in Seq(T)
           /\ Len(RemoveAt(s, i)) = Len(s) - 1
           /\ DOMAIN RemoveAt(s, i) = 1 .. (Len(s) - 1)
           /\ \A k \in 1 .. (Len(s) - 1) :
                 RemoveAt(s, i)[k] = IF k < i THEN s[k] ELSE s[k + 1]
<1> DEFINE a == SubSeq(s, 1, i - 1)
           b == SubSeq(s, i + 1, Len(s))
<1>1. a \in Seq(T) /\ Len(a) = i - 1 /\ \A k \in 1 .. (i - 1) : a[k] = s[k]
  OBVIOUS
<1>2. b \in Seq(T) /\ Len(b) = Len(s) - i /\ \A k \in 1 .. (Len(s) - i) : b[k] = s[k + i]
  OBVIOUS
<1> HIDE DEF a, b
<1>3. /\ a \o b \in Seq(T) /\ Len(a \o b) = Len(s) - 1
      /\ \A k \in 1 .. (Len(s) - 1) : (a \o b)[k] = IF k < i THEN a[k] ELSE b[k - (i - 1)]
  BY <1>1, <1>2
<1>4. RemoveAt(s, i) = a \o b
  BY DEF RemoveAt, a, b
<1>5. ASSUME NEW k \in 1 .. (Len(s) - 1)
      PROVE  (a \o b)[k] = IF k < i THEN s[k] ELSE s[k + 1]
  <2>1. CASE k < i
    BY <1>1, <1>3, <2>1
  <2>2. CASE ~(k < i)
    <3>1. k - (i - 1) \in 1 .. (Len(s) - i) /\ (k - (i - 1)) + i = k + 1
      BY <2>2
    <3>2. b[k - (i - 1)] = s[k + 1]
      BY <1>2, <3>1
    <3> QED BY <1>3, <2>2, <3>2
  <2> QED BY <2>1, <2>2
<1>6. DOMAIN (a \o b) = 1 .. (Len(s) - 1)
  BY <1>3
<1> QED BY <1>3, <1>4, <1>5, <1>6

LEMMA TaskFacts ==
    ASSUME NEW s \in Seq(TasksOf), NEW i \in DOMAIN s
    PROVE  /\ s[i].job \in Jobs /\ s[i].executor \in Executors
           /\ s[i].what = "settle" \/ s[i].what = "reputation"
<1>1. s[i] \in TasksOf
  OBVIOUS
<1> QED BY <1>1 DEF TasksOf

\* The positions of the tasks of one kind for one job.
Positions(s, j, w) == {k \in DOMAIN s : s[k].job = j /\ s[k].what = w}

\* The tasks left of one kind when one of the tasks is taken.
LEMMA PendingRemoved ==
    ASSUME NEW s \in Seq(TasksOf), NEW i \in DOMAIN s, NEW j, NEW w
    PROVE  /\ Cardinality(Positions(s, j, w)) \in Nat
           /\ Cardinality(Positions(RemoveAt(s, i), j, w)) \in Nat
           /\ Cardinality(Positions(RemoveAt(s, i), j, w))
                = Cardinality(Positions(s, j, w)) - (IF s[i].job = j /\ s[i].what = w THEN 1 ELSE 0)
<1> DEFINE P == {k \in DOMAIN s : s[k].job = j /\ s[k].what = w}
           r == RemoveAt(s, i)
           Q == {k \in DOMAIN r : r[k].job = j /\ r[k].what = w}
           n == Len(s)
           Shifted == AfterRemoval(n, i, P)
<1>1. n \in Nat /\ i \in 1 .. n /\ P \in SUBSET (1 .. n)
  OBVIOUS
<1>2. /\ DOMAIN r = 1 .. (n - 1)
      /\ \A k \in 1 .. (n - 1) : r[k] = IF k < i THEN s[k] ELSE s[k + 1]
  BY RemoveAtFacts
<1>3. Q = Shifted
  <2>1. ASSUME NEW k \in 1 .. (n - 1)
        PROVE  (r[k].job = j /\ r[k].what = w) <=> (IF k < i THEN k ELSE k + 1) \in P
    <3> HIDE DEF r
    <3>1. CASE k < i
      BY <1>2, <3>1
    <3>2. CASE ~(k < i)
      BY <1>2, <3>2
    <3> QED BY <3>1, <3>2
  <2> HIDE DEF r, P
  <2> QED BY <1>2, <2>1 DEF AfterRemoval
<1>4. /\ Cardinality(P) \in Nat /\ Cardinality(Shifted) \in Nat
      /\ Cardinality(Shifted) = Cardinality(P) - (IF i \in P THEN 1 ELSE 0)
  <2> HIDE DEF n, P
  <2> QED BY <1>1, PositionRemoved
<1>5. i \in P <=> s[i].job = j /\ s[i].what = w
  OBVIOUS
<1> HIDE DEF P, Q, Shifted
<1>6. /\ Cardinality(P) \in Nat /\ Cardinality(Q) \in Nat
      /\ Cardinality(Q) = Cardinality(P)
             - (IF s[i].job = j /\ s[i].what = w THEN 1 ELSE 0)
  BY <1>3, <1>4, <1>5
<1> QED BY <1>6 DEF P, Q, Positions

\* One more task at the end.
LEMMA PendingAppended ==
    ASSUME NEW s \in Seq(TasksOf), NEW t \in TasksOf, NEW j, NEW w
    PROVE  /\ Cardinality(Positions(s, j, w)) \in Nat
           /\ Cardinality(Positions(Append(s, t), j, w)) \in Nat
           /\ Cardinality(Positions(Append(s, t), j, w))
                = Cardinality(Positions(s, j, w)) + (IF t.job = j /\ t.what = w THEN 1 ELSE 0)
<1> DEFINE P == {k \in DOMAIN s : s[k].job = j /\ s[k].what = w}
           r == Append(s, t)
           Q == {k \in DOMAIN r : r[k].job = j /\ r[k].what = w}
           n == Len(s)
           new == IF t.job = j /\ t.what = w THEN {n + 1} ELSE {}
<1>1. Q = P \cup new /\ n + 1 \notin P
  OBVIOUS
<1>2. IsFiniteSet(P)
  <2>1. n \in Nat /\ P \subseteq 1 .. n
    OBVIOUS
  <2>2. IsFiniteSet(1 .. n)
    BY <2>1, FS_Interval
  <2> HIDE DEF P
  <2> QED BY <2>1, <2>2, FS_Subset
<1>3. Cardinality(P) \in Nat
  BY <1>2, FS_CardinalityType
<1>4. Cardinality(P \cup {n + 1}) = Cardinality(P) + 1
  <2> HIDE DEF P, n
  <2> QED BY <1>1, <1>2, FS_AddElement
<1> HIDE DEF P, Q, n
<1>5. Cardinality(Q) = Cardinality(P) + (IF t.job = j /\ t.what = w THEN 1 ELSE 0)
  <2>1. CASE t.job = j /\ t.what = w
    <3>1. Q = P \cup {n + 1}
      BY <1>1, <2>1
    <3> QED BY <1>3, <1>4, <2>1, <3>1
  <2>2. CASE ~(t.job = j /\ t.what = w)
    <3>1. Q = P
      BY <1>1, <2>2
    <3> QED BY <1>3, <2>2, <3>1
  <2> QED BY <2>1, <2>2
<1>6. /\ Cardinality(P) \in Nat /\ Cardinality(Q) \in Nat
      /\ Cardinality(Q) = Cardinality(P) + (IF t.job = j /\ t.what = w THEN 1 ELSE 0)
  BY <1>3, <1>5
<1> QED BY <1>6 DEF P, Q, Positions

\* A finite part of the positions.
LEMMA PositionsFinite ==
    ASSUME NEW T, NEW s \in Seq(T), NEW P \in SUBSET DOMAIN s
    PROVE  IsFiniteSet(P) /\ P \subseteq Nat
<1>1. Len(s) \in Nat /\ DOMAIN s = 1 .. Len(s)
  OBVIOUS
<1>2. IsFiniteSet(1 .. Len(s))
  BY <1>1, FS_Interval
<1> QED BY <1>1, <1>2, FS_Subset

\* The first bid of the executor, if there is one.
LEMMA FirstBidFacts ==
    ASSUME NEW t, bids[t.job] \in Seq(Bids)
    PROVE  \/ FirstBid(t) = 0
           \/ /\ FirstBid(t) \in DOMAIN bids[t.job]
              /\ bids[t.job][FirstBid(t)].bidder = t.executor
<1> DEFINE I == {i \in 1 .. Len(bids[t.job]) : bids[t.job][i].bidder = t.executor}
<1>1. FirstBid(t) = IF I # {} THEN Min(I) ELSE 0
  BY DEF FirstBid, SelectInSeq
<1>2. I # {} => Min(I) \in I
  <2> SUFFICES ASSUME I # {} PROVE Min(I) \in I
    OBVIOUS
  <2>1. I \subseteq Nat
    OBVIOUS
  <2> HIDE DEF I
  <2>2. \E m \in I : \A n \in I : m <= n
    BY <2>1, LeastNumber
  <2> QED BY <2>2 DEF Min
<1> QED BY <1>1, <1>2

-----------------------------------------------------------------------------
(* Selections: each names a bid of the list.                                 *)

\* A list of bids has finitely many positions.
LEMMA SomePositions ==
    ASSUME NEW list \in Seq(Bids), list # <<>>
    PROVE  IsFiniteSet(DOMAIN list) /\ DOMAIN list # {} /\ DOMAIN list \subseteq Int
<1> DEFINE D == DOMAIN list
<1>1. Len(list) \in Nat /\ Len(list) # 0
  BY EmptySeq
<1>2. 1 \in D
  BY <1>1
<1>3. IsFiniteSet(D) /\ D \subseteq Nat
  <2>1. D \in SUBSET DOMAIN list
    OBVIOUS
  <2> HIDE DEF D
  <2> QED BY <2>1, PositionsFinite
<1> QED BY <1>2, <1>3

LEMMA PricesAreNumbers == Prices \subseteq Nat
  BY MeshAssumption

LEMMA BidFacts ==
    ASSUME NEW list \in Seq(Bids), NEW i \in DOMAIN list
    PROVE  /\ list[i] \in Bids
           /\ list[i].bidder \in Executors /\ list[i].price \in Prices /\ list[i].price \in Nat
<1>1. list[i] \in Bids
  OBVIOUS
<1> QED BY <1>1, PricesAreNumbers DEF Bids

\* ReputationOf is a number: the records kept are finitely many.
LEMMA ReputationIsNumber ==
    ASSUME NEW did, IsFiniteSet(verified)
    PROVE  ReputationOf(did) \in Nat
<1> DEFINE A == {r \in verified : r.subject = did /\ r.ok = TRUE}
           B == {r \in verified : r.subject = did /\ r.ok = FALSE}
<1>1. A \in SUBSET verified /\ B \in SUBSET verified
  OBVIOUS
<1>2. ReputationOf(did) =
          LET raw == 50 + 10 * Cardinality(A) - 15 * Cardinality(B)
          IN  IF raw < 0 THEN 0 ELSE IF raw > 100 THEN 100 ELSE raw
  BY DEF ReputationOf
<1> HIDE DEF A, B
<1>3. Cardinality(A) \in Nat /\ Cardinality(B) \in Nat
  BY <1>1, FS_Subset, FS_CardinalityType
<1> QED BY <1>2, <1>3

\* What a policy's score is made of.
LEMMA PolicyFacts ==
    ASSUME NEW pol \in Policies, pol.kind = "policy"
    PROVE  /\ pol.cap \in 0 .. 1000 \cup {Nobody}
           /\ pol.minRep \in Nat /\ pol.priceWeight \in Nat /\ pol.repWeight \in Nat
  BY MeshAssumption

LEMMA PolicyScoreIsNumber ==
    ASSUME NEW pol \in Policies, pol.kind = "policy", IsFiniteSet(verified), NEW b \in Bids
    PROVE  /\ PriceComponent(pol, b) \in Int
           /\ PolicyScore(pol, b) \in Int
<1>1. /\ pol.cap \in 0 .. 1000 \cup {Nobody} /\ pol.priceWeight \in Nat /\ pol.repWeight \in Nat
      /\ b.price \in Nat /\ ReputationOf(b.bidder) \in Nat
  <2>1. pol.cap \in 0 .. 1000 \cup {Nobody} /\ pol.priceWeight \in Nat /\ pol.repWeight \in Nat
    BY PolicyFacts
  <2>2. b.price \in Nat
    BY PricesAreNumbers DEF Bids
  <2>3. ReputationOf(b.bidder) \in Nat
    BY ReputationIsNumber
  <2> QED BY <2>1, <2>2, <2>3
<1>2. PriceComponent(pol, b) \in Int
  <2> DEFINE scale == IF pol.cap = Nobody THEN 2 * b.price ELSE pol.cap
  <2>1. scale \in Nat
    <3>1. CASE pol.cap = Nobody
      BY <1>1, <3>1
    <3>2. CASE pol.cap # Nobody
      BY <1>1, <3>2
    <3> QED BY <3>1, <3>2
  <2>2. PriceComponent(pol, b) = IF scale > 0 THEN 1000 - (1000 * b.price) \div scale ELSE 1000
    BY DEF PriceComponent
  <2> HIDE DEF scale
  <2>3. PICK c \in Nat, p \in Nat : scale = c /\ b.price = p
    BY <1>1, <2>1
  <2>4. c > 0 => (1000 * p) \div c \in Int
    OBVIOUS
  <2>5. (IF c > 0 THEN 1000 - (1000 * p) \div c ELSE 1000) \in Int
    BY <2>4
  <2> QED BY <2>2, <2>3, <2>5
<1> QED BY <1>1, <1>2 DEF PolicyScore

\* The last of the admitted bids with the highest score is one of the bids.
LEMMA BestByPolicyFacts ==
    ASSUME NEW pol \in Policies, pol.kind = "policy", IsFiniteSet(verified),
           NEW list \in Seq(Bids), Admitted(pol, list) # {}
    PROVE  \E i \in Admitted(pol, list) :
              /\ i \in DOMAIN list
              /\ BestByPolicy(pol, list) = list[i]
              /\ \A k \in Admitted(pol, list) :
                    PolicyScore(pol, list[k]) <= PolicyScore(pol, list[i])
<1> DEFINE D == Admitted(pol, list)
           Score(i) == PolicyScore(pol, list[i])
           g == [i \in D |-> Score(i)]
           Best(i) == \A k \in D : Score(k) < Score(i) \/ (Score(k) = Score(i) /\ k <= i)
           c == CHOOSE i \in D : Best(i)
<1>1. D \in SUBSET DOMAIN list
  BY DEF Admitted
<1>2. IsFiniteSet(D) /\ D \subseteq Int /\ D # {}
  <2> HIDE DEF D
  <2>1. IsFiniteSet(D) /\ D \subseteq Nat
    BY <1>1, PositionsFinite
  <2> QED BY <2>1 DEF D
<1>3. \A i \in D : Score(i) \in Int
  BY <1>1, BidFacts, PolicyScoreIsNumber
<1>4. g \in [D -> Int]
  BY <1>3
<1>5. \E i \in D : \A k \in D : g[k] < g[i] \/ (g[k] = g[i] /\ k <= i)
  <2> HIDE DEF D, g
  <2> QED BY <1>2, <1>4, BestPositions
<1>6. \E i \in D : Best(i)
  BY <1>5
<1>7. c \in D /\ Best(c)
  <2> HIDE DEF D, Best
  <2> QED BY <1>6
<1>8. \A k \in D : Score(k) <= Score(c)
  <2> HIDE DEF D, Score, c
  <2> QED BY <1>3, <1>7
<1>9. BestByPolicy(pol, list) = list[c]
  BY DEF BestByPolicy
<1> QED BY <1>1, <1>7, <1>8, <1>9

\* And the lowest bid.
LEMMA LowestBidFacts ==
    ASSUME NEW list \in Seq(Bids), list # <<>>
    PROVE  \E i \in DOMAIN list : LowestBid(list) = list[i]
<1> DEFINE D == DOMAIN list
           g == [i \in D |-> 0 - list[i].price]
           First(i) == \A k \in D : list[k].price > list[i].price
                                       \/ (list[k].price = list[i].price /\ i <= k)
           c == CHOOSE i \in D : First(i)
<1>1. IsFiniteSet(D) /\ D # {} /\ D \subseteq Int
  BY SomePositions
<1>2. \A i \in D : list[i].price \in Nat
  BY BidFacts
<1>3. g \in [D -> Int]
  BY <1>2
<1>4. \E i \in D : \A k \in D : g[k] < g[i] \/ (g[k] = g[i] /\ i <= k)
  <2> HIDE DEF D, g
  <2> QED BY <1>1, <1>3, BestPositions
<1>5. \E i \in D : First(i)
  <2>1. PICK i \in D : \A k \in D : g[k] < g[i] \/ (g[k] = g[i] /\ i <= k)
    BY <1>4
  <2>2. ASSUME NEW k \in D
        PROVE  list[k].price > list[i].price \/ (list[k].price = list[i].price /\ i <= k)
    <3>1. 0 - list[k].price < 0 - list[i].price
            \/ (0 - list[k].price = 0 - list[i].price /\ i <= k)
      BY <2>1
    <3>2. list[k].price \in Nat /\ list[i].price \in Nat
      BY <1>2
    <3> QED BY <3>1, <3>2
  <2> QED BY <2>2
<1>6. c \in D
  <2> HIDE DEF D, First
  <2> QED BY <1>5
<1>7. LowestBid(list) = list[c]
  BY DEF LowestBid
<1> QED BY <1>6, <1>7

-----------------------------------------------------------------------------
(* The invariant, action by action.                                         *)

\* What is not touched stays justified.
LEMMA Frame ==
    ASSUME IInv
    PROVE  /\ UNCHANGED <<tasks, receipts>> => TasksJustified'
           /\ UNCHANGED <<mode, anchored, verified, tasks, paid, issued>> => LoopQuiet'
           /\ UNCHANGED <<tasks, paid, deliveries, issued>> => SettledPerDelivery'
           /\ UNCHANGED <<available, assigned, receipts, actions>> /\ originated \subseteq originated' => WorkJustified'
           /\ UNCHANGED <<net, receipts>> /\ originated \subseteq originated' => NetJustified'
           /\ UNCHANGED <<query, mode, deliveries>> /\ net \subseteq net' => QueryJustified'
<1>1. UNCHANGED <<tasks, receipts>> => TasksJustified'
  BY DEF IInv, TasksJustified
<1>2. UNCHANGED <<mode, anchored, verified, tasks, paid, issued>> => LoopQuiet'
  BY DEF IInv, LoopQuiet
<1>3. UNCHANGED <<tasks, paid, deliveries, issued>> => SettledPerDelivery'
  BY DEF IInv, SettledPerDelivery, Pending
<1>4. UNCHANGED <<available, assigned, receipts, actions>> /\ originated \subseteq originated' => WorkJustified'
  BY DEF IInv, WorkJustified
<1>5. UNCHANGED <<net, receipts>> /\ originated \subseteq originated' => NetJustified'
  BY DEF IInv, NetJustified
<1>6. UNCHANGED <<query, mode, deliveries>> /\ net \subseteq net' => QueryJustified'
  BY DEF IInv, QueryJustified
<1> QED BY <1>1, <1>2, <1>3, <1>4, <1>5, <1>6

\* New messages that say nothing of assignees, prices and receipts.
LEMMA HarmlessMessages ==
    ASSUME IInv, receipts' = receipts, originated \subseteq originated',
           NEW M, net' = net \cup M,
           \A m \in M : /\ m.job \in Jobs
                        /\ m.type \notin {"AssignJob", "JobBid", "ReceiptAvailable"}
                        /\ m.type = "JobAnnouncement" => m.job \in originated'
    PROVE  NetJustified'
  BY DEF IInv, NetJustified

LEMMA InitInv == Init => IInv
<1> SUFFICES ASSUME Init PROVE IInv
  OBVIOUS
<1>1. State
  <2>1. IsFiniteSet({})
    BY FS_EmptySet
  <2>2. MaxDeliveries \in Nat
    BY MeshAssumption
  <2>3. mode \in {"loop", "task"} /\ policy \in Policies
    BY MeshAssumption DEF Init
  <2> QED BY <2>1, <2>2, <2>3 DEF Init, State
<1>2. NetJustified /\ WorkJustified /\ QueryJustified /\ TasksJustified /\ LoopQuiet
  BY DEF Init, NetJustified, WorkJustified, QueryJustified, TasksJustified, LoopQuiet
<1>3. SettledPerDelivery
  <2>1. ASSUME NEW j \in Jobs, NEW w PROVE Cardinality(Pending(j, w)) = 0
    <3>1. Pending(j, w) = {}
      BY DEF Init, Pending
    <3> QED BY <3>1, FS_EmptySet
  <2> QED BY <2>1 DEF Init, SettledPerDelivery
<1> QED BY <1>1, <1>2, <1>3 DEF IInv

LEMMA QueueJobInv ==
    ASSUME IInv, NEW j \in Jobs, QueueJob(j) PROVE IInv'
<1>1. State'
  BY DEF IInv, State, QueueJob, config, work, effects
<1> QED BY <1>1, Frame DEF IInv, QueueJob, config, work, effects

LEMMA JobQueueTickInv ==
    ASSUME IInv, NEW unsent \in SUBSET Jobs, JobQueueTick(unsent) PROVE IInv'
<1> DEFINE sent == ToSet(queue) \ unsent
           M == {[type |-> "JobAnnouncement", job |-> j] : j \in sent}
<1>1. sent \subseteq Jobs
  BY DEF IInv, State, ToSet
<1>2. net' = net \cup M /\ topics' = topics \cup sent /\ originated' = originated \cup sent
  BY DEF JobQueueTick
<1> HIDE DEF sent
<1>3. State'
  <2>1. originated' \in SUBSET Jobs /\ topics' \in SUBSET originated'
    BY <1>1, <1>2 DEF IInv, State
  <2>2. /\ queue' = <<>> /\ queue' \in Seq(Jobs)
        /\ UNCHANGED <<config, alive, bids, assignedBy, work, effects>>
    BY DEF JobQueueTick
  <2>3. State
    BY DEF IInv
  <2> QED BY <2>1, <2>2, <2>3 DEF State, config, work, effects
<1>4. NetJustified'
  <2>1. \A m \in M : m.job \in Jobs /\ m.type = "JobAnnouncement" /\ m.job \in originated'
    BY <1>1, <1>2
  <2>2. receipts' = receipts /\ originated \subseteq originated'
    BY <1>2 DEF JobQueueTick, work
  <2> HIDE DEF M
  <2> QED BY <1>2, <2>1, <2>2, HarmlessMessages
<1>5. net \subseteq net' /\ originated \subseteq originated'
  BY <1>2
<1> QED BY <1>3, <1>4, <1>5, Frame DEF IInv, JobQueueTick, config, work, effects

\* A selection assigns an open job to a bidder.
LEMMA AssignInv ==
    ASSUME IInv, NEW j \in OpenJobs, NEW e \in Executors, AssignJobToExecutor(j, e)
    PROVE  IInv'
<1>1. j \in Jobs /\ j \in originated
  BY DEF OpenJobs, IInv, State
<1>2. State'
  BY <1>1 DEF IInv, State, AssignJobToExecutor, config, work, effects
<1>3. NetJustified'
  <2> DEFINE new == [type |-> "AssignJob", job |-> j, to |-> e]
  <2>1. net' = net \cup {new} /\ receipts' = receipts /\ originated' = originated
    BY DEF AssignJobToExecutor, work
  <2>2. /\ new.job \in Jobs /\ new.job \in originated /\ new.to \in Executors
        /\ new.type = "AssignJob"
    BY <1>1
  <2> HIDE DEF new
  <2> QED BY <2>1, <2>2 DEF IInv, NetJustified
<1>4. net \subseteq net'
  BY DEF AssignJobToExecutor
<1> QED BY <1>2, <1>3, <1>4, Frame DEF IInv, AssignJobToExecutor, config, work, effects

LEMMA SelectByScoreInv ==
    ASSUME IInv, NEW j \in Jobs, SelectByScore(j)
    PROVE  IInv'
<1>1. State'
  BY DEF SelectByScore, IInv, State, config, market, work, effects
<1> QED BY <1>1, Frame DEF SelectByScore, IInv, config, market, work, effects

LEMMA SelectByPolicyInv ==
    ASSUME IInv, NEW j \in Jobs, SelectByPolicy(j)
    PROVE  IInv'
<1>1. j \in OpenJobs /\ bids[j] \in Seq(Bids) /\ bids[j] # <<>>
  BY DEF SelectByPolicy, OpenJobs, IInv, State
<1>2. CASE AssignJobToExecutor(j, LowestBid(bids[j]).bidder)
  <2>1. LowestBid(bids[j]).bidder \in Executors
    BY <1>1, LowestBidFacts, BidFacts
  <2> QED BY <1>1, <1>2, <2>1, AssignInv
<1>3. CASE /\ policy.kind = "policy" /\ Admitted(policy, bids[j]) # {}
           /\ AssignJobToExecutor(j, BestByPolicy(policy, bids[j]).bidder)
  <2>1. policy \in Policies /\ IsFiniteSet(verified)
    BY DEF IInv, State
  <2>2. PICK i \in DOMAIN bids[j] : BestByPolicy(policy, bids[j]) = bids[j][i]
    BY <1>1, <1>3, <2>1, BestByPolicyFacts
  <2>3. BestByPolicy(policy, bids[j]).bidder \in Executors
    BY <1>1, <2>2, BidFacts
  <2> QED BY <1>1, <1>3, <2>3, AssignInv
<1> QED BY <1>2, <1>3 DEF SelectByPolicy

LEMMA ExecutorSendsInv ==
    ASSUME IInv, NEW e \in Executors, NEW j \in Jobs,
           \/ SendTerminalStatus(e, j)
           \/ \E p \in BidPrices[e] : PeerBids(e, j, p)
    PROVE  IInv'
<1>1. CASE SendTerminalStatus(e, j)
  <2> DEFINE M == {[type |-> "JobStatusUpdate", job |-> j, status |-> "Completed"]}
  <2>1. net' = net \cup M /\ UNCHANGED <<config, alive, market, work, query, effects>>
    BY <1>1 DEF SendTerminalStatus
  <2>2. \A m \in M : m.job \in Jobs /\ m.type = "JobStatusUpdate"
    OBVIOUS
  <2>3. State'
    BY <2>1 DEF IInv, State, config, market, work, effects
  <2>4. NetJustified'
    <3> HIDE DEF M
    <3> QED BY <2>1, <2>2, HarmlessMessages DEF market, work
  <2> HIDE DEF M
  <2> QED BY <2>1, <2>3, <2>4, Frame DEF IInv, config, market, work, effects
<1>2. ASSUME NEW p \in BidPrices[e], PeerBids(e, j, p) PROVE IInv'
  <2> DEFINE new == [type |-> "JobBid", job |-> j, bidder |-> e, price |-> p]
  <2>1. net' = net \cup {new} /\ UNCHANGED <<config, alive, market, work, query, effects>>
    BY <1>2 DEF PeerBids
  <2>2. p \in Prices
    BY MeshAssumption
  <2>3. State'
    BY <2>1 DEF IInv, State, config, market, work, effects
  <2>4. NetJustified'
    <3>1. UNCHANGED <<originated, receipts>>
      BY <2>1 DEF market, work
    <3>2. new.job \in Jobs /\ new.type = "JobBid" /\ new.bidder \in Executors /\ new.price \in Prices
      BY <2>2
    <3> HIDE DEF new
    <3> QED BY <2>1, <3>1, <3>2 DEF IInv, NetJustified
  <2> HIDE DEF new
  <2> QED BY <2>1, <2>3, <2>4, Frame DEF IInv, config, market, work, effects
<1> QED BY <1>1, <1>2

LEMMA OnJobAnnouncementInv ==
    ASSUME IInv, NEW e \in Executors, NEW m \in net, OnJobAnnouncement(e, m)
    PROVE  IInv'
<1> DEFINE M == IF m.job \in Suitable[e]
                THEN {[type |-> "JobInterest", job |-> m.job, from |-> e]} ELSE {}
<1>1. m.job \in Jobs /\ m.job \in originated
  BY DEF OnJobAnnouncement, IInv, NetJustified
<1>2. /\ net' = net \cup M
      /\ available' = [available EXCEPT ![e] = @ \cup {m.job}]
      /\ UNCHANGED <<config, alive, market, assigned, receipts, actions, query, effects>>
  BY DEF OnJobAnnouncement
<1>3. \A x \in M : x.job \in Jobs /\ x.type = "JobInterest"
  BY <1>1
<1> HIDE DEF M
<1>4. State'
  BY <1>1, <1>2 DEF IInv, State, config, market, effects
<1>5. NetJustified'
  BY <1>2, <1>3, HarmlessMessages DEF market
<1>6. WorkJustified'
  BY <1>1, <1>2 DEF IInv, State, WorkJustified, market
<1> QED BY <1>2, <1>4, <1>5, <1>6, Frame DEF IInv, config, market, effects

LEMMA OnAssignJobInv ==
    ASSUME IInv, NEW e \in Executors, NEW m \in net, OnAssignJob(e, m)
    PROVE  IInv'
<1> DEFINE M == {[type |-> "JobStatusUpdate", job |-> m.job, status |-> "Assigned"]}
<1>1. m.job \in Jobs /\ m.job \in originated
  BY DEF OnAssignJob, IInv, NetJustified
<1>2. /\ net' = net \cup M
      /\ assigned' = [assigned EXCEPT ![e] = @ \cup {m.job}]
      /\ UNCHANGED <<config, alive, market, available, receipts, actions, query, effects>>
  BY DEF OnAssignJob
<1>3. \A x \in M : x.job \in Jobs /\ x.type = "JobStatusUpdate"
  BY <1>1
<1> HIDE DEF M
<1>4. State'
  BY <1>1, <1>2 DEF IInv, State, config, market, effects
<1>5. NetJustified'
  BY <1>2, <1>3, HarmlessMessages DEF market
<1>6. WorkJustified'
  BY <1>1, <1>2 DEF IInv, State, WorkJustified, market
<1> QED BY <1>2, <1>4, <1>5, <1>6, Frame DEF IInv, config, market, effects

LEMMA ExecuteAndAnchorInv ==
    ASSUME IInv, NEW e \in Executors, NEW j \in Jobs, ExecuteAndAnchor(e, j)
    PROVE  IInv'
<1> DEFINE r == [job |-> j, executor |-> e, signer |-> e]
<1>2. /\ receipts' = [receipts EXCEPT ![e] = @ \cup {r}]
      /\ actions' = [actions EXCEPT ![e] = Append(@, r)]
      /\ UNCHANGED <<config, alive, net, market, available, assigned, query, effects>>
  BY DEF ExecuteAndAnchor
<1>3. r \in ReceiptsOf /\ r.job = j /\ r.executor = e
  BY DEF ReceiptsOf
<1> HIDE DEF r
<1>4. receipts \in [Executors -> SUBSET ReceiptsOf] /\ actions \in [Executors -> Seq(ReceiptsOf)]
  BY DEF IInv, State
<1>5. receipts' \in [Executors -> SUBSET ReceiptsOf] /\ actions' \in [Executors -> Seq(ReceiptsOf)]
  BY <1>2, <1>3, <1>4
<1>6. State'
  BY <1>2, <1>5 DEF IInv, State, config, market, effects
<1>7. \A x \in Executors : receipts[x] \subseteq receipts'[x]
  BY <1>2, <1>4
<1>8. NetJustified'
  <2>1. originated' = originated /\ net' = net
    BY <1>2 DEF market
  <2> QED BY <1>7, <2>1 DEF IInv, NetJustified
<1>9. WorkJustified'
  <2>1. UNCHANGED <<originated, available, assigned>>
    BY <1>2 DEF market
  <2> SUFFICES ASSUME NEW x \in Executors
               PROVE  /\ available'[x] \subseteq originated' /\ assigned'[x] \subseteq originated'
                      /\ \A q \in receipts'[x] : q.executor = x
                      /\ \A i \in DOMAIN actions'[x] : actions'[x][i] \in receipts'[x]
    BY DEF WorkJustified
  <2>2. \A q \in receipts'[x] : q.executor = x
    BY <1>2, <1>3, <1>4 DEF IInv, WorkJustified
  <2>3. \A i \in DOMAIN actions'[x] : actions'[x][i] \in receipts'[x]
    <3>1. CASE x = e
      <4>1. actions'[e] = Append(actions[e], r) /\ receipts'[e] = receipts[e] \cup {r}
        BY <1>2, <1>4
      <4>2. actions[e] \in Seq(ReceiptsOf)
        BY <1>4
      <4> QED BY <3>1, <4>1, <4>2 DEF IInv, WorkJustified
    <3>2. CASE x # e
      BY <1>2, <1>4, <3>2 DEF IInv, WorkJustified
    <3> QED BY <3>1, <3>2
  <2> QED BY <2>1, <2>2, <2>3 DEF IInv, WorkJustified
<1>10. TasksJustified'
  <2>1. tasks' = tasks /\ \A i \in DOMAIN tasks : tasks[i].executor \in Executors
    BY <1>2, TaskFacts DEF IInv, State, effects
  <2> QED BY <1>7, <2>1 DEF IInv, TasksJustified
<1> QED BY <1>2, <1>6, <1>8, <1>9, <1>10, Frame DEF IInv, config, market, effects

LEMMA AnnounceReceiptInv ==
    ASSUME IInv, NEW e \in Executors, AnnounceReceipt(e)
    PROVE  IInv'
<1> DEFINE h == Head(actions[e])
           new == [type |-> "ReceiptAvailable", job |-> h.job, content |-> h, executor |-> e]
<1>1. actions \in [Executors -> Seq(ReceiptsOf)] /\ actions[e] \in Seq(ReceiptsOf) /\ actions[e] # <<>>
  BY DEF AnnounceReceipt, IInv, State
<1>2. /\ net' = net \cup {new}
      /\ actions' = [actions EXCEPT ![e] = Tail(@)]
      /\ UNCHANGED <<config, alive, market, available, assigned, receipts, query, effects>>
  BY DEF AnnounceReceipt
<1>3. Len(actions[e]) \in Nat /\ Len(actions[e]) # 0
  BY <1>1, EmptySeq
<1>4. /\ h = actions[e][1] /\ 1 \in DOMAIN actions[e]
      /\ Tail(actions[e]) \in Seq(ReceiptsOf)
      /\ \A i \in DOMAIN Tail(actions[e]) :
            i + 1 \in DOMAIN actions[e] /\ Tail(actions[e])[i] = actions[e][i + 1]
  BY <1>1, <1>3
<1>5. h \in receipts[e] /\ h.job \in Jobs
  <2>1. h \in receipts[e]
    BY <1>4 DEF IInv, WorkJustified
  <2>2. receipts[e] \subseteq ReceiptsOf
    BY DEF IInv, State
  <2> HIDE DEF h
  <2> QED BY <2>1, <2>2 DEF ReceiptsOf
<1> HIDE DEF h
<1>6. State'
  BY <1>1, <1>2, <1>4 DEF IInv, State, config, market, effects
<1>7. NetJustified'
  <2>1. UNCHANGED <<originated, receipts>>
    BY <1>2 DEF market
  <2>2. /\ new.type = "ReceiptAvailable" /\ new.job \in Jobs /\ new.executor \in Executors
        /\ new.content \in receipts[new.executor] /\ new.content.job = new.job
    BY <1>5
  <2> HIDE DEF new
  <2> QED BY <1>2, <2>1, <2>2 DEF IInv, NetJustified
<1>8. WorkJustified'
  <2>1. UNCHANGED <<originated, available, assigned, receipts>>
    BY <1>2 DEF market
  <2>2. ASSUME NEW x \in Executors, NEW i \in DOMAIN actions'[x]
        PROVE  actions'[x][i] \in receipts[x]
    <3>1. CASE x = e
      BY <1>1, <1>2, <1>4, <3>1 DEF IInv, WorkJustified
    <3>2. CASE x # e
      BY <1>1, <1>2, <3>2 DEF IInv, WorkJustified
    <3> QED BY <3>1, <3>2
  <2> QED BY <2>1, <2>2 DEF IInv, WorkJustified
<1> HIDE DEF new
<1> QED BY <1>2, <1>6, <1>7, <1>8, Frame DEF IInv, config, market, effects

\* What the originator hears of interests, bids and endings.
LEMMA OwnerHearsInv ==
    ASSUME IInv, NEW m \in net, OnJobInterest(m) \/ OnJobBid(m) \/ OnJobStatus(m)
    PROVE  IInv'
<1>1. m.job \in Jobs
  BY DEF IInv, NetJustified
<1>2. CASE OnJobInterest(m)
  <2>1. State'
    BY <1>2 DEF OnJobInterest, IInv, State, config, work, effects
  <2> QED BY <1>2, <2>1, Frame DEF OnJobInterest, IInv, config, work, effects
<1>3. CASE OnJobBid(m)
  <2> DEFINE b == [bidder |-> m.bidder, price |-> m.price]
  <2>1. b \in Bids
    BY <1>3 DEF OnJobBid, IInv, NetJustified, Bids
  <2>2. bids' = [bids EXCEPT ![m.job] = Append(@, b)]
    BY <1>3 DEF OnJobBid
  <2> HIDE DEF b
  <2>3. bids' \in [Jobs -> Seq(Bids)]
    BY <1>1, <2>1, <2>2 DEF IInv, State
  <2>4. State'
    BY <1>3, <2>3 DEF OnJobBid, IInv, State, config, work, effects
  <2> QED BY <1>3, <2>4, Frame DEF OnJobBid, IInv, config, work, effects
<1>4. CASE OnJobStatus(m)
  <2>1. State'
    BY <1>4 DEF OnJobStatus, IInv, State, config, work, effects
  <2> QED BY <1>4, <2>1, Frame DEF OnJobStatus, IInv, config, work, effects
<1> QED BY <1>2, <1>3, <1>4

\* Queries begin, are answered and are given up.
LEMMA QueryInv ==
    ASSUME IInv,
           \/ \E m \in net : OnReceiptAvailable(m)
           \/ \E r \in PeerRecords : FetchReputationRecord(r)
           \/ \E v \in Stored : KademliaFinds(v)
           \/ KademliaFindsNothing
           \/ FetchTimeout
    PROVE  IInv'
<1>1. /\ QueryJustified'
      /\ UNCHANGED <<config, alive, net, market, work, effects>>
  <2>1. ASSUME NEW m \in net, OnReceiptAvailable(m)
        PROVE  QueryJustified' /\ UNCHANGED <<config, alive, net, market, work, effects>>
    <3>1. UNCHANGED <<config, alive, net, market, work, effects>>
      BY <2>1 DEF OnReceiptAvailable
    <3>2. query'.pc = "fetch" /\ query'.of = m
      BY <2>1 DEF OnReceiptAvailable
    <3> QED BY <2>1, <3>1, <3>2 DEF QueryJustified, OnReceiptAvailable, effects
  <2>2. ASSUME NEW r \in PeerRecords, FetchReputationRecord(r)
        PROVE  QueryJustified' /\ UNCHANGED <<config, alive, net, market, work, effects>>
    BY <2>2 DEF FetchReputationRecord, QueryJustified
  <2>3. ASSUME NEW v, KademliaFinds(v)
        PROVE  QueryJustified' /\ UNCHANGED <<config, alive, net, market, work, effects>>
    <3>1. UNCHANGED <<mode, net, deliveries>>
      BY <2>3 DEF KademliaFinds, config, effects
    <3>2. query # Idle
      BY <2>3 DEF KademliaFinds, Idle
    <3>3. mode = "task" /\ query'.pc = "verify" /\ query'.of = query.of
      BY <2>3, <3>2 DEF KademliaFinds, InSelect
    <3> QED BY <2>3, <3>1, <3>2, <3>3 DEF IInv, QueryJustified, KademliaFinds
  <2>4. CASE KademliaFindsNothing
    BY <2>4 DEF KademliaFindsNothing, QueryJustified
  <2>5. CASE FetchTimeout
    BY <2>5 DEF FetchTimeout, QueryJustified
  <2> QED BY <2>1, <2>2, <2>3, <2>4, <2>5
<1>2. State'
  BY <1>1 DEF IInv, State, config, market, work, effects
<1> QED BY <1>1, <1>2, Frame DEF IInv, config, market, work, effects

\* A valid answer is what the executor of the job has signed.
LEMMA VerifyReceiptInv ==
    ASSUME IInv, VerifyReceipt
    PROVE  IInv'
<1> DEFINE r == query.answer
           m == query.of
           t1 == [what |-> "settle", job |-> m.job, executor |-> r.executor]
           t2 == [what |-> "reputation", job |-> m.job, executor |-> r.executor]
<1>1. /\ query' = Idle
      /\ UNCHANGED <<config, alive, net, market, work, verified, paid, issued>>
      /\ query # Idle /\ m.type = "ReceiptAvailable" /\ query.pc = "verify"
  BY DEF VerifyReceipt, Idle
<1>2. QueryJustified'
  BY <1>1 DEF QueryJustified
<1>3. /\ mode = "task" /\ m \in net /\ deliveries[m.job] < MaxDeliveries /\ m.job \in Jobs
  BY <1>1 DEF IInv, QueryJustified, NetJustified
<1>4. CASE ~ReceiptValid(r, m)
  <2>1. UNCHANGED <<anchored, tasks, deliveries>>
    BY <1>4 DEF VerifyReceipt
  <2>2. State'
    BY <1>1, <2>1 DEF IInv, State, config, market, work
  <2> QED BY <1>1, <1>2, <2>1, <2>2, Frame DEF IInv, config, market, work
<1>5. CASE ReceiptValid(r, m)
  <2>1. /\ tasks' = tasks \o <<t1, t2>>
        /\ deliveries' = [deliveries EXCEPT ![m.job] = @ + 1]
    BY <1>5 DEF VerifyReceipt, Spawned
  <2>2. /\ m.executor \in Executors /\ r \in receipts[m.executor]
        /\ r.executor = m.executor /\ r.job = m.job
    BY <1>1, <1>3, <1>5 DEF ReceiptValid, IInv, NetJustified
  <2>3. r.executor \in Executors /\ \E q \in receipts[r.executor] : q.job = m.job
    BY <2>2
  <2> HIDE DEF r, m
  <2>4. t1 \in TasksOf /\ t2 \in TasksOf
    BY <1>3, <2>3 DEF TasksOf
  <2>5. /\ t1.job = m.job /\ t1.executor = r.executor /\ t1.what = "settle"
        /\ t2.job = m.job /\ t2.executor = r.executor /\ t2.what = "reputation"
    OBVIOUS
  <2> HIDE DEF t1, t2
  <2>6. tasks \in Seq(TasksOf) /\ deliveries \in [Jobs -> 0 .. MaxDeliveries] /\ MaxDeliveries \in Nat
    BY MeshAssumption DEF IInv, State
  <2>7. tasks' = Append(Append(tasks, t1), t2) /\ Append(tasks, t1) \in Seq(TasksOf)
        /\ tasks' \in Seq(TasksOf)
    BY <2>1, <2>4, <2>6
  <2>8. /\ deliveries' \in [Jobs -> 0 .. MaxDeliveries]
        /\ \A j \in Jobs : deliveries'[j] = deliveries[j] + (IF j = m.job THEN 1 ELSE 0)
    BY <1>3, <2>1, <2>6
  <2>9. State'
    BY <1>1, <2>7, <2>8 DEF IInv, State, config, market, work
  <2>10. TasksJustified'
    <3>1. \A i \in DOMAIN tasks' : \/ i \in DOMAIN tasks /\ tasks'[i] = tasks[i]
                                \/ tasks'[i] = t1
                                \/ tasks'[i] = t2
      BY <2>4, <2>6, <2>7
    <3>2. receipts' = receipts
      BY <1>1 DEF work
    <3> QED BY <2>3, <2>5, <3>1, <3>2 DEF IInv, TasksJustified
  <2>11. SettledPerDelivery'
    <3> SUFFICES ASSUME NEW j \in Jobs
                 PROVE  /\ Len(paid[j]) + Cardinality(Pending(j, "settle")') <= deliveries'[j]
                        /\ issued[j] + Cardinality(Pending(j, "reputation")') <= deliveries'[j]
      BY <1>1 DEF SettledPerDelivery
    <3> DEFINE one == IF j = m.job THEN 1 ELSE 0
    <3>1. ASSUME NEW w \in {"settle", "reputation"}
          PROVE  /\ Cardinality(Pending(j, w)) \in Nat
                 /\ Cardinality(Pending(j, w)') = Cardinality(Pending(j, w)) + one
      <4> DEFINE s == Append(tasks, t1)
      <4>1. /\ Cardinality(Positions(tasks, j, w)) \in Nat
            /\ Cardinality(Positions(s, j, w)) \in Nat
            /\ Cardinality(Positions(s, j, w))
                 = Cardinality(Positions(tasks, j, w)) + (IF t1.job = j /\ t1.what = w THEN 1 ELSE 0)
        BY <2>4, <2>6, PendingAppended
      <4>2. s \in Seq(TasksOf) /\ tasks' = Append(s, t2)
        BY <2>7
      <4> HIDE DEF s
      <4>3. /\ Cardinality(Positions(Append(s, t2), j, w)) \in Nat
            /\ Cardinality(Positions(Append(s, t2), j, w))
                 = Cardinality(Positions(s, j, w)) + (IF t2.job = j /\ t2.what = w THEN 1 ELSE 0)
        BY <2>4, <4>2, PendingAppended
      <4>4. /\ Pending(j, w) = Positions(tasks, j, w)
            /\ Pending(j, w)' = Positions(Append(s, t2), j, w)
        BY <4>2 DEF Pending, Positions
      <4>5. Cardinality(Positions(Append(s, t2), j, w)) = Cardinality(Positions(tasks, j, w)) + one
        BY <2>5, <4>1, <4>3
      <4> QED BY <4>1, <4>4, <4>5
    <3>2. /\ deliveries[j] \in Nat /\ deliveries'[j] = deliveries[j] + one
          /\ Len(paid[j]) \in Nat /\ issued[j] \in Nat
      BY <2>6, <2>8 DEF IInv, State
    <3>3. /\ Len(paid[j]) + Cardinality(Pending(j, "settle")) <= deliveries[j]
          /\ issued[j] + Cardinality(Pending(j, "reputation")) <= deliveries[j]
      BY DEF IInv, SettledPerDelivery
    <3> HIDE DEF one
    <3>4. one \in Nat
      BY DEF one
    <3>5. /\ Cardinality(Pending(j, "settle")) \in Nat
          /\ Cardinality(Pending(j, "settle")') = Cardinality(Pending(j, "settle")) + one
      BY <3>1
    <3>6. /\ Cardinality(Pending(j, "reputation")) \in Nat
          /\ Cardinality(Pending(j, "reputation")') = Cardinality(Pending(j, "reputation")) + one
      BY <3>1
    <3> QED BY <3>2, <3>3, <3>4, <3>5, <3>6
  <2>12. LoopQuiet'
    BY <1>1, <1>3 DEF LoopQuiet, config
  <2> QED BY <1>1, <1>2, <2>9, <2>10, <2>11, <2>12, Frame DEF IInv, config, market, work
<1> QED BY <1>4, <1>5

LEMMA VerifyRecordInv ==
    ASSUME IInv, VerifyRecord
    PROVE  IInv'
<1>1. /\ query' = Idle
      /\ UNCHANGED <<config, alive, net, market, work, anchored, deliveries, tasks, paid, issued>>
      /\ query # Idle /\ query.of.type = "RecordAvailable" /\ query.pc = "verify"
  BY DEF VerifyRecord, Idle
<1>2. mode = "task" /\ query.of.content \in PeerRecords
  BY <1>1 DEF IInv, QueryJustified
<1>3. verified' \in SUBSET Known /\ IsFiniteSet(verified')
  <2>1. CASE RecordValid(query.answer, query.of)
    <3>1. verified' = verified \cup {query.answer}
      BY <2>1 DEF VerifyRecord
    <3>2. query.answer \in Known
      BY <1>2, <2>1 DEF RecordValid, Known
    <3>3. verified \in SUBSET Known /\ IsFiniteSet(verified)
      BY DEF IInv, State
    <3> QED BY <3>1, <3>2, <3>3, FS_AddElement
  <2>2. CASE ~RecordValid(query.answer, query.of)
    BY <2>2 DEF VerifyRecord, IInv, State
  <2> QED BY <2>1, <2>2
<1>4. State'
  BY <1>1, <1>3 DEF IInv, State, config, market, work
<1>5. QueryJustified' /\ LoopQuiet'
  BY <1>1, <1>2 DEF QueryJustified, LoopQuiet, config
<1> QED BY <1>1, <1>4, <1>5, Frame DEF IInv, config, market, work

\* A task is taken: what it leaves of the others.
LEMMA TaskTaken ==
    ASSUME IInv, NEW i \in DOMAIN tasks, tasks' = RemoveAt(tasks, i), receipts' = receipts
    PROVE  /\ tasks' \in Seq(TasksOf) /\ TasksJustified'
           /\ mode = "task"
           /\ \A j \in Jobs, w \in {"settle", "reputation"} :
                 /\ Cardinality(Pending(j, w)) \in Nat /\ Cardinality(Pending(j, w)') \in Nat
                 /\ Cardinality(Pending(j, w)') = Cardinality(Pending(j, w))
                        - (IF tasks[i].job = j /\ tasks[i].what = w THEN 1 ELSE 0)
<1>1. tasks \in Seq(TasksOf)
  BY DEF IInv, State
<1>2. /\ tasks' \in Seq(TasksOf) /\ DOMAIN tasks' = 1 .. (Len(tasks) - 1)
      /\ \A k \in 1 .. (Len(tasks) - 1) : tasks'[k] = IF k < i THEN tasks[k] ELSE tasks[k + 1]
  BY <1>1, RemoveAtFacts
<1>3. \A k \in DOMAIN tasks' : \E n \in DOMAIN tasks : tasks'[k] = tasks[n]
  <2> TAKE k \in DOMAIN tasks'
  <2>1. k \in DOMAIN tasks /\ k + 1 \in DOMAIN tasks
    BY <1>1, <1>2
  <2> QED BY <1>2, <2>1
<1>4. TasksJustified'
  BY <1>3 DEF IInv, TasksJustified
<1>5. mode = "task"
  <2>1. tasks # <<>>
    OBVIOUS
  <2>2. mode \in {"loop", "task"}
    BY DEF IInv, State
  <2> QED BY <2>1, <2>2 DEF IInv, LoopQuiet
<1>6. ASSUME NEW j \in Jobs, NEW w \in {"settle", "reputation"}
      PROVE  /\ Cardinality(Pending(j, w)) \in Nat /\ Cardinality(Pending(j, w)') \in Nat
             /\ Cardinality(Pending(j, w)') = Cardinality(Pending(j, w))
                    - (IF tasks[i].job = j /\ tasks[i].what = w THEN 1 ELSE 0)
  <2>1. Pending(j, w) = Positions(tasks, j, w) /\ Pending(j, w)' = Positions(RemoveAt(tasks, i), j, w)
    BY DEF Pending, Positions
  <2> QED BY <1>1, <2>1, PendingRemoved
<1> QED BY <1>2, <1>4, <1>5, <1>6

LEMMA SettleInv ==
    ASSUME IInv, NEW i \in DOMAIN tasks, NEW ok \in BOOLEAN, Settle(i, ok)
    PROVE  IInv'
<1> DEFINE t == tasks[i]
           pay == <<t.executor, bids[t.job][FirstBid(t)].price>>
<1>1. /\ tasks' = RemoveAt(tasks, i) /\ t.what = "settle"
      /\ UNCHANGED <<config, alive, net, market, work, query, verified, anchored, deliveries, issued>>
  BY DEF Settle
<1>2. t.job \in Jobs /\ t.executor \in Executors /\ tasks \in Seq(TasksOf)
  BY TaskFacts DEF IInv, State
<1>3. \/ paid' = paid
      \/ paid' = [paid EXCEPT ![t.job] = Append(@, pay)] /\ FirstBid(t) # 0
  BY DEF Settle
<1>4. FirstBid(t) # 0 => pay \in Executors \X Prices
  <2> SUFFICES ASSUME FirstBid(t) # 0 PROVE pay \in Executors \X Prices
    OBVIOUS
  <2>1. bids[t.job] \in Seq(Bids)
    BY <1>2 DEF IInv, State
  <2> HIDE DEF t
  <2>2. FirstBid(t) \in DOMAIN bids[t.job]
    BY <2>1, FirstBidFacts
  <2>3. bids[t.job][FirstBid(t)].price \in Prices
    BY <2>1, <2>2, BidFacts
  <2> QED BY <1>2, <2>3
<1> HIDE DEF pay, t
<1>5. /\ tasks' \in Seq(TasksOf) /\ TasksJustified' /\ mode = "task"
      /\ \A j \in Jobs, w \in {"settle", "reputation"} :
            /\ Cardinality(Pending(j, w)) \in Nat /\ Cardinality(Pending(j, w)') \in Nat
            /\ Cardinality(Pending(j, w)') = Cardinality(Pending(j, w))
                   - (IF t.job = j /\ t.what = w THEN 1 ELSE 0)
  BY <1>1, TaskTaken DEF work, t
<1>6. paid \in [Jobs -> Seq(Executors \X Prices)]
  BY DEF IInv, State
<1>7. /\ paid' \in [Jobs -> Seq(Executors \X Prices)]
      /\ \A j \in Jobs : /\ Len(paid[j]) \in Nat
                         /\ Len(paid'[j]) \in Nat
                         /\ Len(paid'[j]) <= Len(paid[j]) + (IF t.job = j THEN 1 ELSE 0)
  <2>1. CASE paid' = paid
    BY <1>6, <2>1
  <2>2. CASE paid' = [paid EXCEPT ![t.job] = Append(@, pay)] /\ FirstBid(t) # 0
    <3>1. pay \in Executors \X Prices
      BY <1>4, <2>2
    <3> DEFINE T == Executors \X Prices
    <3> HIDE DEF T
    <3>2. paid \in [Jobs -> Seq(T)] /\ pay \in T
      BY <1>6, <3>1 DEF T
    <3>3. paid' \in [Jobs -> Seq(T)]
      BY <1>2, <2>2, <3>2
    <3>4. \A j \in Jobs : Len(paid'[j]) = Len(paid[j]) + (IF t.job = j THEN 1 ELSE 0)
      BY <1>2, <2>2, <3>2
    <3>5. ASSUME NEW j \in Jobs
          PROVE  /\ Len(paid[j]) \in Nat /\ Len(paid'[j]) \in Nat
                 /\ Len(paid'[j]) <= Len(paid[j]) + (IF t.job = j THEN 1 ELSE 0)
      <4>1. Len(paid[j]) \in Nat
        BY <3>2
      <4>2. CASE t.job = j
        <5>1. Len(paid'[j]) = Len(paid[j]) + 1
          BY <3>4, <4>2
        <5> QED BY <4>1, <4>2, <5>1
      <4>3. CASE t.job # j
        <5>1. Len(paid'[j]) = Len(paid[j]) + 0
          BY <3>4, <4>3
        <5> QED BY <4>1, <4>3, <5>1
      <4> QED BY <4>2, <4>3
    <3> QED BY <3>3, <3>5 DEF T
  <2> QED BY <1>3, <2>1, <2>2
<1>8. State'
  BY <1>1, <1>5, <1>7 DEF IInv, State, config, market, work
<1>9. SettledPerDelivery'
  <2> SUFFICES ASSUME NEW j \in Jobs
               PROVE  /\ Len(paid'[j]) + Cardinality(Pending(j, "settle")') <= deliveries[j]
                      /\ issued[j] + Cardinality(Pending(j, "reputation")') <= deliveries[j]
    BY <1>1 DEF SettledPerDelivery
  <2>1. /\ Len(paid[j]) + Cardinality(Pending(j, "settle")) <= deliveries[j]
        /\ issued[j] + Cardinality(Pending(j, "reputation")) <= deliveries[j]
        /\ deliveries[j] \in Nat /\ issued[j] \in Nat
    BY DEF IInv, State, SettledPerDelivery
  <2>2. /\ Cardinality(Pending(j, "settle")) \in Nat /\ Cardinality(Pending(j, "settle")') \in Nat
        /\ Cardinality(Pending(j, "settle")')
             = Cardinality(Pending(j, "settle")) - (IF t.job = j THEN 1 ELSE 0)
    BY <1>1, <1>5 DEF t
  <2>3. Cardinality(Pending(j, "reputation")') = Cardinality(Pending(j, "reputation"))
        /\ Cardinality(Pending(j, "reputation")) \in Nat
    BY <1>1, <1>5 DEF t
  <2>4. /\ Len(paid[j]) \in Nat /\ Len(paid'[j]) \in Nat
        /\ Len(paid'[j]) <= Len(paid[j]) + (IF t.job = j THEN 1 ELSE 0)
    BY <1>7
  <2>5. CASE t.job = j
    BY <2>1, <2>2, <2>3, <2>4, <2>5
  <2>6. CASE t.job # j
    BY <2>1, <2>2, <2>3, <2>4, <2>6
  <2> QED BY <2>5, <2>6
<1>10. LoopQuiet'
  BY <1>1, <1>5 DEF LoopQuiet, config
<1> QED BY <1>1, <1>5, <1>8, <1>9, <1>10, Frame DEF IInv, config, market, work

LEMMA UpdateReputationInv ==
    ASSUME IInv, NEW i \in DOMAIN tasks, NEW submitted \in BOOLEAN, NEW ok \in BOOLEAN,
           UpdateReputation(i, submitted, ok)
    PROVE  IInv'
<1> DEFINE t == tasks[i]
           M == Announced(t, ok)
<1>1. /\ tasks' = RemoveAt(tasks, i) /\ t.what = "reputation"
      /\ net' = net \cup M
      /\ issued' = issued \/ issued' = [issued EXCEPT ![t.job] = @ + 1]
      /\ UNCHANGED <<config, alive, market, work, query, verified, anchored, deliveries, paid>>
  BY DEF UpdateReputation
<1>2. t.job \in Jobs
  BY TaskFacts DEF IInv, State
<1>3. \A m \in M : m.job \in Jobs /\ m.type = "RecordAvailable"
  BY <1>2 DEF Announced
<1> HIDE DEF M
<1>4. NetJustified'
  BY <1>1, <1>3, HarmlessMessages DEF market, work
<1>5. /\ tasks' \in Seq(TasksOf) /\ TasksJustified' /\ mode = "task"
      /\ \A j \in Jobs, w \in {"settle", "reputation"} :
            /\ Cardinality(Pending(j, w)) \in Nat /\ Cardinality(Pending(j, w)') \in Nat
            /\ Cardinality(Pending(j, w)') = Cardinality(Pending(j, w))
                   - (IF t.job = j /\ t.what = w THEN 1 ELSE 0)
  BY <1>1, TaskTaken DEF work
<1> HIDE DEF t
<1>6. /\ issued' \in [Jobs -> Nat]
      /\ \A j \in Jobs : issued'[j] <= issued[j] + (IF t.job = j THEN 1 ELSE 0)
  <2>1. issued \in [Jobs -> Nat]
    BY DEF IInv, State
  <2>2. CASE issued' = issued
    BY <2>1, <2>2
  <2>3. CASE issued' = [issued EXCEPT ![t.job] = @ + 1]
    BY <1>2, <2>1, <2>3
  <2> QED BY <1>1, <2>2, <2>3
<1>7. State'
  BY <1>1, <1>5, <1>6 DEF IInv, State, config, market, work
<1>8. SettledPerDelivery'
  <2> SUFFICES ASSUME NEW j \in Jobs
               PROVE  /\ Len(paid[j]) + Cardinality(Pending(j, "settle")') <= deliveries[j]
                      /\ issued'[j] + Cardinality(Pending(j, "reputation")') <= deliveries[j]
    BY <1>1 DEF SettledPerDelivery
  <2>1. /\ Len(paid[j]) + Cardinality(Pending(j, "settle")) <= deliveries[j]
        /\ issued[j] + Cardinality(Pending(j, "reputation")) <= deliveries[j]
        /\ deliveries[j] \in Nat /\ issued[j] \in Nat
    BY DEF IInv, State, SettledPerDelivery
  <2>2. /\ Cardinality(Pending(j, "reputation")) \in Nat
        /\ Cardinality(Pending(j, "reputation")')
             = Cardinality(Pending(j, "reputation")) - (IF t.job = j THEN 1 ELSE 0)
    BY <1>1, <1>5
  <2>3. Cardinality(Pending(j, "settle")') = Cardinality(Pending(j, "settle"))
        /\ Cardinality(Pending(j, "settle")) \in Nat
    BY <1>1, <1>5
  <2>4. issued'[j] \in Nat /\ issued'[j] <= issued[j] + (IF t.job = j THEN 1 ELSE 0)
    BY <1>6
  <2>5. issued'[j] + Cardinality(Pending(j, "reputation")') <= deliveries[j]
    <3>1. CASE t.job = j
      BY <2>1, <2>2, <2>4, <3>1
    <3>2. CASE t.job # j
      BY <2>1, <2>2, <2>4, <3>2
    <3> QED BY <3>1, <3>2
  <2> QED BY <2>1, <2>3, <2>5
<1>9. LoopQuiet'
  BY <1>1, <1>5 DEF LoopQuiet, config
<1> QED BY <1>1, <1>4, <1>5, <1>7, <1>8, <1>9, Frame DEF IInv, config, market, work

LEMMA StutterInv == IInv /\ UNCHANGED vars => IInv'
<1> SUFFICES ASSUME IInv, UNCHANGED vars PROVE IInv'
  OBVIOUS
<1>1. State'
  BY DEF IInv, State, vars, config, market, work, effects
<1> QED BY <1>1, Frame DEF IInv, vars, config, market, work, effects

\* One lemma per action above.
LEMMA StepInv == IInv /\ [Next]_vars => IInv'
<1> SUFFICES ASSUME IInv, Next PROVE IInv'
  BY StutterInv
<1>1. CASE \E j \in Jobs :
              QueueJob(j) \/ SelectByPolicy(j) \/ SelectByScore(j)
  BY <1>1, QueueJobInv, SelectByPolicyInv, SelectByScoreInv
<1>2. CASE \E unsent \in SUBSET Jobs : JobQueueTick(unsent)
  BY <1>2, JobQueueTickInv
<1>3. CASE \E e \in Executors : GossipToExecutor(e)
  BY <1>3, OnJobAnnouncementInv, OnAssignJobInv DEF GossipToExecutor
<1>4. CASE \E e \in Executors : AnnounceReceipt(e)
  BY <1>4, AnnounceReceiptInv
<1>5. CASE \E e \in Executors : \E j \in Jobs :
              \/ SendTerminalStatus(e, j) \/ ExecuteAndAnchor(e, j)
              \/ \E p \in BidPrices[e] : PeerBids(e, j, p)
  BY <1>5, ExecutorSendsInv, ExecuteAndAnchorInv
<1>6. CASE GossipToOwner
  BY <1>6, OwnerHearsInv, QueryInv DEF GossipToOwner
<1>7. CASE \/ \E r \in PeerRecords : policy.kind = "policy" /\ FetchReputationRecord(r)
           \/ (\E v \in Stored : KademliaFinds(v)) \/ KademliaFindsNothing
           \/ FetchTimeout
  BY <1>7, QueryInv
<1>8. CASE VerifyReceipt \/ VerifyRecord
  BY <1>8, VerifyReceiptInv, VerifyRecordInv
<1>9. CASE \E i \in DOMAIN tasks, ok \in BOOLEAN :
              Settle(i, ok) \/ \E submitted \in BOOLEAN : UpdateReputation(i, submitted, ok)
  BY <1>9, UpdateReputationInv, SettleInv
<1> QED BY <1>1, <1>2, <1>3, <1>4, <1>5, <1>6, <1>7, <1>8, <1>9 DEF Next

\* The inductive invariant, whatever gossip loses, repeats and reorders (run_event_loop).
THEOREM InvariantHolds == Spec => []IInv
  BY InitInv, StepInv, PTL DEF Spec

\* Nothing fetched is ever verified, and so nothing is paid or scored.
LoopFetchStarves ==
    mode = "loop" =>
        /\ query.pc # "verify" /\ anchored = {} /\ verified = {}
        /\ \A j \in Jobs : paid[j] = <<>> /\ issued[j] = 0

\* The loop that awaits its own event never verifies and never pays
\* (node.rs, the arms of the select that await the Kademlia query): why no
\* choice of the constants satisfies ReceiptFetched in a loop that hears of a receipt.
THEOREM LoopStarvesAlways == Spec => []LoopFetchStarves
<1>1. IInv => LoopFetchStarves
  <2> SUFFICES ASSUME IInv, mode = "loop"
               PROVE  /\ query.pc # "verify" /\ anchored = {} /\ verified = {}
                      /\ \A j \in Jobs : paid[j] = <<>> /\ issued[j] = 0
    BY DEF LoopFetchStarves
  <2>1. query.pc # "verify"
    BY DEF IInv, QueryJustified, Idle
  <2> QED BY <2>1 DEF IInv, LoopQuiet
<1> QED BY <1>1, InvariantHolds, PTL

\* Each verified delivery has at most one reputation record and at most one
\* payment, however often gossip repeats it (node.rs, the tasks spawned for a receipt).
THEOREM WorkAccountedAlways == Spec => []WorkAccounted
<1>1. IInv => TypeOK
  <2> SUFFICES ASSUME IInv PROVE TypeOK
    OBVIOUS
  <2>1. originated \subseteq Jobs /\ ToSet(queue) \subseteq Jobs /\ topics \subseteq originated
    BY DEF IInv, State, ToSet
  <2>2. \A e \in Executors : assigned[e] \subseteq available[e] \cup Jobs
    BY DEF IInv, State
  <2>3. ASSUME NEW j \in Jobs
        PROVE  /\ ToSet(bids[j]) \subseteq Bids
               /\ deliveries[j] \in 0 .. MaxDeliveries /\ issued[j] \in Nat
    BY DEF IInv, State, ToSet
  <2>4. query.pc \in {"select", "fetch", "verify"}
    BY DEF IInv, QueryJustified, Idle
  <2>5. \A r \in verified : r \in PeerRecords /\ r.issuer \in Resolvable
    BY DEF IInv, State, Known
  <2>6. alive \in BOOLEAN /\ (~alive => policy.kind = "score")
    BY DEF IInv, State
  <2> QED BY <2>1, <2>2, <2>3, <2>4, <2>5, <2>6 DEF TypeOK, Bids
<1>2. IInv => WorkAccounted
  BY <1>1 DEF IInv, WorkAccounted
<1> QED BY <1>2, InvariantHolds, PTL

-----------------------------------------------------------------------------
(* What decides between bids.                                               *)

\* Within the resolution of a thousandth, a cheaper bid has a larger component.
LEMMA CheaperScoresMore ==
    ASSUME NEW c \in 1 .. 1000, NEW p \in Nat, NEW q \in Nat, p < q
    PROVE  /\ (1000 * p) \div c \in Int /\ (1000 * q) \div c \in Int
           /\ (1000 * p) \div c + 1 <= (1000 * q) \div c
<1> DEFINE a == (1000 * p) \div c
           b == (1000 * q) \div c
<1>1. /\ a \in Int /\ b \in Int
      /\ c * a <= 1000 * p /\ 1000 * p < c * (a + 1)
      /\ c * b <= 1000 * q /\ 1000 * q < c * (b + 1)
  OBVIOUS
<1> HIDE DEF a, b
<1>2. 1000 * p + 1000 <= 1000 * q
  OBVIOUS
<1>3. c * (a + 1) = c * a + c /\ c * (b + 1) = c * b + c /\ c * a \in Int /\ c * b \in Int
  BY <1>1
<1>4. c * a + c <= 1000 * q
  BY <1>1, <1>2, <1>3
<1>5. c * (a + 1) < c * (b + 1)
  BY <1>1, <1>3, <1>4
<1>6. a + 1 < b + 1
  BY <1>1, <1>5
<1> QED BY <1>1, <1>6 DEF a, b

\* An admitted bid that is cheaper and whose bidder stands no worse outscores.
LEMMA CheaperOutscores ==
    ASSUME NEW pol \in Policies, pol.kind = "policy", IsFiniteSet(verified),
           pol.cap # Nobody, pol.cap # 0, pol.priceWeight > 0,
           NEW x \in Bids, NEW y \in Bids, x.price < y.price,
           ReputationOf(x.bidder) >= ReputationOf(y.bidder)
    PROVE  PolicyScore(pol, x) > PolicyScore(pol, y)
<1> DEFINE w == pol.priceWeight
           v == pol.repWeight
           c == pol.cap
           rx == ReputationOf(x.bidder)
           ry == ReputationOf(y.bidder)
           a == (1000 * x.price) \div c
           b == (1000 * y.price) \div c
<1>1. c \in 1 .. 1000 /\ w \in Nat /\ w > 0 /\ v \in Nat
  <2>1. c \in 0 .. 1000 \cup {Nobody} /\ w \in Nat /\ v \in Nat
    BY PolicyFacts
  <2> HIDE DEF c
  <2>2. c # 0 /\ c # Nobody
    BY DEF c
  <2> QED BY <2>1, <2>2
<1>2. rx \in Nat /\ ry \in Nat /\ rx >= ry
  BY ReputationIsNumber
<1>3. x.price \in Nat /\ y.price \in Nat
  BY PricesAreNumbers DEF Bids
<1>4. a \in Int /\ b \in Int /\ a + 1 <= b
  <2> DEFINE p == x.price
             q == y.price
  <2>1. p \in Nat /\ q \in Nat /\ p < q
    BY <1>3
  <2> HIDE DEF c, p, q
  <2>2. /\ (1000 * p) \div c \in Int /\ (1000 * q) \div c \in Int
        /\ (1000 * p) \div c + 1 <= (1000 * q) \div c
    BY <1>1, <2>1, CheaperScoresMore
  <2> QED BY <2>2 DEF p, q
<1>5. /\ PolicyScore(pol, x) = w * (1000 - a) + v * 10 * rx
      /\ PolicyScore(pol, y) = w * (1000 - b) + v * 10 * ry
  BY <1>1 DEF PolicyScore, PriceComponent
<1> HIDE DEF w, v, rx, ry, a, b, c
<1>6. w * (1000 - a) > w * (1000 - b) /\ w * (1000 - a) \in Int /\ w * (1000 - b) \in Int
  BY <1>1, <1>4
<1>7. v * 10 * rx >= v * 10 * ry /\ v * 10 * rx \in Int /\ v * 10 * ry \in Int
  BY <1>1, <1>2
<1> QED BY <1>5, <1>6, <1>7

\* Under a policy with a price cap and a weight for the price no winner is dearer
\* than an admitted bid of a bidder of no worse standing (select_executor_for_originated_jobs).
THEOREM CapPrefersCheaperAlways == Spec => []CapPrefersCheaper
<1>1. IInv => CapPrefersCheaper
  <2> SUFFICES ASSUME IInv, policy.kind = "policy", NEW j \in OpenJobs,
                      Admitted(policy, bids[j]) # {}, policy.cap # Nobody, policy.priceWeight > 0,
                      NEW i \in Admitted(policy, bids[j]),
                      ReputationOf(bids[j][i].bidder)
                        >= ReputationOf(BestByPolicy(policy, bids[j]).bidder)
               PROVE  BestByPolicy(policy, bids[j]).price <= bids[j][i].price
    BY DEF CapPrefersCheaper
  <2>1. policy \in Policies /\ IsFiniteSet(verified) /\ bids[j] \in Seq(Bids)
    BY DEF OpenJobs, IInv, State
  <2>2. PICK b \in Admitted(policy, bids[j]) :
               /\ b \in DOMAIN bids[j]
               /\ BestByPolicy(policy, bids[j]) = bids[j][b]
               /\ \A k \in Admitted(policy, bids[j]) :
                     PolicyScore(policy, bids[j][k]) <= PolicyScore(policy, bids[j][b])
    BY <2>1, BestByPolicyFacts
  <2>3. i \in DOMAIN bids[j]
    BY DEF Admitted
  <2> DEFINE x == bids[j][i]
             y == bids[j][b]
  <2>4. x \in Bids /\ y \in Bids /\ x.price \in Nat /\ y.price \in Nat
    BY <2>1, <2>2, <2>3, BidFacts
  <2>5. PolicyScore(policy, x) \in Int /\ PolicyScore(policy, y) \in Int
    BY <2>1, <2>4, PolicyScoreIsNumber
  <2>6. PolicyScore(policy, x) <= PolicyScore(policy, y)
    BY <2>2
  <2>7. ReputationOf(x.bidder) >= ReputationOf(y.bidder)
    BY <2>2
  <2>10. y.price <= policy.cap
    BY <2>2 DEF Admitted
  <2> HIDE DEF x, y
  <2>8. ~(x.price < y.price)
    <3> SUFFICES ASSUME x.price < y.price PROVE FALSE
      OBVIOUS
    <3>2. policy.cap # 0
      BY <2>4, <2>10
    <3>1. PolicyScore(policy, x) > PolicyScore(policy, y)
      BY <2>1, <2>4, <2>7, <3>2, CheaperOutscores
    <3> QED BY <2>5, <2>6, <3>1
  <2>9. y.price <= x.price
    BY <2>4, <2>8
  <2> QED BY <2>2, <2>9 DEF x, y
<1> QED BY <1>1, InvariantHolds, PTL

-----------------------------------------------------------------------------
(* The refinement: every step is a step of the promised life of a job, or     *)
(* changes nothing of it.                                                   *)

\* A list of bids offers what is in it; one more bid offers that as well.
LEMMA OfferedFacts ==
    ASSUME IInv
    PROVE  /\ bids' = bids => Offered' = Offered
           /\ \A j \in Jobs : \A i \in DOMAIN bids[j] :
                 <<bids[j][i].bidder, bids[j][i].price>> \in Offered[j]
           /\ \A j \in Jobs, b \in Bids :
                 bids' = [bids EXCEPT ![j] = Append(@, b)]
                     => Offered' = [Offered EXCEPT ![j] = @ \cup {<<b.bidder, b.price>>}]
<1>1. bids' = bids => Offered' = Offered
  BY DEF Offered
<1>2. \A j \in Jobs : \A i \in DOMAIN bids[j] :
          <<bids[j][i].bidder, bids[j][i].price>> \in Offered[j]
  BY DEF Offered, ToSet
<1>3. ASSUME NEW j \in Jobs, NEW b \in Bids, bids' = [bids EXCEPT ![j] = Append(@, b)]
      PROVE  Offered' = [Offered EXCEPT ![j] = @ \cup {<<b.bidder, b.price>>}]
  <2>1. bids \in [Jobs -> Seq(Bids)]
    BY DEF IInv, State
  <2>2. bids'[j] = Append(bids[j], b) /\ \A k \in Jobs \ {j} : bids'[k] = bids[k]
    BY <1>3, <2>1
  <2>3. ToSet(Append(bids[j], b)) = ToSet(bids[j]) \cup {b}
    <3> DEFINE s == bids[j]
    <3>1. s \in Seq(Bids)
      BY <2>1
    <3> HIDE DEF s
    <3>2. /\ DOMAIN Append(s, b) = DOMAIN s \cup {Len(s) + 1}
          /\ \A i \in DOMAIN s : Append(s, b)[i] = s[i]
          /\ Append(s, b)[Len(s) + 1] = b
      BY <3>1
    <3>3. {Append(s, b)[i] : i \in DOMAIN Append(s, b)} = {s[i] : i \in DOMAIN s} \cup {b}
      BY <3>2
    <3> QED BY <3>3 DEF ToSet, s
  <2> DEFINE Pairs(S) == {<<x.bidder, x.price>> : x \in S}
  <2>4. Pairs(ToSet(bids'[j])) = Pairs(ToSet(bids[j])) \cup {<<b.bidder, b.price>>}
    <3>1. \A S : Pairs(S \cup {b}) = Pairs(S) \cup {<<b.bidder, b.price>>}
      OBVIOUS
    <3> HIDE DEF Pairs
    <3> QED BY <2>2, <2>3, <3>1
  <2>5. Offered = [k \in Jobs |-> Pairs(ToSet(bids[k]))] /\ Offered' = [k \in Jobs |-> Pairs(ToSet(bids'[k]))]
    BY DEF Offered
  <2> HIDE DEF Pairs
  <2> QED BY <2>2, <2>4, <2>5
<1> QED BY <1>1, <1>2, <1>3

\* Steps that touch neither the market's promises nor receipts and payments.
LEMMA LifecycleStutters ==
    ASSUME IInv, UNCHANGED <<originated, assignedBy, bids, receipts, paid>>
    PROVE  UNCHANGED Lifecycle!lifecycle
<1>1. Offered' = Offered /\ Executed' = Executed
  BY OfferedFacts DEF Executed
<1> QED BY <1>1 DEF Lifecycle!lifecycle

LEMMA AnnounceStep ==
    ASSUME IInv, NEW unsent \in SUBSET Jobs, JobQueueTick(unsent)
    PROVE  Lifecycle!LNext
<1> DEFINE sent == ToSet(queue) \ unsent
<1>1. sent \in SUBSET Jobs
  BY DEF IInv, State, ToSet
<1>2. originated' = originated \cup sent
  BY DEF JobQueueTick
<1>3. Offered' = Offered /\ Executed' = Executed /\ UNCHANGED <<assignedBy, paid>>
  BY OfferedFacts DEF JobQueueTick, Executed, work, effects
<1> HIDE DEF sent
<1>4. Lifecycle!Announce(sent)
  BY <1>2, <1>3 DEF Lifecycle!Announce
<1> QED BY <1>1, <1>4 DEF Lifecycle!LNext

\* An open job goes to one of its bidders.
LEMMA AssignStep ==
    ASSUME IInv, NEW j \in OpenJobs, NEW i \in DOMAIN bids[j],
           AssignJobToExecutor(j, bids[j][i].bidder)
    PROVE  Lifecycle!LNext
<1> DEFINE e == bids[j][i].bidder
           p == bids[j][i].price
<1>1. j \in Jobs /\ j \in originated /\ assignedBy[j] = Nobody
  BY DEF OpenJobs, IInv, State
<1>2. bids[j] \in Seq(Bids)
  BY <1>1 DEF IInv, State
<1>3. e \in Executors /\ p \in Prices
  BY <1>2, BidFacts
<1>4. <<e, p>> \in Offered[j]
  BY <1>1, OfferedFacts
<1>5. /\ assignedBy' = [assignedBy EXCEPT ![j] = e]
      /\ UNCHANGED <<originated, bids, paid>>
  BY DEF AssignJobToExecutor, effects
<1>6. Offered' = Offered /\ Executed' = Executed
  BY <1>5, OfferedFacts DEF AssignJobToExecutor, Executed, work
<1> HIDE DEF e, p
<1>7. Lifecycle!Assign(j, e)
  BY <1>1, <1>3, <1>4, <1>5, <1>6 DEF Lifecycle!Assign
<1> QED BY <1>1, <1>3, <1>7 DEF Lifecycle!LNext

LEMMA SelectStep ==
    ASSUME IInv, NEW j \in Jobs, SelectByPolicy(j)
    PROVE  Lifecycle!LNext
<1>1. /\ j \in OpenJobs /\ bids[j] \in Seq(Bids) /\ bids[j] # <<>>
      /\ policy \in Policies /\ IsFiniteSet(verified)
  BY DEF SelectByPolicy, OpenJobs, IInv, State
<1>3. CASE AssignJobToExecutor(j, LowestBid(bids[j]).bidder)
  <2>1. PICK i \in DOMAIN bids[j] : LowestBid(bids[j]) = bids[j][i]
    BY <1>1, LowestBidFacts
  <2>2. AssignJobToExecutor(j, bids[j][i].bidder)
    BY <1>3, <2>1
  <2> QED BY <1>1, <2>2, AssignStep
<1>4. CASE /\ policy.kind = "policy" /\ Admitted(policy, bids[j]) # {}
           /\ AssignJobToExecutor(j, BestByPolicy(policy, bids[j]).bidder)
  <2>1. PICK i \in DOMAIN bids[j] : BestByPolicy(policy, bids[j]) = bids[j][i]
    BY <1>1, <1>4, BestByPolicyFacts
  <2>2. AssignJobToExecutor(j, bids[j][i].bidder)
    BY <1>4, <2>1
  <2> QED BY <1>1, <2>2, AssignStep
<1> QED BY <1>3, <1>4 DEF SelectByPolicy

LEMMA OfferStep ==
    ASSUME IInv, NEW m \in net, OnJobBid(m)
    PROVE  Lifecycle!LNext
<1> DEFINE b == [bidder |-> m.bidder, price |-> m.price]
<1>1. m.job \in Jobs /\ m.bidder \in Executors /\ m.price \in Prices
  BY DEF OnJobBid, IInv, NetJustified
<1>2. bids' = [bids EXCEPT ![m.job] = Append(@, b)] /\ UNCHANGED <<originated, assignedBy, paid>>
      /\ Executed' = Executed
  BY DEF OnJobBid, Executed, work, effects
<1>3. b \in Bids /\ b.bidder = m.bidder /\ b.price = m.price
  BY <1>1 DEF Bids
<1> HIDE DEF b
<1>4. Offered' = [Offered EXCEPT ![m.job] = @ \cup {<<m.bidder, m.price>>}]
  <2> DEFINE j == m.job
  <2>1. j \in Jobs /\ bids' = [bids EXCEPT ![j] = Append(@, b)]
    BY <1>1, <1>2
  <2> HIDE DEF j
  <2>2. Offered' = [Offered EXCEPT ![j] = @ \cup {<<b.bidder, b.price>>}]
    BY <1>3, <2>1, OfferedFacts
  <2> QED BY <1>3, <2>2 DEF j
<1>5. Lifecycle!Offer(m.job, m.bidder, m.price)
  BY <1>2, <1>4 DEF Lifecycle!Offer
<1> QED BY <1>1, <1>5 DEF Lifecycle!LNext

\* An executor that knows the job, assigned or not, has a receipt for it.
LEMMA ExecuteStep ==
    ASSUME IInv, NEW e \in Executors, NEW j \in Jobs, ExecuteAndAnchor(e, j)
    PROVE  Lifecycle!LNext
<1> DEFINE r == [job |-> j, executor |-> e, signer |-> e]
           All == UNION {receipts[x] : x \in Executors}
           Pairs(S) == {<<q.job, q.executor>> : q \in S}
<1>1. j \in originated
  BY DEF ExecuteAndAnchor, IInv, WorkJustified
<1>2. /\ receipts' = [receipts EXCEPT ![e] = @ \cup {r}]
      /\ UNCHANGED <<originated, assignedBy, bids, paid>>
  BY DEF ExecuteAndAnchor, market, effects
<1>3. receipts \in [Executors -> SUBSET ReceiptsOf]
  BY DEF IInv, State
<1>4. r.job = j /\ r.executor = e
  OBVIOUS
<1> HIDE DEF r
<1>5. UNION {receipts'[x] : x \in Executors} = All \cup {r}
  <2>1. \A x \in Executors : receipts'[x] = IF x = e THEN receipts[x] \cup {r} ELSE receipts[x]
    BY <1>2, <1>3
  <2> QED BY <2>1
<1>6. Pairs(All \cup {r}) = Pairs(All) \cup {<<j, e>>}
  <2> HIDE DEF All
  <2> QED BY <1>4
<1>7. Executed = Pairs(All) /\ Executed' = Pairs(UNION {receipts'[x] : x \in Executors})
  BY DEF Executed
<1>8. Executed' = Executed \cup {<<j, e>>}
  <2> HIDE DEF Pairs, All
  <2> QED BY <1>5, <1>6, <1>7
<1>9. Offered' = Offered
  BY <1>2, OfferedFacts
<1>10. Lifecycle!Execute(j, e)
  BY <1>1, <1>2, <1>8, <1>9 DEF Lifecycle!Execute
<1> QED BY <1>10 DEF Lifecycle!LNext

\* A settlement pays one who has a receipt for the job, at a price it bid.
LEMMA PayStep ==
    ASSUME IInv, NEW i \in DOMAIN tasks, NEW ok \in BOOLEAN, Settle(i, ok)
    PROVE  Lifecycle!LNext \/ UNCHANGED Lifecycle!lifecycle
<1> DEFINE t == tasks[i]
           p == bids[t.job][FirstBid(t)].price
<1>1. /\ t.job \in Jobs /\ t.executor \in Executors
      /\ UNCHANGED <<originated, assignedBy, bids, receipts>>
  <2>1. tasks \in Seq(TasksOf)
    BY DEF IInv, State
  <2> QED BY <2>1, TaskFacts DEF Settle, market, work
<1>5. <<t.job, t.executor>> \in Executed /\ Executed' = Executed
  <2>1. PICK r \in receipts[t.executor] : r.job = t.job
    BY DEF IInv, TasksJustified
  <2>2. r.executor = t.executor
    BY <1>1, <2>1 DEF IInv, WorkJustified
  <2>3. r \in UNION {receipts[e] : e \in Executors}
    BY <1>1
  <2> HIDE DEF t
  <2> QED BY <1>1, <2>1, <2>2, <2>3 DEF Executed
<1>2. \/ paid' = paid
      \/ paid' = [paid EXCEPT ![t.job] = Append(@, <<t.executor, p>>)] /\ FirstBid(t) # 0
  BY DEF Settle
<1>3. CASE paid' = paid
  <2>1. UNCHANGED <<originated, assignedBy, bids, receipts, paid>>
    BY <1>1, <1>3
  <2> QED BY <2>1, LifecycleStutters
<1>4. CASE paid' = [paid EXCEPT ![t.job] = Append(@, <<t.executor, p>>)] /\ FirstBid(t) # 0
  <2>1. bids[t.job] \in Seq(Bids)
    BY <1>1 DEF IInv, State
  <2> HIDE DEF t
  <2>2. FirstBid(t) \in DOMAIN bids[t.job] /\ bids[t.job][FirstBid(t)].bidder = t.executor
    BY <1>4, <2>1, FirstBidFacts
  <2>3. p \in Prices
    BY <2>1, <2>2, BidFacts
  <2>4. <<t.executor, p>> \in Offered[t.job]
    BY <1>1, <2>2, OfferedFacts
  <2>5. Offered' = Offered
    BY <1>1, OfferedFacts
  <2> HIDE DEF p
  <2>7. Lifecycle!Pay(t.job, t.executor, p)
    BY <1>1, <1>4, <1>5, <2>4, <2>5 DEF Lifecycle!Pay
  <2> QED BY <1>1, <2>3, <2>7 DEF Lifecycle!LNext
<1> QED BY <1>2, <1>3, <1>4

\* Lost, repeated and reordered gossip, retried selections and wrong answers of
\* the DHT implement the promise: one assignee per job, and only those paid who
\* have executed it, at prices they bid (node.rs, run_event_loop).
THEOREM LifecycleImplemented == Spec => ImplementsLifecycle
<1>1. Init => Lifecycle!LInit
  <2> SUFFICES ASSUME Init PROVE Lifecycle!LInit
    OBVIOUS
  <2>1. \A j \in Jobs : {<<b.bidder, b.price>> : b \in ToSet(bids[j])} = {}
    BY DEF Init, ToSet
  <2>2. Offered = [j \in Jobs |-> {}]
    BY <2>1 DEF Offered
  <2>3. Executed = {}
    BY DEF Init, Executed
  <2> QED BY <2>2, <2>3 DEF Init, Lifecycle!LInit
<1>2. IInv /\ [Next]_vars => [Lifecycle!LNext]_(Lifecycle!lifecycle)
  <2> SUFFICES ASSUME IInv, [Next]_vars
               PROVE  Lifecycle!LNext \/ UNCHANGED Lifecycle!lifecycle
    OBVIOUS
  <2> DEFINE Quiet == UNCHANGED <<originated, assignedBy, bids, receipts, paid>>
  <2>1. CASE UNCHANGED vars
    BY <2>1, LifecycleStutters DEF vars, market, work, effects
  <2>2. ASSUME NEW j \in Jobs,
               QueueJob(j) \/ SelectByPolicy(j) \/ SelectByScore(j)
        PROVE  Lifecycle!LNext \/ UNCHANGED Lifecycle!lifecycle
    <3>1. QueueJob(j) \/ SelectByScore(j) => Quiet
      BY DEF QueueJob, SelectByScore, market, work, effects
    <3> QED BY <2>2, <3>1, LifecycleStutters, SelectStep
  <2>3. CASE \E unsent \in SUBSET Jobs : JobQueueTick(unsent)
    BY <2>3, AnnounceStep
  <2>4. ASSUME NEW e \in Executors,
               \/ GossipToExecutor(e) \/ AnnounceReceipt(e)
               \/ \E j \in Jobs :
                     \/ SendTerminalStatus(e, j) \/ ExecuteAndAnchor(e, j)
                     \/ \E p \in BidPrices[e] : PeerBids(e, j, p)
        PROVE  Lifecycle!LNext \/ UNCHANGED Lifecycle!lifecycle
    <3>1. GossipToExecutor(e) => Quiet
      BY DEF GossipToExecutor, OnJobAnnouncement, OnAssignJob, market, effects
    <3>2. AnnounceReceipt(e) => Quiet
      BY DEF AnnounceReceipt, market, effects
    <3>3. \A j \in Jobs : SendTerminalStatus(e, j) => Quiet
      BY DEF SendTerminalStatus, market, work, effects
    <3>4. \A j \in Jobs, p \in BidPrices[e] : PeerBids(e, j, p) => Quiet
      BY DEF PeerBids, market, work, effects
    <3>5. Quiet => UNCHANGED Lifecycle!lifecycle
      BY LifecycleStutters
    <3> HIDE DEF Quiet
    <3> QED BY <2>4, <3>1, <3>2, <3>3, <3>4, <3>5, ExecuteStep
  <2>5. CASE GossipToOwner
    <3>1. PICK m \in net : OnJobInterest(m) \/ OnJobBid(m) \/ OnJobStatus(m) \/ OnReceiptAvailable(m)
      BY <2>5 DEF GossipToOwner
    <3>2. OnJobInterest(m) \/ OnJobStatus(m) \/ OnReceiptAvailable(m) => Quiet
      BY DEF OnJobInterest, OnJobStatus, OnReceiptAvailable, market, work, effects
    <3> QED BY <3>1, <3>2, OfferStep, LifecycleStutters
  <2>6. CASE \/ \E r \in PeerRecords : policy.kind = "policy" /\ FetchReputationRecord(r)
             \/ (\E v \in Stored : KademliaFinds(v)) \/ KademliaFindsNothing
             \/ FetchTimeout
    <3>1. Quiet
      BY <2>6 DEF FetchReputationRecord, KademliaFinds, KademliaFindsNothing, FetchTimeout,
                  market, work, effects
    <3> QED BY <3>1, LifecycleStutters
  <2>7. CASE VerifyReceipt \/ VerifyRecord
    <3>1. Quiet
      BY <2>7 DEF VerifyReceipt, VerifyRecord, market, work
    <3> QED BY <3>1, LifecycleStutters
  <2>8. ASSUME NEW i \in DOMAIN tasks, NEW ok \in BOOLEAN,
               Settle(i, ok) \/ \E submitted \in BOOLEAN : UpdateReputation(i, submitted, ok)
        PROVE  Lifecycle!LNext \/ UNCHANGED Lifecycle!lifecycle
    <3>1. (\E submitted \in BOOLEAN : UpdateReputation(i, submitted, ok)) => Quiet
      BY DEF UpdateReputation, market, work
    <3> QED BY <2>8, <3>1, LifecycleStutters, PayStep
  <2> HIDE DEF Quiet
  <2>9. Quiet => UNCHANGED Lifecycle!lifecycle
    BY LifecycleStutters DEF Quiet
  <2> QED BY <2>1, <2>2, <2>3, <2>4, <2>5, <2>6, <2>7, <2>8, <2>9 DEF Next
<1> QED BY <1>1, <1>2, InvariantHolds, PTL DEF Spec, ImplementsLifecycle, Lifecycle!LSpec

-----------------------------------------------------------------------------
(* Guests over one host environment.                                        *)

\* At most one section is open.
HostShape(h) ==
    /\ DOMAIN h = {"stack", "mana"} /\ h.mana \in Nat
    /\ \/ h.stack = <<>>
       \/ \E s : h.stack = <<s>> /\ DOMAIN s = {"kind", "by", "props"} /\ s.by # 0

\* The execution that opened it.
Opener(h) == IF h.stack = <<>> THEN 0 ELSE h.stack[1].by

\* The inductive invariant of the host environment.
HostInv ==
    /\ HostShape(host)
    /\ Opener(host) # 0 => Opener(host) \in 1..MaxRuns /\ sectionCall[Opener(host)] = "host_begin_section"
    /\ DOMAIN sectionCall = 1..MaxRuns
    /\ run \in 0..MaxRuns /\ runs \in 0..MaxRuns /\ space \in {"icn_host", "icn_host_new"}
    /\ accepted \in Int /\ host.mana = HostMana - accepted

\* What a call may do to the context.
CallOutcome(h, c, by, r) ==
    /\ r.ok \in BOOLEAN
    /\ HostShape(r.host)
    /\ r.host.mana = IF r.ok /\ c.fn = "host_use_resource" THEN h.mana - c.amount ELSE h.mana
    /\ Opener(r.host) = IF r.ok /\ c.fn = "host_begin_section" THEN by
                        ELSE IF r.ok /\ c.fn = "host_end_section" THEN 0 ELSE Opener(h)

\* What each host function does to the stack and the mana.
LEMMA Traps ==
    ASSUME NEW h, HostShape(h), NEW c, NEW by
    PROVE  CallOutcome(h, c, by, Trap(h))
  BY DEF CallOutcome, Trap

LEMMA Accepts ==
    ASSUME NEW h, HostShape(h), NEW c, NEW by,
           c.fn \notin {"host_begin_section", "host_end_section", "host_use_resource"}
    PROVE  CallOutcome(h, c, by, Accept(h))
  BY DEF CallOutcome, Accept

LEMMA BeginsSection ==
    ASSUME NEW h, HostShape(h), NEW c, NEW by, by # 0, c.fn = "host_begin_section", NEW kind
    PROVE  CallOutcome(h, c, by, begin_section(h, kind, by))
<1>1. CASE h.stack = <<>>
  <2>1. PICK s : s = [kind |-> kind, by |-> by, props |-> {}]
    OBVIOUS
  <2>2. PICK g : g = [h EXCEPT !.stack = <<s>>]
    OBVIOUS
  <2>3. begin_section(h, kind, by) = Accept(g)
    BY <1>1, <2>1, <2>2 DEF begin_section
  <2>4. DOMAIN g = {"stack", "mana"} /\ g.mana = h.mana /\ g.stack = <<s>>
    BY <2>2 DEF HostShape
  <2>5. DOMAIN s = {"kind", "by", "props"} /\ s.by = by
    BY <2>1
  <2>6. HostShape(g)
    BY <2>4, <2>5 DEF HostShape
  <2>7. Opener(g) = by
    <3>1. <<s>> # <<>> /\ <<s>>[1] = s
      OBVIOUS
    <3> QED  BY <2>4, <2>5, <3>1 DEF Opener
  <2>8. PICK r : r = Accept(g)
    OBVIOUS
  <2>9. r.ok = TRUE /\ r.host = g
    BY <2>8 DEF Accept
  <2> QED  BY <2>3, <2>4, <2>6, <2>7, <2>8, <2>9 DEF CallOutcome
<1>2. CASE h.stack # <<>>
  BY <1>2, Traps DEF begin_section
<1> QED
  BY <1>1, <1>2

LEMMA EndsSection ==
    ASSUME NEW h, HostShape(h), NEW c, NEW by, c.fn = "host_end_section"
    PROVE  CallOutcome(h, c, by, end_section(h))
<1>1. PICK rest : rest = IF h.stack = <<>> THEN h.stack ELSE Front(h.stack)
  OBVIOUS
<1>2. PICK g : g = [h EXCEPT !.stack = rest]
  OBVIOUS
<1>3. end_section(h) = Accept(g)
  BY <1>1, <1>2 DEF end_section
<1>4. rest = <<>>
  <2>1. CASE h.stack = <<>>
    BY <1>1, <2>1
  <2>2. CASE h.stack # <<>>
    <3>1. PICK s : h.stack = <<s>>
      BY <2>2 DEF HostShape
    <3>2. Front(<<s>>) = <<>>
      BY DEF Front
    <3> QED  BY <1>1, <2>2, <3>1, <3>2
  <2> QED  BY <2>1, <2>2
<1>5. DOMAIN g = {"stack", "mana"} /\ g.mana = h.mana /\ g.stack = <<>>
  BY <1>2, <1>4 DEF HostShape
<1>6. HostShape(g) /\ Opener(g) = 0
  BY <1>5 DEF HostShape, Opener
<1>7. PICK r : r = Accept(g)
  OBVIOUS
<1>8. r.ok = TRUE /\ r.host = g
  BY <1>7 DEF Accept
<1> QED
  BY <1>3, <1>5, <1>6, <1>7, <1>8 DEF CallOutcome

LEMMA SetsProperty ==
    ASSUME NEW h, HostShape(h), NEW c, NEW by, c.fn = "host_set_property", NEW key
    PROVE  CallOutcome(h, c, by, set_property(h, key, by))
<1>1. CASE h.stack = <<>>
  BY <1>1, Traps DEF set_property
<1>2. CASE h.stack # <<>>
  <2>1. PICK s : h.stack = <<s>> /\ DOMAIN s = {"kind", "by", "props"} /\ s.by # 0
    BY <1>2 DEF HostShape
  <2>2. PICK t : t = [s EXCEPT !.props = s.props \cup {<<key, by>>}]
    OBVIOUS
  <2>3. DOMAIN t = {"kind", "by", "props"} /\ t.by = s.by /\ t.by # 0
    BY <2>1, <2>2
  <2>4. Len(h.stack) = 1 /\ h.stack[1] = s /\ [<<s>> EXCEPT ![1] = t] = <<t>>
    BY <2>1
  <2>5. PICK g : g = [h EXCEPT !.stack = <<t>>]
    OBVIOUS
  <2>6. set_property(h, key, by) = Accept(g)
    <3>1. [h EXCEPT !.stack[1].props = @ \cup {<<key, by>>}]
            = [h EXCEPT !.stack = [h.stack EXCEPT ![1] = [h.stack[1] EXCEPT !.props = h.stack[1].props \cup {<<key, by>>}]]]
      BY DEF HostShape
    <3> QED  BY <1>2, <2>1, <2>2, <2>4, <2>5, <3>1 DEF set_property
  <2>7. DOMAIN g = {"stack", "mana"} /\ g.mana = h.mana /\ g.stack = <<t>>
    BY <2>5 DEF HostShape
  <2>8. HostShape(g)
    BY <2>3, <2>7 DEF HostShape
  <2>9. Opener(g) = Opener(h)
    <3>1. <<t>> # <<>> /\ <<t>>[1] = t
      OBVIOUS
    <3> QED  BY <1>2, <2>3, <2>4, <2>7, <3>1 DEF Opener
  <2>10. PICK r : r = Accept(g)
    OBVIOUS
  <2>11. r.ok = TRUE /\ r.host = g
    BY <2>10 DEF Accept
  <2> QED  BY <2>6, <2>7, <2>8, <2>9, <2>10, <2>11 DEF CallOutcome
<1> QED
  BY <1>1, <1>2

LEMMA UsesResource ==
    ASSUME NEW h, HostShape(h), NEW c, NEW by, c.fn = "host_use_resource", c.amount \in Nat
    PROVE  CallOutcome(h, c, by, host_use_resource(h, c.args, c.amount))
<1>1. CASE c.args[1] = "mana" /\ c.amount <= h.mana
  <2>1. PICK g : g = [h EXCEPT !.mana = h.mana - c.amount]
    OBVIOUS
  <2>2. host_use_resource(h, c.args, c.amount) = Accept(g)
    BY <1>1, <2>1 DEF host_use_resource
  <2>3. DOMAIN g = {"stack", "mana"} /\ g.mana = h.mana - c.amount /\ g.stack = h.stack
    BY <2>1 DEF HostShape
  <2>4. h.mana - c.amount \in Nat
    BY <1>1 DEF HostShape
  <2>5. HostShape(g) /\ Opener(g) = Opener(h)
    BY <2>3, <2>4 DEF HostShape, Opener
  <2>6. PICK r : r = Accept(g)
    OBVIOUS
  <2>7. r.ok = TRUE /\ r.host = g
    BY <2>6 DEF Accept
  <2> QED  BY <2>2, <2>3, <2>5, <2>6, <2>7 DEF CallOutcome
<1>2. CASE ~(c.args[1] = "mana" /\ c.amount <= h.mana)
  <2>1. host_use_resource(h, c.args, c.amount) = Trap(h)
    BY <1>2 DEF host_use_resource
  <2> QED  BY <2>1, Traps
<1> QED
  BY <1>1, <1>2

\* Any function that the linker offers.
LEMMA LinkedOutcome ==
    ASSUME NEW h, HostShape(h), NEW c, NEW by, by # 0, NEW from \in {"icn_host", "icn_host_new"},
           c.fn \in register_host_functions[from], c.fn = "host_use_resource" => c.amount \in Nat
    PROVE  CallOutcome(h, c, by, Linked(from, h, c, by))
<1>1. CASE from = "icn_host"
  <2>1. c.fn \in LegacyStubs \cup {"anchor_receipt"}
    BY <1>1 DEF register_host_functions
  <2>2. c.fn \notin {"host_begin_section", "host_end_section", "host_use_resource"}
    BY <2>1 DEF LegacyStubs
  <2>3. Linked(from, h, c, by) = Accept(h) \/ Linked(from, h, c, by) = Trap(h)
    BY <1>1 DEF Linked
  <2> QED  BY <2>2, <2>3, Traps, Accepts
<1>2. CASE from = "icn_host_new"
  <2>1. c.fn \in NewFns
    BY <1>2 DEF register_host_functions
  <2>2. Linked(from, h, c, by) = host_call(h, c, by)
    BY <1>2 DEF Linked
  <2>3. CASE c.fn # "host_range_check" /\ ~Readable(c)
    <3>1. host_call(h, c, by) = Trap(h)
      BY <2>3 DEF host_call
    <3> QED  BY <2>2, <3>1, Traps
  <2>4. CASE c.fn = "host_begin_section" /\ Readable(c)
    <3>1. host_call(h, c, by) = begin_section(h, c.args[1], by)
      BY <2>4 DEF host_call, Stubs
    <3> QED  BY <2>2, <2>4, <3>1, BeginsSection
  <2>5. CASE c.fn = "host_end_section" /\ Readable(c)
    <3>1. host_call(h, c, by) = end_section(h)
      BY <2>5 DEF host_call, Stubs
    <3> QED  BY <2>2, <2>5, <3>1, EndsSection
  <2>6. CASE c.fn = "host_set_property" /\ Readable(c)
    <3>1. host_call(h, c, by) = set_property(h, c.args[1], by)
      BY <2>6 DEF host_call, Stubs
    <3> QED  BY <2>2, <2>6, <3>1, SetsProperty
  <2>7. CASE c.fn = "host_use_resource" /\ Readable(c)
    <3>1. host_call(h, c, by) = host_use_resource(h, c.args, c.amount)
      BY <2>7 DEF host_call, Stubs
    <3> QED  BY <2>2, <2>7, <3>1, UsesResource
  <2>8. CASE /\ c.fn \notin {"host_begin_section", "host_end_section", "host_set_property", "host_use_resource"}
             /\ c.fn = "host_range_check" \/ Readable(c)
    <3>1. host_call(h, c, by) = Accept(h) \/ host_call(h, c, by) = Trap(h)
      BY <2>1, <2>8 DEF NewFns, Stubs, host_call, host_range_check, create_proposal, host_mint_token,
                        mint_token, host_transfer_token, host_submit_mesh_job
    <3> QED  BY <2>2, <2>8, <3>1, Traps, Accepts
  <2> QED  BY <2>3, <2>4, <2>5, <2>6, <2>7, <2>8
<1> QED
  BY <1>1, <1>2

\* It holds at first, and each step keeps it.
LEMMA HostInitial == HostInit => HostInv
  BY HostAssumption DEF HostInit, HostInv, HostShape, Opener

LEMMA GuestCallOk ==
    ASSUME HostInv, NEW c \in GuestCalls, GuestCall(c)
    PROVE  HostInv'
<1>1. PICK h : h = host
  OBVIOUS
<1>2. PICK r : r = Linked(space, h, c, run)
  OBVIOUS
<1>3. CallOutcome(h, c, run, r)
  <2>1. HostShape(h) /\ space \in {"icn_host", "icn_host_new"}
    BY <1>1 DEF HostInv
  <2>2. /\ c.fn \in register_host_functions[space] /\ run # 0
        /\ c.fn = "host_use_resource" => c.amount \in Nat
    BY HostAssumption DEF GuestCall
  <2> QED  BY <1>2, <2>1, <2>2, LinkedOutcome
<1>4. PICK ok \in BOOLEAN : ok = r.ok
  BY <1>3 DEF CallOutcome
<1>5. /\ host' = r.host /\ run' = (IF ok THEN run ELSE 0)
      /\ accepted' = IF ok /\ c.fn = "host_use_resource" THEN accepted + c.amount ELSE accepted
      /\ sectionCall' = IF ok /\ c.fn \in {"host_begin_section", "host_end_section"}
                        THEN [sectionCall EXCEPT ![run] = c.fn] ELSE sectionCall
      /\ runs' = runs /\ space' = space /\ run # 0
  BY <1>1, <1>2, <1>4 DEF GuestCall
<1>6. HostShape(r.host) /\ HostShape(host)'
  BY <1>3, <1>5 DEF CallOutcome, HostShape
<1>7. run \in 1..MaxRuns /\ run' \in 0..MaxRuns /\ DOMAIN sectionCall' = 1..MaxRuns
  BY <1>4, <1>5, HostAssumption DEF HostInv
<1>8. PICK o : o = Opener(r.host)
  OBVIOUS
<1>9. o = IF ok /\ c.fn = "host_begin_section" THEN run ELSE IF ok /\ c.fn = "host_end_section" THEN 0 ELSE Opener(host)
  BY <1>1, <1>3, <1>4, <1>8 DEF CallOutcome
<1>10. o # 0 => o \in 1..MaxRuns /\ sectionCall'[o] = "host_begin_section"
  BY <1>5, <1>7, <1>9 DEF HostInv
<1>11. Opener(host)' = o
  BY <1>5, <1>8 DEF Opener
<1>12. accepted' \in Int /\ host'.mana = HostMana - accepted'
  <2>1. host'.mana = IF ok /\ c.fn = "host_use_resource" THEN host.mana - c.amount ELSE host.mana
    BY <1>1, <1>3, <1>4, <1>5 DEF CallOutcome
  <2>2. accepted \in Int /\ host.mana = HostMana - accepted
    BY DEF HostInv
  <2> QED  BY <1>5, <2>1, <2>2, HostAssumption
<1> QED
  BY <1>5, <1>6, <1>7, <1>10, <1>11, <1>12 DEF HostInv

LEMMA HostStepOk == ASSUME HostInv, HostStep PROVE HostInv'
<1>1. CASE \E from \in DOMAIN register_host_functions, imports \in {LegacyStubs, NewFns} :
              ExecuteWasm(from, imports)
  <2>1. PICK from \in DOMAIN register_host_functions, imports \in {LegacyStubs, NewFns} :
            ExecuteWasm(from, imports)
    BY <1>1
  <2>2. from \in {"icn_host", "icn_host_new"}
    BY <2>1 DEF register_host_functions
  <2>3. host' = host /\ sectionCall' = sectionCall /\ accepted' = accepted /\ space' = from
        /\ runs' = runs + 1 /\ runs < MaxRuns /\ (run' = runs + 1 \/ run' = 0)
    BY <2>1 DEF ExecuteWasm
  <2>4. runs' \in 0..MaxRuns /\ run' \in 0..MaxRuns
    BY <2>3, HostAssumption DEF HostInv
  <2> QED  BY <2>2, <2>3, <2>4 DEF HostInv, HostShape, Opener
<1>2. CASE \E c \in GuestCalls : GuestCall(c)
  BY <1>2, GuestCallOk
<1>3. CASE GuestReturns
  BY <1>3, HostAssumption DEF GuestReturns, HostInv, HostShape, Opener
<1> QED
  BY <1>1, <1>2, <1>3 DEF HostStep

-----------------------------------------------------------------------------
(* Guests in the VM.                                                        *)

\* The counters of a HostContext.
ContextFields ==
    {"host_calls", "io_bytes", "logs", "anchored", "checks", "usage", "jobs",
     "anchored_count", "submissions_count"}

ContextTyped(x) == DOMAIN x = ContextFields /\ \A f \in ContextFields : x[f] \in Int

\* Every call is recorded or has failed.
CallsCounted(x, n) == x.host_calls = x.logs + x.anchored + x.checks + x.usage + x.jobs + n

\* The counters lag behind the records by the early ones.
CountsLag(x, e) == x.anchored_count = x.anchored - e.anchored /\ x.submissions_count = x.jobs - e.jobs

EarlyTyped(e) == DOMAIN e = {"anchored", "jobs"} /\ e.anchored \in Int /\ e.jobs \in Int

\* The inductive invariant of the VM: while an entry point runs, the collected
\* counters may lag by more, until then and afterwards by the early records.
VmInv ==
    /\ ContextTyped(context) /\ failed \in Int /\ bytes \in Nat /\ EarlyTyped(early)
    /\ vm \in {"idle", "starting", "running"}
    /\ CallsCounted(context, failed)
    /\ vm # "running" => CountsLag(context, early)
    /\ IoExact

\* Whole words add up.
LEMMA WordsAdd ==
    ASSUME NEW a \in Nat, NEW b \in Int, NEW n \in Nat, NEW io \in Int, WordsApart(a, b), WordsApart(n, io)
    PROVE  WordsApart(a + n, b + io)
<1>1. PICK W \in Nat : W = Word
  BY VmAssumption DEF Word
<1>2. PICK k \in 0..a : a = b + k * W
  BY <1>1 DEF WordsApart
<1>3. PICK j \in 0..n : n = io + j * W
  BY <1>1 DEF WordsApart
<1>4. PICK kw \in Int : kw = k * W
  BY <1>1, <1>2
<1>5. PICK jw \in Int : jw = j * W
  BY <1>1, <1>3
<1>6. (k + j) * W = kw + jw
  BY <1>1, <1>2, <1>3, <1>4, <1>5
<1>7. k + j \in 0..(a + n)
  BY <1>2, <1>3
<1>8. a + n = (b + io) + (k + j) * W
  BY <1>2, <1>3, <1>4, <1>5, <1>6
<1> QED  BY <1>1, <1>7, <1>8 DEF WordsApart

\* Remainders within one word of it.
LEMMA WordRemainders ==
    ASSUME NEW x \in Int
    PROVE  /\ 0 <= x /\ x < Word => x % Word = x
           /\ Word <= x /\ x < 2 * Word => x % Word = x - Word
           /\ -Word <= x /\ x < 0 => x % Word = x + Word
           /\ -2 * Word <= x /\ x < -Word => x % Word = x + 2 * Word
<1>1. PICK W \in Nat : W = Word /\ W # 0
  BY VmAssumption DEF Word
<1>2. 0 <= x /\ x < W => x % W = x
  BY <1>1
<1>3. W <= x /\ x < 2 * W => x % W = x - W
  BY <1>1
<1>4. -W <= x /\ x < 0 => x % W = x + W
  BY <1>1
<1>5. -2 * W <= x /\ x < -W => x % W = x + 2 * W
  BY <1>1
<1> QED
  BY <1>1, <1>2, <1>3, <1>4, <1>5

\* A length read as an unsigned word.
LEMMA Unsigned ==
    ASSUME NEW t \in GuestTexts
    PROVE  /\ t.len \in Int /\ t.len < SignBit
           /\ AsUnsigned(t.len) \in Nat /\ AsUnsigned(t.len) < Word
           /\ AsUnsigned(t.len) = IF t.len < 0 THEN t.len + Word ELSE t.len
<1>1. PICK H \in Nat : H = SignBit /\ H # 0
  BY VmAssumption
<1>2. PICK n \in Int : n = t.len /\ -H <= n /\ n < H
  BY <1>1, VmAssumption
<1>3. PICK W \in Nat : W = Word /\ W = 2 * H
  BY <1>1 DEF Word
<1>4. CASE n < 0
  <2>1. n % Word = n + Word
    BY <1>1, <1>2, <1>3, <1>4, WordRemainders
  <2> QED  BY <1>1, <1>2, <1>3, <1>4, <2>1 DEF AsUnsigned
<1>5. CASE ~(n < 0)
  <2>1. n % Word = n
    BY <1>1, <1>2, <1>3, <1>5, WordRemainders
  <2> QED  BY <1>1, <1>2, <1>3, <1>5, <2>1 DEF AsUnsigned
<1> QED  BY <1>4, <1>5

\* One length loses at most a word.
LEMMA OneTextWords ==
    ASSUME NEW t \in GuestTexts PROVE WordsApart(AsUnsigned(t.len), t.len)
<1>1. PICK W \in Nat : W = Word /\ W # 0
  BY VmAssumption DEF Word
<1>2. PICK n \in Int : n = t.len
  BY Unsigned
<1>3. PICK u \in Nat : u = AsUnsigned(t.len)
  BY Unsigned
<1>4. u = IF n < 0 THEN n + W ELSE n
  BY <1>1, <1>2, <1>3, Unsigned
<1>5. CASE n < 0
  <2>1. -SignBit <= n /\ SignBit \in Nat \ {0} /\ W = 2 * SignBit
    BY <1>1, <1>2, VmAssumption DEF Word
  <2>2. 1 \in 0..u /\ u = n + 1 * W
    BY <1>1, <1>4, <1>5, <2>1
  <2> QED  BY <1>1, <1>2, <1>3, <2>2 DEF WordsApart
<1>6. CASE ~(n < 0)
  <2>1. 0 \in 0..u /\ u = n + 0 * W
    BY <1>1, <1>4, <1>6
  <2> QED  BY <1>1, <1>2, <1>3, <2>1 DEF WordsApart
<1> QED  BY <1>5, <1>6

\* The sum of four lengths, read as a signed word, is off by whole words.
LEMMA FourTextWords ==
    ASSUME NEW a \in GuestTexts, NEW b \in GuestTexts, NEW c \in GuestTexts, NEW d \in GuestTexts,
           NEW n \in Nat, n = AsUnsigned(a.len) + AsUnsigned(b.len) + AsUnsigned(c.len) + AsUnsigned(d.len)
    PROVE  WordsApart(n, AsSigned(a.len + b.len + c.len + d.len))
<1>1. PICK H \in Nat : H = SignBit /\ H # 0
  BY VmAssumption
<1>2. PICK W \in Nat : W = Word /\ W = 2 * H /\ W # 0
  BY <1>1 DEF Word
<1>3. PICK sum \in Int : sum = a.len + b.len + c.len + d.len
  BY Unsigned
<1>4. \E m \in 0..4 : n = sum + m * W
  <2>1. PICK p \in 0..1 : AsUnsigned(a.len) = a.len + p * W
    BY <1>2, Unsigned
  <2>2. PICK q \in 0..1 : AsUnsigned(b.len) = b.len + q * W
    BY <1>2, Unsigned
  <2>3. PICK r \in 0..1 : AsUnsigned(c.len) = c.len + r * W
    BY <1>2, Unsigned
  <2>4. PICK s \in 0..1 : AsUnsigned(d.len) = d.len + s * W
    BY <1>2, Unsigned
  <2>5. p + q + r + s \in 0..4 /\ (p + q + r + s) * W = p * W + q * W + r * W + s * W
    BY <1>2
  <2>6. n = sum + (p + q + r + s) * W
    BY <1>2, <1>3, <2>1, <2>2, <2>3, <2>4, <2>5, Unsigned
  <2> QED  BY <2>5, <2>6
<1>5. PICK g \in 0..(W - 1), z \in -2..1 : g = sum % W /\ sum = g + z * W
  <2>1. -2 * W <= sum /\ sum < 2 * W
    BY <1>1, <1>2, <1>3, VmAssumption
  <2>2. \/ 0 <= sum /\ sum < W /\ sum % W = sum
        \/ W <= sum /\ sum < 2 * W /\ sum % W = sum - W
        \/ -W <= sum /\ sum < 0 /\ sum % W = sum + W
        \/ -2 * W <= sum /\ sum < -W /\ sum % W = sum + 2 * W
    BY <1>2, <1>3, <2>1, WordRemainders
  <2>3. CASE 0 <= sum /\ sum < W /\ sum % W = sum
    <3>1. sum = sum + 0 * W /\ sum \in 0..(W - 1)
      BY <1>2, <1>3, <2>3
    <3> QED  BY <2>3, <3>1
  <2>4. CASE W <= sum /\ sum < 2 * W /\ sum % W = sum - W
    <3>1. sum = (sum - W) + 1 * W /\ sum - W \in 0..(W - 1)
      BY <1>2, <1>3, <2>4
    <3> QED  BY <2>4, <3>1
  <2>5. CASE -W <= sum /\ sum < 0 /\ sum % W = sum + W
    <3>1. sum = (sum + W) + (-1) * W /\ sum + W \in 0..(W - 1)
      BY <1>2, <1>3, <2>5
    <3> QED  BY <2>5, <3>1
  <2>6. CASE -2 * W <= sum /\ sum < -W /\ sum % W = sum + 2 * W
    <3>1. sum = (sum + 2 * W) + (-2) * W /\ sum + 2 * W \in 0..(W - 1)
      BY <1>2, <1>3, <2>6
    <3> QED  BY <2>6, <3>1
  <2> QED  BY <2>2, <2>3, <2>4, <2>5, <2>6
<1>6. PICK m \in 0..4 : n = sum + m * W
  BY <1>4
<1>7. PICK k \in Int : k = z + m
  BY <1>5, <1>6
<1>8. k * W = z * W + m * W
  BY <1>2, <1>5, <1>6, <1>7
<1>9. PICK kw \in Int : kw = k * W
  BY <1>2, <1>7
<1>10. n = kw + g /\ 0 <= k /\ k <= kw
  <2>1. n = kw + g
    BY <1>2, <1>3, <1>5, <1>6, <1>8, <1>9
  <2>2. k < 0 => kw <= -W
    BY <1>2, <1>7, <1>9
  <2>3. 0 <= k
    BY <1>2, <1>5, <1>7, <1>9, <2>1, <2>2
  <2>4. k <= kw
    BY <1>2, <1>7, <1>9, <2>3
  <2> QED  BY <2>1, <2>3, <2>4
<1>11. PICK io \in Int : io = AsSigned(sum)
  BY <1>2, <1>3 DEF AsSigned
<1>12. io = IF g >= H THEN g - W ELSE g
  BY <1>1, <1>2, <1>3, <1>5, <1>11 DEF AsSigned
<1>13. CASE g >= H
  <2>1. (k + 1) * W = kw + W
    BY <1>2, <1>7, <1>9
  <2>2. k + 1 \in 0..n /\ n = io + (k + 1) * W
    BY <1>1, <1>2, <1>5, <1>7, <1>9, <1>10, <1>12, <1>13, <2>1
  <2> QED  BY <1>2, <1>3, <1>11, <2>2 DEF WordsApart
<1>14. CASE ~(g >= H)
  <2>1. k \in 0..n /\ n = io + k * W
    BY <1>1, <1>2, <1>5, <1>7, <1>9, <1>10, <1>12, <1>14
  <2> QED  BY <1>2, <1>3, <1>11, <2>1 DEF WordsApart
<1> QED  BY <1>13, <1>14

\* A text that lies in memory has the length its word says, if memory is small
\* enough for signed words.
LEMMA LengthInMemory ==
    ASSUME NEW t \in GuestTexts, InMemory(t.ptr, t.len), MemoryLen < SignBit
    PROVE  t.len \in 0..MemoryLen /\ AsUnsigned(t.len) = t.len
<1>1. PICK H \in Nat : H = SignBit /\ H # 0
  BY VmAssumption
<1>2. PICK p \in Int : p = t.ptr /\ -H <= p /\ p < H
  BY <1>1, VmAssumption
<1>3. PICK n \in Int : n = t.len /\ -H <= n /\ n < H
  BY <1>1, VmAssumption
<1>4. PICK W \in Nat : W = Word /\ W = 2 * H
  BY <1>1 DEF Word
<1>5. PICK M \in Nat : M = MemoryLen /\ M < H
  BY <1>1, VmAssumption
<1>6. AsUnsigned(p) = IF p < 0 THEN p + W ELSE p
  BY <1>1, <1>2, <1>4, WordRemainders DEF AsUnsigned
<1>7. AsUnsigned(n) = IF n < 0 THEN n + W ELSE n
  BY <1>1, <1>3, <1>4, WordRemainders DEF AsUnsigned
<1>8. PICK u \in Int : u = AsUnsigned(p) /\ 0 <= u /\ u < W
  BY <1>1, <1>2, <1>4, <1>6
<1>9. PICK v \in Int : v = AsUnsigned(n) /\ 0 <= v /\ v < W
  BY <1>1, <1>3, <1>4, <1>7
<1>10. u <= (u + v) % W /\ (u + v) % W <= M
  BY <1>2, <1>3, <1>4, <1>5, <1>8, <1>9 DEF InMemory
<1>11. u + v < W
  <2> SUFFICES ASSUME W <= u + v PROVE FALSE
    BY <1>4, <1>8, <1>9
  <2>1. (u + v) % W = u + v - W
    BY <1>4, <1>8, <1>9, WordRemainders
  <2> QED  BY <1>4, <1>8, <1>9, <1>10, <2>1
<1>12. (u + v) % W = u + v
  BY <1>4, <1>8, <1>9, <1>11, WordRemainders
<1>13. v <= M
  BY <1>5, <1>8, <1>9, <1>10, <1>12
<1>14. ~(n < 0)
  BY <1>1, <1>3, <1>4, <1>5, <1>7, <1>9, <1>13
<1> QED
  BY <1>3, <1>5, <1>7, <1>9, <1>13, <1>14

\* The context after an accepted call.
WithCall(x, kind, io) ==
    [[x EXCEPT !.host_calls = @ + 1] EXCEPT ![kind] = @ + 1, !.io_bytes = @ + io]

\* What a record and its bytes add.
LEMMA Recorded ==
    ASSUME NEW x, ContextTyped(x), NEW kind \in {"logs", "anchored", "checks", "usage", "jobs"},
           NEW io \in Int, NEW n \in Int, CallsCounted(x, n), NEW y,
           y = WithCall(x, kind, io)
    PROVE  /\ ContextTyped(y) /\ CallsCounted(y, n) /\ y.io_bytes = x.io_bytes + io
           /\ y.anchored_count = x.anchored_count /\ y.submissions_count = x.submissions_count
           /\ y.anchored = x.anchored + (IF kind = "anchored" THEN 1 ELSE 0)
           /\ y.jobs = x.jobs + (IF kind = "jobs" THEN 1 ELSE 0)
<1>1. PICK z : z = [x EXCEPT !.host_calls = x.host_calls + 1]
  OBVIOUS
<1>2. DOMAIN z = ContextFields /\ \A f \in ContextFields : z[f] = IF f = "host_calls" THEN x[f] + 1 ELSE x[f]
  BY <1>1 DEF ContextTyped
<1>3. kind \in ContextFields /\ kind # "io_bytes" /\ kind # "host_calls"
  BY DEF ContextFields
<1>4. y = [z EXCEPT ![kind] = z[kind] + 1, !.io_bytes = z.io_bytes + io]
  BY <1>1, <1>2, <1>3 DEF WithCall
<1>5. /\ DOMAIN y = ContextFields
      /\ \A f \in ContextFields : y[f] = IF f = kind THEN z[f] + 1
                                         ELSE IF f = "io_bytes" THEN z[f] + io ELSE z[f]
  BY <1>2, <1>3, <1>4
<1>6. \A f \in ContextFields : x[f] \in Int
  BY DEF ContextTyped
<1>7. \A f \in ContextFields : z[f] \in Int
  BY <1>2, <1>6
<1>8. \A f \in ContextFields : y[f] \in Int
  BY <1>5, <1>7
<1>9. /\ y.host_calls = x.host_calls + 1 /\ y.io_bytes = x.io_bytes + io
      /\ y.logs = x.logs + (IF kind = "logs" THEN 1 ELSE 0)
      /\ y.anchored = x.anchored + (IF kind = "anchored" THEN 1 ELSE 0)
      /\ y.checks = x.checks + (IF kind = "checks" THEN 1 ELSE 0)
      /\ y.usage = x.usage + (IF kind = "usage" THEN 1 ELSE 0)
      /\ y.jobs = x.jobs + (IF kind = "jobs" THEN 1 ELSE 0)
      /\ y.anchored_count = x.anchored_count /\ y.submissions_count = x.submissions_count
  BY <1>2, <1>3, <1>5, <1>6 DEF ContextFields
<1>10. /\ x.host_calls \in Int /\ x.logs \in Int /\ x.anchored \in Int /\ x.checks \in Int
       /\ x.usage \in Int /\ x.jobs \in Int
  BY <1>6 DEF ContextFields
<1>11. CallsCounted(y, n)
  BY <1>9, <1>10 DEF CallsCounted
<1> QED
  BY <1>5, <1>8, <1>9, <1>11 DEF ContextTyped

\* The end of an execution that reached its entry point.
LEMMA CollectedOk ==
    ASSUME NEW x, ContextTyped(x), NEW n \in Int, CallsCounted(x, n), NEW ok, NEW y, y = Collected(x, ok)
    PROVE  ContextTyped(y) /\ CallsCounted(y, n) /\ CountsLag(y, NoneEarly) /\ y.io_bytes = x.io_bytes
<1>1. /\ DOMAIN y = ContextFields
      /\ \A f \in ContextFields : y[f] = IF f = "anchored_count" THEN x.anchored
                                         ELSE IF f = "submissions_count" THEN x.jobs ELSE x[f]
  BY DEF Collected, ContextTyped
<1>2. x.anchored \in Int /\ x.jobs \in Int
  BY DEF ContextTyped, ContextFields
<1>3. ContextTyped(y)
  BY <1>1, <1>2 DEF ContextTyped
<1>4. /\ y.host_calls = x.host_calls /\ y.io_bytes = x.io_bytes /\ y.logs = x.logs
      /\ y.anchored = x.anchored /\ y.checks = x.checks /\ y.usage = x.usage /\ y.jobs = x.jobs
      /\ y.anchored_count = x.anchored /\ y.submissions_count = x.jobs
  BY <1>1 DEF ContextFields
<1>5. NoneEarly.anchored = 0 /\ NoneEarly.jobs = 0
  BY DEF NoneEarly
<1>6. CountsLag(y, NoneEarly)
  BY <1>2, <1>4, <1>5 DEF CountsLag
<1> QED
  BY <1>3, <1>4, <1>6 DEF CallsCounted

\* The call that fails is counted, whether the counters are collected then or not.
LEMMA FailedCall ==
    ASSUME NEW x, ContextTyped(x), NEW n \in Int, CallsCounted(x, n), NEW z,
           z = [x EXCEPT !.host_calls = x.host_calls + 1]
    PROVE  /\ ContextTyped(z) /\ CallsCounted(z, n + 1) /\ z.io_bytes = x.io_bytes
           /\ \A e : CountsLag(x, e) => CountsLag(z, e)
<1>1. DOMAIN z = ContextFields /\ \A f \in ContextFields : z[f] = IF f = "host_calls" THEN x[f] + 1 ELSE x[f]
  BY DEF ContextTyped
<1>2. /\ z.host_calls = x.host_calls + 1 /\ z.io_bytes = x.io_bytes /\ z.logs = x.logs
      /\ z.anchored = x.anchored /\ z.checks = x.checks /\ z.usage = x.usage /\ z.jobs = x.jobs
      /\ z.anchored_count = x.anchored_count /\ z.submissions_count = x.submissions_count
  BY <1>1 DEF ContextFields
<1>3. /\ x.host_calls \in Int /\ x.logs \in Int /\ x.anchored \in Int /\ x.checks \in Int
      /\ x.usage \in Int /\ x.jobs \in Int
  BY DEF ContextTyped, ContextFields
<1>4. ContextTyped(z)
  BY <1>1 DEF ContextTyped
<1>5. CallsCounted(z, n + 1)
  BY <1>2, <1>3 DEF CallsCounted
<1>6. \A e : CountsLag(x, e) => CountsLag(z, e)
  BY <1>2 DEF CountsLag
<1> QED  BY <1>2, <1>4, <1>5, <1>6

\* A host function whose bytes are those that were read, less whole words.
LEMMA HostFnOk ==
    ASSUME VmInv, NEW kind \in {"logs", "anchored", "checks", "usage", "jobs"}, NEW texts,
           NEW io \in Int, NEW n \in Nat, NEW utf8, HostFn(kind, texts, io, utf8),
           CountBytes(texts, utf8, n), WordsApart(n, io),
           4 * MemoryLen < SignBit /\ Reads(texts, utf8) => io = n
    PROVE  VmInv'
<1>1. PICK x : x = context /\ ContextTyped(x) /\ CallsCounted(x, failed)
  BY DEF VmInv
<1>2. failed \in Int /\ bytes \in Nat /\ vm \in {"starting", "running"}
  BY DEF VmInv, HostFn
<1>3. /\ x.io_bytes \in Int /\ WordsApart(bytes, x.io_bytes)
      /\ 4 * MemoryLen < SignBit => x.io_bytes = bytes
  BY <1>1 DEF VmInv, IoExact, ContextTyped, ContextFields
<1>4. CASE Reads(texts, utf8)
  <2>1. PICK y : context' = y /\ y = WithCall(x, kind, io)
    BY <1>1, <1>4 DEF HostFn, WithCall
  <2>2. vm' = vm /\ failed' = failed /\ bytes' = bytes + n
    BY <1>2, <1>4 DEF HostFn, CountBytes
  <2>3. /\ ContextTyped(y) /\ CallsCounted(y, failed) /\ y.io_bytes = x.io_bytes + io
        /\ y.anchored_count = x.anchored_count /\ y.submissions_count = x.submissions_count
        /\ y.anchored = x.anchored + (IF kind = "anchored" THEN 1 ELSE 0)
        /\ y.jobs = x.jobs + (IF kind = "jobs" THEN 1 ELSE 0)
    BY <1>1, <1>2, <2>1, Recorded
  <2>4. 4 * MemoryLen < SignBit => y.io_bytes = bytes + n
    BY <1>2, <1>3, <1>4, <2>3
  <2>5. IoExact'
    <3>1. WordsApart(bytes + n, x.io_bytes + io)
      BY <1>2, <1>3, WordsAdd
    <3> QED  BY <2>1, <2>2, <2>3, <2>4, <3>1 DEF IoExact, WordsApart
  <2>6. PICK e, f : e = early /\ f = early' /\ EarlyTyped(e)
    BY DEF VmInv
  <2>7. f = IF vm = "starting" /\ kind \in {"anchored", "jobs"} THEN [e EXCEPT ![kind] = e[kind] + 1] ELSE e
    BY <1>4, <2>6 DEF HostFn, EarlyTyped
  <2>8. /\ EarlyTyped(f)
        /\ vm = "starting" => /\ f.anchored = e.anchored + (IF kind = "anchored" THEN 1 ELSE 0)
                              /\ f.jobs = e.jobs + (IF kind = "jobs" THEN 1 ELSE 0)
    BY <2>6, <2>7 DEF EarlyTyped
  <2>9. x.anchored \in Int /\ x.jobs \in Int
    BY <1>1 DEF ContextTyped, ContextFields
  <2>10. vm = "starting" => CountsLag(y, f)
    <3>1. vm = "starting" => CountsLag(x, e)
      BY <1>1, <2>6 DEF VmInv
    <3> QED  BY <2>3, <2>6, <2>8, <2>9, <3>1 DEF CountsLag, EarlyTyped
  <2>11. /\ ContextTyped(context)' /\ CallsCounted(context, failed)' /\ EarlyTyped(early)'
         /\ (vm # "running" => CountsLag(context, early))'
    BY <1>2, <2>1, <2>2, <2>3, <2>6, <2>8, <2>10 DEF ContextTyped, CallsCounted, EarlyTyped, CountsLag
  <2> QED  BY <1>2, <2>2, <2>5, <2>11 DEF VmInv
<1>5. CASE ~Reads(texts, utf8)
  <2>1. PICK z : z = [x EXCEPT !.host_calls = x.host_calls + 1]
    OBVIOUS
  <2>2. PICK y : context' = y /\ y = IF vm = "running" THEN Collected(z, FALSE) ELSE z
    BY <1>1, <1>5, <2>1 DEF HostFn
  <2>3. vm' = "idle" /\ failed' = failed + 1 /\ bytes' = bytes
    BY <1>5 DEF HostFn, CountBytes
  <2>4. PICK m \in Int : m = failed + 1
    BY <1>2
  <2>5. /\ ContextTyped(z) /\ CallsCounted(z, m) /\ z.io_bytes = x.io_bytes
        /\ \A e : CountsLag(x, e) => CountsLag(z, e)
    BY <1>1, <1>2, <2>1, <2>4, FailedCall
  <2>6. PICK f : f = early' /\ f = IF vm = "running" THEN NoneEarly ELSE early
    BY <1>5 DEF HostFn
  <2>7. EarlyTyped(f)
    BY <2>6 DEF VmInv, EarlyTyped, NoneEarly
  <2>8. ContextTyped(y) /\ CallsCounted(y, m) /\ CountsLag(y, f) /\ y.io_bytes = x.io_bytes
    <3>1. CASE vm = "running"
      BY <2>2, <2>5, <2>6, <3>1, CollectedOk
    <3>2. CASE vm # "running"
      <4>1. CountsLag(x, early)
        BY <1>1, <3>2 DEF VmInv
      <4> QED  BY <2>2, <2>5, <2>6, <3>2, <4>1
    <3> QED  BY <3>1, <3>2
  <2>9. IoExact'
    BY <1>3, <2>2, <2>3, <2>8 DEF IoExact, WordsApart
  <2>10. ContextTyped(context)' /\ CallsCounted(context, failed)' /\ CountsLag(context, early)' /\ EarlyTyped(early)'
    BY <2>2, <2>3, <2>4, <2>6, <2>7, <2>8 DEF ContextTyped, CallsCounted, CountsLag, EarlyTyped
  <2> QED  BY <1>2, <2>3, <2>9, <2>10 DEF VmInv
<1> QED
  BY <1>4, <1>5

\* It holds at first, and each step keeps it.
LEMMA VmInitial == VmInit => VmInv
<1> SUFFICES ASSUME VmInit PROVE VmInv
  OBVIOUS
<1>1. ContextTyped(context)
  BY DEF VmInit, HostContextDefault, ContextTyped, ContextFields
<1>2. CallsCounted(context, failed) /\ CountsLag(context, early) /\ EarlyTyped(early)
  BY DEF VmInit, HostContextDefault, CallsCounted, CountsLag, EarlyTyped, NoneEarly
<1>3. IoExact
  <2>1. Word \in Int
    BY VmAssumption DEF Word
  <2>2. 0 \in 0..bytes /\ bytes = context.io_bytes + 0 * Word
    BY <2>1 DEF VmInit, HostContextDefault
  <2> QED  BY <2>2 DEF IoExact, WordsApart, VmInit, HostContextDefault
<1> QED
  BY <1>1, <1>2, <1>3 DEF VmInit, VmInv

\* One text.
LEMMA OneTextOk ==
    ASSUME VmInv, NEW t \in GuestTexts, NEW kind \in {"logs", "anchored", "usage"}, NEW utf8,
           OneText(kind, t, utf8)
    PROVE  VmInv'
<1>1. PICK texts : texts = <<t>>
  OBVIOUS
<1>2. DOMAIN texts = {1} /\ texts[1] = t
  BY <1>1
<1>3. PICK n \in Nat : n = AsUnsigned(t.len)
  BY Unsigned
<1>4. PICK io \in Int : io = t.len
  BY Unsigned
<1>5. ASSUME 4 * MemoryLen < SignBit, Reads(texts, utf8) PROVE io = n
  <2>1. InMemory(t.ptr, t.len) /\ MemoryLen < SignBit
    BY <1>2, <1>5, VmAssumption DEF Reads
  <2> QED  BY <1>3, <1>4, <2>1, LengthInMemory
<1>6. HostFn(kind, texts, io, utf8) /\ CountBytes(texts, utf8, n)
  BY <1>1, <1>3, <1>4 DEF OneText
<1>7. WordsApart(n, io)
  BY <1>3, <1>4, OneTextWords
<1> QED
  BY <1>5, <1>6, <1>7, HostFnOk

\* Four texts, whose lengths are added as signed words.
LEMMA SubmitJobOk ==
    ASSUME VmInv, NEW a \in GuestTexts, NEW b \in GuestTexts, NEW c \in GuestTexts, NEW d \in GuestTexts,
           NEW utf8, SubmitJob(a, b, c, d, utf8)
    PROVE  VmInv'
<1>1. PICK texts : texts = <<a, b, c, d>>
  OBVIOUS
<1>2. /\ DOMAIN texts = {1, 2, 3, 4}
      /\ texts[1] = a /\ texts[2] = b /\ texts[3] = c /\ texts[4] = d
  BY <1>1
<1>3. \A t \in GuestTexts : t.len \in Int /\ AsUnsigned(t.len) \in Nat
  BY Unsigned
<1>4. PICK n \in Nat : n = AsUnsigned(a.len) + AsUnsigned(b.len) + AsUnsigned(c.len) + AsUnsigned(d.len)
  BY <1>3
<1>5. PICK sum \in Int : sum = a.len + b.len + c.len + d.len
  BY <1>3
<1>6. PICK io \in Int : io = AsSigned(sum)
  BY VmAssumption DEF AsSigned, Word
<1>7. CountBytes(texts, utf8, n)
  BY <1>1, <1>4 DEF SubmitJob
<1>8. ASSUME 4 * MemoryLen < SignBit, Reads(texts, utf8)
      PROVE  io = n
  <2>1. /\ InMemory(a.ptr, a.len) /\ InMemory(b.ptr, b.len)
        /\ InMemory(c.ptr, c.len) /\ InMemory(d.ptr, d.len)
    BY <1>2, <1>8 DEF Reads
  <2>2. MemoryLen < SignBit /\ MemoryLen \in Nat /\ SignBit \in Nat
    BY <1>8, VmAssumption
  <2>3. /\ a.len \in 0..MemoryLen /\ AsUnsigned(a.len) = a.len
        /\ b.len \in 0..MemoryLen /\ AsUnsigned(b.len) = b.len
        /\ c.len \in 0..MemoryLen /\ AsUnsigned(c.len) = c.len
        /\ d.len \in 0..MemoryLen /\ AsUnsigned(d.len) = d.len
    BY <2>1, <2>2, LengthInMemory
  <2>4. 0 <= sum /\ sum < SignBit /\ n = sum
    BY <1>4, <1>5, <1>8, <2>2, <2>3
  <2>5. sum % Word = sum
    BY <1>5, <2>2, <2>4, WordRemainders DEF Word
  <2> QED  BY <1>5, <1>6, <2>2, <2>4, <2>5 DEF AsSigned
<1>9. HostFn("jobs", texts, io, utf8)
  BY <1>1, <1>5, <1>6 DEF SubmitJob, JobBytes
<1>10. WordsApart(n, io)
  BY <1>4, <1>5, <1>6, FourTextWords
<1> QED
  BY <1>7, <1>8, <1>9, <1>10, HostFnOk

LEMMA CheckAuthOk == ASSUME VmInv, NEW t \in GuestTexts, NEW utf8, CheckAuth(t, utf8) PROVE VmInv'
<1>1. HostFn("checks", <<t>>, 0, utf8) /\ bytes' = bytes /\ bytes \in Nat
  BY DEF CheckAuth, VmInv
<1>2. PICK texts : texts = <<t>>
  OBVIOUS
<1>3. PICK n \in Nat : n = 0
  OBVIOUS
<1>4. CountBytes(texts, utf8, n)
  BY <1>1, <1>3 DEF CountBytes
<1>5. HostFn("checks", texts, n, utf8)
  BY <1>1, <1>2, <1>3
<1>6. WordsApart(n, n)
  <2>1. Word \in Int
    BY VmAssumption DEF Word
  <2>2. 0 \in 0..n /\ n = n + 0 * Word
    BY <1>3, <2>1
  <2> QED  BY <2>2 DEF WordsApart
<1> QED
  BY <1>4, <1>5, <1>6, HostFnOk

LEMMA VmStepOk == ASSUME VmInv, VmStep PROVE VmInv'
<1>0. ASSUME UNCHANGED <<context, failed, bytes, early>>,
             vm' \in {"idle", "starting", "running"}, vm' # "running" => vm # "running" PROVE VmInv'
  BY <1>0 DEF VmInv, ContextTyped, CallsCounted, CountsLag, EarlyTyped, IoExact, WordsApart
<1>1. CASE \E compiles \in BOOLEAN : Execute(compiles)
  BY <1>0, <1>1 DEF Execute
<1>2. CASE \E t \in GuestTexts, utf8 \in BOOLEAN :
              Log(t, utf8) \/ Anchor(t, utf8) \/ RecordUsage(t, utf8) \/ CheckAuth(t, utf8)
  BY <1>2, OneTextOk, CheckAuthOk DEF Log, Anchor, RecordUsage
<1>3. CASE \E a, b, c, d \in GuestTexts, utf8 \in BOOLEAN : SubmitJob(a, b, c, d, utf8)
  BY <1>3, SubmitJobOk
<1>4. CASE Compute
  BY <1>0, <1>4 DEF Compute, VmInv
<1>5. CASE Finish
  <2>1. PICK x : x = context /\ ContextTyped(x) /\ CallsCounted(x, failed)
    BY DEF VmInv
  <2>2. PICK y : context' = y /\ y = Collected(x, fuel > 0)
    BY <1>5, <2>1 DEF Finish
  <2>3. /\ failed' = failed /\ bytes' = bytes /\ failed \in Int /\ bytes \in Nat /\ IoExact
        /\ vm' = "idle" /\ early' = NoneEarly
    BY <1>5 DEF Finish, VmInv
  <2>4. ContextTyped(y) /\ CallsCounted(y, failed) /\ CountsLag(y, NoneEarly) /\ y.io_bytes = x.io_bytes
    BY <2>1, <2>2, <2>3, CollectedOk
  <2>5. IoExact'
    BY <2>1, <2>2, <2>3, <2>4 DEF IoExact, WordsApart
  <2>6. ContextTyped(context)' /\ CallsCounted(context, failed)' /\ CountsLag(context, early)' /\ EarlyTyped(early)'
    BY <2>2, <2>3, <2>4 DEF ContextTyped, CallsCounted, CountsLag, EarlyTyped, NoneEarly
  <2> QED  BY <2>3, <2>5, <2>6 DEF VmInv
<1>6. CASE Instantiated \/ InstantiationFails
  BY <1>0, <1>6 DEF Instantiated, InstantiationFails
<1> QED
  BY <1>1, <1>2, <1>3, <1>4, <1>5, <1>6 DEF VmStep

-----------------------------------------------------------------------------

\* Both.
ExecInv == HostInv /\ VmInv

\* Every step keeps both.
LEMMA ExecStep == ExecInv /\ [ExecNext]_execVars => ExecInv'
<1> SUFFICES ASSUME ExecInv, [ExecNext]_execVars PROVE ExecInv'
  OBVIOUS
<1>1. ASSUME UNCHANGED hostVars PROVE HostInv'
  BY <1>1 DEF ExecInv, hostVars, HostInv, HostShape, Opener
<1>2. ASSUME UNCHANGED vmVars PROVE VmInv'
  BY <1>2 DEF ExecInv, vmVars, VmInv, ContextTyped, CallsCounted, CountsLag, EarlyTyped, IoExact, WordsApart
<1>3. CASE HostStep /\ UNCHANGED vmVars
  BY <1>2, <1>3, HostStepOk DEF ExecInv
<1>4. CASE VmStep /\ UNCHANGED hostVars
  BY <1>1, <1>4, VmStepOk DEF ExecInv
<1>5. CASE UNCHANGED execVars
  BY <1>1, <1>2, <1>5 DEF ExecInv, execVars
<1> QED
  BY <1>3, <1>4, <1>5 DEF ExecNext

\* The books are exact wherever the invariant holds.
LEMMA ExecInvSound == ExecInv => ExecutionSound
<1> SUFFICES ASSUME ExecInv PROVE ExecutionSound
  OBVIOUS
<1>1. HostShape(host) /\ (Opener(host) # 0 => sectionCall[Opener(host)] = "host_begin_section")
  BY DEF ExecInv, HostInv
<1>2. OpenSectionsUnended
  <2>1. CASE host.stack = <<>>
    BY <2>1 DEF OpenSectionsUnended
  <2>2. CASE host.stack # <<>>
    <3>1. PICK s : host.stack = <<s>> /\ s.by # 0
      BY <1>1, <2>2 DEF HostShape
    <3>2. DOMAIN <<s>> = {1} /\ <<s>>[1] = s
      OBVIOUS
    <3>3. Opener(host) = s.by
      BY <2>2, <3>1, <3>2 DEF Opener
    <3> QED  BY <1>1, <3>1, <3>2, <3>3 DEF OpenSectionsUnended
  <2> QED  BY <2>1, <2>2
<1>3. SpendingExact
  BY <1>1 DEF ExecInv, HostInv, HostShape, SpendingExact
<1>4. MetricsAgree /\ IoExact
  BY DEF ExecInv, VmInv, CallsCounted, CountsLag, MetricsAgree
<1> QED
  BY <1>2, <1>3, <1>4 DEF ExecutionSound

\* Whatever guests call and wherever they trap: a section that is open was opened
\* by an execution that has not ended one since, mana is charged exactly for the
\* accepted uses, and the metrics of a HostContext agree with its records but for
\* what start functions recorded before an instantiation that failed.
THEOREM ExecutionsAreSound == ExecSpec => []ExecutionSound
<1>1. ExecInit => ExecInv
  BY HostInitial, VmInitial DEF ExecInit, ExecInv
<1> QED
  BY <1>1, ExecStep, ExecInvSound, PTL DEF ExecSpec

=============================================================================
