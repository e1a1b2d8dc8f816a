----------------------------- MODULE Distribution -----------------------------
(***************************************************************************)
(* DistributionWorker, icn-runtime/src/distribution_worker.rs: a periodic   *)
(* task that pays a tenth of the node's mana pool to the originators of the *)
(* receipts found in the DAG store for the last interval.                   *)
(*                                                                         *)
(* The worker keeps the manager's mutex from the first read of the balance  *)
(* to the last transfer, across the await of the DAG query; every other     *)
(* operation of the manager waits for it.  The DAG store has its own lock,  *)
(* so receipts are anchored meanwhile.  The period is tokio's, measured by a *)
(* monotonic clock, with its default policy for missed ticks: they are       *)
(* delivered in a burst.  Timestamps and regeneration are the wall clock's,  *)
(* which may be set back at any time, between two steps of a tick as well.   *)
(*                                                                         *)
(* DagNode::cid is a stub that fails at this commit (see DagStore), so no     *)
(* receipt reaches a SharedDagStore; the worker is modelled over a store     *)
(* that accepts nodes, which is what it and its tests are written against.   *)
(***************************************************************************)
EXTENDS ManaManager, FiniteSets

CONSTANTS
    NodeScope,   \* the worker's own pool
    ReceiptNodes, \* identities of Receipt nodes in the DAG store
    Interval,    \* the period, in seconds
    MaxIntervals \* bound on the intervals that pass, for model checking

ASSUME NodeScopeAssumption == NodeScope \in Scopes
ASSUME IntervalAssumption == Interval \in Nat \ {0} /\ MaxIntervals \in Nat

VARIABLES
    anchored,    \* the DAG store: receipt -> its timestamp and originator scope
    elapsed,     \* intervals that have passed on the monotonic clock
    taken,       \* ticks taken
    phase,       \* "idle", "querying" or "paying"; not "idle" = mutex held
    payout,      \* the part of the balance set aside for this tick
    since,       \* start of the query
    share,       \* payout per receipt
    todo,        \* receipts of this tick still to be paid
    floor,       \* history: the node's balance less the payout, as the tick began
    refused      \* history: transfers of this tick that failed

workerVars == <<elapsed, taken, phase, payout, since, share, todo, floor, refused>>
allVars == <<vars, anchored, workerVars>>

FractionPercent == 10

-----------------------------------------------------------------------------
DInit ==
    /\ Init
    /\ anchored = [r \in {} |-> 0]
    /\ elapsed = 0 /\ taken = 0
    /\ phase = "idle"
    /\ payout = 0 /\ since = 0 /\ share = 0 /\ floor = 0
    /\ todo = {}
    /\ refused = 0

MutexFree == phase = "idle"

\* Mutant: the mutex is given back for the await.
UnlockedOperation == Operation /\ UNCHANGED <<anchored, workerVars>>

\* Any other holder of the Arc<Mutex<ManaManager>>.
OtherOperation ==
    /\ MutexFree
    /\ Operation
    /\ UNCHANGED <<anchored, workerVars>>

\* A receipt for a job of `origin` is anchored (runtime, or a synced DAG node).
Anchor(r, origin) ==
    /\ r \notin DOMAIN anchored
    /\ anchored' = Put(anchored, r, [ts |-> clock, origin |-> origin])
    /\ UNCHANGED <<vars, workerVars>>

\* The wall clock moves either way; so does, forwards, the clock of the interval.
PassTime(t) ==
    /\ SetClock(t)
    /\ UNCHANGED <<anchored, workerVars>>

IntervalPasses ==
    /\ elapsed < MaxIntervals
    /\ elapsed' = elapsed + 1
    /\ UNCHANGED <<vars, anchored, taken, phase, payout, since, share, todo, floor, refused>>

-----------------------------------------------------------------------------
(* tick(), from the lock to the count of transfers.                         *)

\* The first tick is immediate; one that was missed is due at once.
TickDue == phase = "idle" /\ taken <= elapsed

\* Take the mutex, read the balance, set the payout aside.
TickBegin ==
    /\ TickDue
    /\ taken' = taken + 1
    /\ IF NodeScope \in DOMAIN pools
       THEN pools' = Put(pools, NodeScope, Available(pools[NodeScope], clock))
       ELSE pools' = pools
    /\ LET balance == Worth(pools, NodeScope, clock)
           amount  == (balance * FractionPercent) \div 100
       IN  IF amount = 0
           THEN UNCHANGED <<phase, payout, since, floor>>
           ELSE /\ phase' = "querying"
                /\ payout' = amount
                /\ since' = clock - Interval
                /\ floor' = balance - amount
    /\ refused' = 0
    /\ UNCHANGED <<clock, spent, received, born, anchored, elapsed, share, todo>>

\* The locals of a tick go with it.
EndTick == phase' = "idle" /\ payout' = 0 /\ since' = 0 /\ share' = 0 /\ floor' = 0

Found == {r \in DOMAIN anchored : anchored[r].ts >= since}

BeginPaying(amount) ==
    /\ phase' = "paying"
    /\ share' = amount
    /\ todo' = Found
    /\ UNCHANGED <<payout, since, floor>>

\* Mutant: the share is the payout, not its part.
UndividedShare ==
    /\ phase = "querying"
    /\ IF Found = {} THEN EndTick /\ UNCHANGED todo ELSE BeginPaying(payout)
    /\ UNCHANGED <<vars, anchored, elapsed, taken, refused>>

\* Every Receipt node at or after `since`; nothing found ends the tick.
QueryEvents ==
    /\ phase = "querying"
    /\ IF Found = {} THEN EndTick /\ UNCHANGED todo
                     ELSE BeginPaying(payout \div Cardinality(Found))
    /\ UNCHANGED <<vars, anchored, elapsed, taken, refused>>

\* store.list() failed: unwrap_or_default makes it an empty answer.
QueryFails ==
    /\ phase = "querying"
    /\ EndTick
    /\ UNCHANGED <<vars, anchored, elapsed, taken, todo, refused>>

\* One transfer of the loop; the last one gives the mutex back.
PayOne(r) ==
    /\ phase = "paying"
    /\ r \in todo
    /\ Transfer(NodeScope, anchored[r].origin, share)
    /\ refused' = IF CanSpend(pools, NodeScope, share, clock) THEN refused ELSE refused + 1
    /\ todo' = todo \ {r}
    /\ IF todo' = {} THEN EndTick ELSE UNCHANGED <<phase, payout, since, share, floor>>
    /\ UNCHANGED <<anchored, elapsed, taken>>

DNext ==
    \/ OtherOperation
    \/ \E r \in ReceiptNodes, o \in Scopes : Anchor(r, o)
    \/ \E t \in 0..MaxTime : PassTime(t)
    \/ IntervalPasses
    \/ TickBegin
    \/ QueryEvents
    \/ QueryFails
    \/ \E r \in ReceiptNodes : PayOne(r)

DSpec == DInit /\ [][DNext]_allVars

-----------------------------------------------------------------------------
(* Properties.                                                              *)

DTypeOK ==
    /\ DOMAIN anchored \subseteq ReceiptNodes
    /\ anchored \in [DOMAIN anchored -> [ts : Nat, origin : Scopes]]
    /\ elapsed \in 0..MaxIntervals /\ taken \in 0..(elapsed + 1)
    /\ phase \in {"idle", "querying", "paying"}
    /\ payout \in Nat /\ since \in Int /\ share \in Nat /\ floor \in Nat
    /\ todo \subseteq DOMAIN anchored
    /\ refused \in Nat

\* A tick never runs out of mana half way: no transfer of its loop is refused,
\* although receipts keep arriving and time passes between its steps (the mutex
\* held across the query in tick()).
NeverShort == refused = 0

\* A tick hands out at most a tenth: after every transfer of its loop the node
\* still has what it had when the tick began, less the payout ("redistributes a
\* fixed percentage of the node's mana pool", distribution_worker.rs:36).
FractionHeld ==
    [][\A r \in ReceiptNodes : PayOne(r) => Worth(pools', NodeScope, clock) >= floor]_allVars

\* Why both hold: the part of the payout still to be handed out is on top of
\* what the node keeps.
Covered ==
    /\ phase = "querying" => Worth(pools, NodeScope, clock) >= floor + payout
    /\ phase = "paying" =>
         Worth(pools, NodeScope, clock) >= floor + share * Cardinality(todo)

\* A tick that has begun can be finished: nothing it has promised to pay is
\* spent by others or lost to the clock while it waits (DistributionWorker::tick).
TickCovered == DTypeOK /\ NeverShort /\ Covered

=============================================================================
