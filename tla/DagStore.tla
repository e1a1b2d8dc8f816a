------------------------------ MODULE DagStore ------------------------------
(***************************************************************************)
(* SharedDagStore and DagStoreBatch (icn-types/src/dag_store.rs): a map of   *)
(* DAG nodes behind an async RwLock, used by concurrent tasks.  A batch      *)
(* stages its operations without the lock and applies them one by one under  *)
(* it; a batch that is dropped, rolled back or never polled again stages in  *)
(* vain.                                                                    *)
(*                                                                         *)
(* A node's key is its cid().  CidOf is the function that cid() computes;    *)
(* where it gives NoCid, cid() fails and the operation is refused before it  *)
(* takes the lock, which is no step of its own.  At this commit cid() is a    *)
(* stub that fails for every node (dag/mod.rs); CidOf stands for the function *)
(* that the store's tests and docs are written for.                         *)
(***************************************************************************)
EXTENDS Naturals, FiniteSets

CONSTANTS
    Tasks,       \* tasks with a clone of the store
    Nodes,       \* DagNodes
    Ids,         \* CIDs
    CidOf,       \* DagNode::cid
    NoCid,       \* cid() returns an error
    None,        \* no node under this key; no writer
    MaxOps       \* bound on operations, for model checking

ASSUME DagAssumption ==
    /\ CidOf \in [Nodes -> Ids \cup {NoCid}]
    /\ \A m, n \in Nodes : CidOf[m] = CidOf[n] /\ CidOf[m] # NoCid => m = n
    /\ NoCid \notin Ids
    /\ None \notin Nodes \cup Tasks
    /\ MaxOps \in Nat

VARIABLES
    inner,       \* the map: id -> node or None
    writer,      \* the task that holds the write lock between two steps
    batch,       \* per task: "none", "open", "committing"
    staged,      \* per task: the ids staged so far, each with a node or None (remove)
    versions,    \* history: contents of the store that whole operations produced
    ops

vars == <<inner, writer, batch, staged, versions, ops>>

NothingStaged == [i \in {} |-> None]

Init ==
    /\ inner = [i \in Ids |-> None]
    /\ writer = None
    /\ batch = [t \in Tasks |-> "none"]
    /\ staged = [t \in Tasks |-> NothingStaged]
    /\ versions = {inner}
    /\ ops = 0

\* The map with the staged operations applied.
Merged(map, s) == [i \in Ids |-> IF i \in DOMAIN s THEN s[i] ELSE map[i]]

Count == ops < MaxOps /\ ops' = ops + 1

-----------------------------------------------------------------------------
(* Single operations: the whole of each runs under the lock.                *)

Put(key, value) ==
    /\ writer = None
    /\ inner' = [inner EXCEPT ![key] = value]
    /\ versions' = versions \cup {inner'}
    /\ UNCHANGED <<writer, batch, staged>>

\* cid()? before the lock.
Insert(n) == CidOf[n] # NoCid /\ Count /\ Put(CidOf[n], n)

RemoveNode(i) == Count /\ Put(i, None)

-----------------------------------------------------------------------------
(* Batches.                                                                 *)

BeginBatch(t) ==
    /\ batch[t] = "none"
    /\ Count
    /\ batch' = [batch EXCEPT ![t] = "open"]
    /\ UNCHANGED <<inner, writer, staged, versions>>

\* A later operation on the same key replaces the staged one.
Stage(t, key, value) ==
    /\ batch[t] = "open"
    /\ Count
    /\ staged' = [staged EXCEPT ![t] =
           [i \in DOMAIN @ \cup {key} |-> IF i = key THEN value ELSE @[i]]]
    /\ UNCHANGED <<inner, writer, batch, versions>>

StageInsert(t, n) == CidOf[n] # NoCid /\ Stage(t, CidOf[n], n)

StageRemove(t, i) == Stage(t, i, None)

\* commit(): the write lock, then the staged operations in the map's own order.
CommitLock(t) ==
    /\ batch[t] = "open"
    /\ writer = None
    /\ writer' = t
    /\ batch' = [batch EXCEPT ![t] = "committing"]
    /\ versions' = versions \cup {Merged(inner, staged[t])}
    /\ UNCHANGED <<inner, staged, ops>>

\* Mutant: an applied operation stays staged.
CommitOneKept(t, i) ==
    /\ batch[t] = "committing"
    /\ i \in DOMAIN staged[t]
    /\ inner' = [inner EXCEPT ![i] = staged[t][i]]
    /\ UNCHANGED <<writer, batch, staged, versions, ops>>

CommitOne(t, i) ==
    /\ batch[t] = "committing"
    /\ i \in DOMAIN staged[t]
    /\ inner' = [inner EXCEPT ![i] = staged[t][i]]
    /\ staged' = [staged EXCEPT ![t] = [k \in DOMAIN @ \ {i} |-> @[k]]]
    /\ UNCHANGED <<writer, batch, versions, ops>>

\* Mutant: the guard is dropped with operations still staged.
CommitEndsEarly(t) ==
    /\ batch[t] = "committing"
    /\ writer' = None
    /\ batch' = [batch EXCEPT ![t] = "none"]
    /\ staged' = [staged EXCEPT ![t] = NothingStaged]
    /\ UNCHANGED <<inner, versions, ops>>

CommitEnd(t) ==
    /\ batch[t] = "committing"
    /\ staged[t] = NothingStaged
    /\ writer' = None
    /\ batch' = [batch EXCEPT ![t] = "none"]
    /\ UNCHANGED <<inner, staged, versions, ops>>

\* rollback(), Drop, or a commit cancelled while it waits for the lock.
DropBatch(t) ==
    /\ batch[t] = "open"
    /\ batch' = [batch EXCEPT ![t] = "none"]
    /\ staged' = [staged EXCEPT ![t] = NothingStaged]
    /\ UNCHANGED <<inner, writer, versions, ops>>

Committing(t) == CommitEnd(t) \/ \E i \in Ids : CommitOne(t, i)

Next ==
    \/ \E n \in Nodes : Insert(n)
    \/ \E i \in Ids : RemoveNode(i)
    \/ \E t \in Tasks :
         \/ BeginBatch(t)
         \/ \E n \in Nodes : StageInsert(t, n)
         \/ \E i \in Ids : StageRemove(t, i)
         \/ CommitLock(t)
         \/ Committing(t)
         \/ DropBatch(t)

\* A commit has no await after the lock: it runs on.
Fairness == \A t \in Tasks : WF_vars(Committing(t))

Spec == Init /\ [][Next]_vars
FairSpec == Spec /\ Fairness

-----------------------------------------------------------------------------
(* Properties.                                                              *)

Staging == UNION {[S -> Nodes \cup {None}] : S \in SUBSET Ids}

TypeOK ==
    /\ inner \in [Ids -> Nodes \cup {None}]
    /\ writer \in Tasks \cup {None}
    /\ batch \in [Tasks -> {"none", "open", "committing"}]
    /\ staged \in [Tasks -> Staging]
    /\ \A t \in Tasks : batch[t] = "none" => staged[t] = NothingStaged
    /\ ops \in 0..MaxOps

\* Whoever can take the read lock sees a state that whole operations made: all of
\* a batch or nothing of it, and never anything of a dropped one ("Changes are
\* only visible after calling `commit()`", DagStoreBatch).
ReadersSeeWholeBatches == writer = None => inner \in versions

\* While a batch is being applied, its staged rest is exactly what the map lacks.
CommitOnTrack == writer # None => Merged(inner, staged[writer]) \in versions

\* Content addressing: a node is found under its own cid and under no other,
\* staged or stored.
KeyedByCid ==
    /\ \A i \in Ids : inner[i] # None => CidOf[inner[i]] = i
    /\ \A t \in Tasks : \A i \in DOMAIN staged[t] :
          staged[t][i] # None => CidOf[staged[t][i]] = i

\* The write lock is given back: a commit in progress ends.
CommitsEnd == \A t \in Tasks : batch[t] = "committing" ~> batch[t] = "none"

\* Batches are atomic and nodes are found under their own cid only, whatever
\* tasks interleave (SharedDagStore, DagStoreBatch).
StoreSound == TypeOK /\ ReadersSeeWholeBatches /\ CommitOnTrack /\ KeyedByCid

=============================================================================
