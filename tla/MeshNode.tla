------------------------------- MODULE MeshNode -------------------------------
(***************************************************************************)
(* Nodes of the planetary mesh: the originator Owner and executors exchange   *)
(* gossip, and each node runs one event loop (planetary-mesh/src/node.rs under *)
(* crates/p2p, and its successor in src/planetary-mesh with execution policies  *)
(* and reputation records on the mesh; policy.kind tells which of the two       *)
(* selections the originator makes).                                        *)
(*                                                                         *)
(* A published message stays in net and reaches a subscriber never, once or    *)
(* several times, in any order.  The loop handles one event at a time; two      *)
(* handlers await a Kademlia query whose answer is itself an event of the loop.  *)
(* mode is "loop" for the code as written, "task" for handlers that run beside   *)
(* the loop, as the spawned ones do.                                        *)
(*                                                                         *)
(* External: status updates that end a job, bids that reach the interest topic  *)
(* of a job (the node's own go elsewhere), the subscription to the direct topic *)
(* of the own DID (utils is not in the crate), who calls the execution, and      *)
(* who queues the fetch of a reputation record.                               *)
(***************************************************************************)
EXTENDS Integers, Sequences, FiniteSets, SequencesExt

CONSTANTS
    Owner, Executors, Jobs, Nobody,
    Suitable,    \* executor -> jobs whose resources it has
    Region,      \* executor -> the region in its bids
    Prices,      \* what executors may bid
    BidPrices,   \* executor -> what it does bid
    Policies,    \* ways to select: [kind : {"score", "lowest"}] and policies
    PeerRecords, \* reputation records that other originators have announced
    Resolvable,  \* issuers whose key resolve_did_to_public_key knows
    Setups,      \* <<mode, policy>> pairs
    MaxBids, MaxInterests, MaxActions, MaxDeliveries,    \* bounds, for model checking
    MaxExecuting \* and of the executors that execute at all

ASSUME MeshAssumption ==
    /\ Owner \notin Executors /\ Nobody \notin Executors
    /\ Setups \subseteq {"loop", "task"} \X Policies /\ Prices \subseteq Nat
    /\ \A e \in Executors : BidPrices[e] \subseteq Prices
    /\ \A p \in Policies :
          /\ p.kind \in {"score", "lowest", "policy"}
          /\ p.kind = "policy" =>                \* caps within the resolution of a score
                p.cap \in 0..1000 \cup {Nobody} /\ {p.minRep, p.priceWeight, p.repWeight} \subseteq Nat
    /\ {MaxBids, MaxInterests, MaxActions, MaxDeliveries, MaxExecuting} \subseteq Nat

Nodes == {Owner} \cup Executors

VARIABLES
    mode, policy,
    alive,       \* the originator's loop has not panicked
    net,         \* messages published
    queue,       \* runtime_job_queue of the originator
    originated,  \* announced_originated_jobs of the originator
    topics,      \* jobs whose interest topic the originator is subscribed to
    interests,   \* job_interests_received: job -> DIDs
    bids,        \* bids at the originator: job -> list
    assignedBy,  \* assigned_by_originator: job -> executor told, or Nobody
    available,   \* executor -> available_jobs_on_mesh
    assigned,    \* executor -> assigned_jobs
    receipts,    \* executor -> receipts anchored (completed_job_receipt_cids)
    actions,     \* executor -> receipts in the internal action queue
    query,       \* the originator's Kademlia query, or Idle
    verified,    \* verified_reputation_records of the originator
    anchored,    \* receipts the originator has verified and anchored
    deliveries,  \* history: job -> verified deliveries of its receipt
    tasks,       \* spawned settlements and reputation updates
    paid,        \* history: job -> payments
    issued       \* history: job -> reputation records sent

config == <<mode, policy>>
market == <<queue, originated, topics, interests, bids, assignedBy>>
work == <<available, assigned, receipts, actions>>
effects == <<verified, anchored, deliveries, tasks, paid, issued>>
vars == <<config, alive, net, market, work, query, effects>>

Idle == [pc |-> "select"]

Init ==
    /\ \E s \in Setups : mode = s[1] /\ policy = s[2]
    /\ alive = TRUE
    /\ net = {} /\ queue = <<>> /\ originated = {} /\ topics = {}
    /\ interests = [j \in Jobs |-> <<>>]
    /\ bids = [j \in Jobs |-> <<>>]
    /\ assignedBy = [j \in Jobs |-> Nobody]
    /\ available = [e \in Executors |-> {}]
    /\ assigned = [e \in Executors |-> {}]
    /\ receipts = [e \in Executors |-> {}]
    /\ actions = [e \in Executors |-> <<>>]
    /\ query = Idle
    /\ verified = {} /\ anchored = {} /\ tasks = <<>>
    /\ deliveries = [j \in Jobs |-> 0]
    /\ paid = [j \in Jobs |-> <<>>]
    /\ issued = [j \in Jobs |-> 0]

InSelect == alive /\ (query = Idle \/ mode = "task")

-----------------------------------------------------------------------------
(* Timers of the originator's loop.                                         *)

\* The runtime queues a job for the mesh.
QueueJob(j) ==
    /\ j \notin originated /\ ~Contains(queue, j)
    /\ queue' = Append(queue, j)
    /\ UNCHANGED <<config, alive, net, originated, topics, interests, bids, assignedBy, work, query, effects>>

\* Every queued job is popped, announced, its interest topic joined and its
\* manifest kept; a job whose announcement could not be published is dropped.
JobQueueTick(failed) ==
    /\ InSelect /\ queue # <<>>
    /\ failed \subseteq ToSet(queue)
    /\ LET sent == ToSet(queue) \ failed
       IN  /\ net' = net \cup {[type |-> "JobAnnouncement", job |-> j] : j \in sent}
           /\ topics' = topics \cup sent
           /\ originated' = originated \cup sent
    /\ queue' = <<>>
    /\ UNCHANGED <<config, alive, interests, bids, assignedBy, work, query, effects>>

\* calculate_reputation_score_for_did, from 0 to 100.
ReputationOf(did) ==
    LET Count(ok) == Cardinality({r \in verified : r.subject = did /\ r.ok = ok})
        raw == 50 + 10 * Count(TRUE) - 15 * Count(FALSE)
    IN  IF raw < 0 THEN 0 ELSE IF raw > 100 THEN 100 ELSE raw

\* Mutant: the dearer the better.
PriceComponentRising(pol, b) ==
    IF pol.cap = Nobody \/ pol.cap = 0 THEN 500 ELSE (1000 * b.price) \div pol.cap

\* In thousandths of max_price; without one the scale is twice the bid itself,
\* so that every price but 0 scores one half.
PriceComponent(pol, b) ==
    LET scale == IF pol.cap = Nobody THEN 2 * b.price ELSE pol.cap
    IN  IF scale > 0 THEN 1000 - (1000 * b.price) \div scale ELSE 1000

\* evaluate_bid_against_policy, weights in tenths.
PolicyScore(pol, b) ==
    pol.priceWeight * PriceComponent(pol, b) + pol.repWeight * 10 * ReputationOf(b.bidder)

Admitted(pol, list) ==
    {i \in DOMAIN list :
        LET b == list[i]
        IN  /\ pol.region = Nobody \/ Region[b.bidder] = pol.region
            /\ pol.cap # Nobody => b.price <= pol.cap
            /\ ReputationOf(b.bidder) >= pol.minRep
            /\ PolicyScore(pol, b) > 0}

\* max_by: the last of the admitted bids with the highest score.
BestByPolicy(pol, list) ==
    list[CHOOSE i \in Admitted(pol, list) :
             \A k \in Admitted(pol, list) :
                 \/ PolicyScore(pol, list[k]) < PolicyScore(pol, list[i])
                 \/ PolicyScore(pol, list[k]) = PolicyScore(pol, list[i]) /\ k <= i]

\* min_by_key: the first of the lowest.
LowestBid(list) ==
    list[CHOOSE i \in DOMAIN list :
             \A k \in DOMAIN list : list[k].price > list[i].price \/ (list[k].price = list[i].price /\ i <= k)]

\* Mutant: jobs that were assigned are selected for again.
OpenJobsAll == {j \in originated : bids[j] # <<>>}

OpenJobs == {j \in originated : assignedBy[j] = Nobody /\ bids[j] # <<>>}

\* One of the open jobs; a failed publish leaves it open.  The execution that
\* assign_job_to_executor triggers looks for the job among the originator's
\* own assigned jobs and finds nothing.
AssignJobToExecutor(j, e) ==
    /\ net' = net \cup {[type |-> "AssignJob", job |-> j, to |-> e]}
    /\ assignedBy' = [assignedBy EXCEPT ![j] = e]
    /\ topics' = topics \cup {j}
    /\ UNCHANGED <<config, alive, queue, originated, interests, bids, work, query, effects>>

\* The selection by score blocks on the first bidder's profile from within
\* the runtime (Handle::block_on in an async context), which panics and ends
\* the loop; nothing has been assigned by then.
SelectByScore(j) ==
    /\ InSelect /\ policy.kind = "score"
    /\ j \in OpenJobs
    /\ alive' = FALSE
    /\ UNCHANGED <<config, net, market, work, query, effects>>

SelectByPolicy(j) ==
    /\ InSelect /\ policy.kind # "score"
    /\ j \in OpenJobs
    /\ \/ policy.kind = "lowest" /\ AssignJobToExecutor(j, LowestBid(bids[j]).bidder)
       \/ /\ policy.kind = "policy" /\ Admitted(policy, bids[j]) # {}
          /\ AssignJobToExecutor(j, BestByPolicy(policy, bids[j]).bidder)

-----------------------------------------------------------------------------
(* What executors send, and how they handle gossip.                          *)

\* External: a bid sent to the interest topic of a job.  The node's own
\* publish_bid_message goes to job-bids/{id}, which no node subscribes to:
\* gossipsub has no peer for it and refuses, and nothing changes.
PeerBids(e, j, p) ==
    /\ j \in available[e]
    /\ net' = net \cup {[type |-> "JobBid", job |-> j, bidder |-> e, price |-> p]}
    /\ net' # net
    /\ UNCHANGED <<config, alive, market, work, query, effects>>

\* External: an executor of another version says the job is over.
SendTerminalStatus(e, j) ==
    /\ \E m \in net : m.type = "ReceiptAvailable" /\ m.job = j /\ m.executor = e
    /\ net' = net \cup {[type |-> "JobStatusUpdate", job |-> j, status |-> "Completed"]}
    /\ UNCHANGED <<config, alive, market, work, query, effects>>

\* JobAnnouncementV1: remembered, and interest expressed where the job suits.
OnJobAnnouncement(e, m) ==
    /\ m.type = "JobAnnouncement"
    /\ available' = [available EXCEPT ![e] = @ \cup {m.job}]
    /\ net' = IF m.job \in Suitable[e]
              THEN net \cup {[type |-> "JobInterest", job |-> m.job, from |-> e]} ELSE net
    /\ UNCHANGED <<config, alive, market, assigned, receipts, actions, query, effects>>

IsTarget(e, m) == m.to = e

\* AssignJobV1: kept for execution and confirmed.
OnAssignJob(e, m) ==
    /\ m.type = "AssignJob"
    /\ IsTarget(e, m)
    /\ assigned' = [assigned EXCEPT ![e] = @ \cup {m.job}]
    /\ net' = net \cup {[type |-> "JobStatusUpdate", job |-> m.job, status |-> "Assigned"]}
    /\ UNCHANGED <<config, alive, market, available, receipts, actions, query, effects>>

\* simulate_execution_and_anchor_receipt of a job the node knows, assigned to
\* it or not, again if the caller repeats it: signed with the own key, anchored,
\* and queued for the announcement.  When one of these fails there is nothing.
ExecuteAndAnchor(e, j) ==
    /\ j \in available[e] \cup assigned[e]
    /\ Len(actions[e]) < MaxActions
    /\ Cardinality({e} \cup {x \in Executors : receipts[x] # {}}) <= MaxExecuting
    /\ LET r == [job |-> j, executor |-> e, signer |-> e]
       IN  /\ receipts' = [receipts EXCEPT ![e] = @ \cup {r}]
           /\ actions' = [actions EXCEPT ![e] = Append(@, r)]
    /\ UNCHANGED <<config, alive, net, market, available, assigned, query, effects>>

\* The internal action AnnounceReceipt.
AnnounceReceipt(e) ==
    /\ actions[e] # <<>>
    /\ net' = net \cup {[type |-> "ReceiptAvailable", job |-> Head(actions[e]).job,
                         content |-> Head(actions[e]), executor |-> e]}
    /\ actions' = [actions EXCEPT ![e] = Tail(@)]
    /\ UNCHANGED <<config, alive, market, available, assigned, receipts, query, effects>>

-----------------------------------------------------------------------------
(* How the originator handles gossip.                                        *)

\* JobInterestV1 of an own job; every delivery is pushed.
OnJobInterest(m) ==
    /\ m.type = "JobInterest" /\ m.job \in topics
    /\ m.job \in originated
    /\ Len(interests[m.job]) < MaxInterests
    /\ interests' = [interests EXCEPT ![m.job] = Append(@, m.from)]
    /\ UNCHANGED <<config, alive, net, queue, originated, topics, bids, assignedBy, work, query, effects>>

\* JobBidV1 on the interest topic: every delivery is pushed, for whatever job.
OnJobBid(m) ==
    /\ m.type = "JobBid" /\ m.job \in topics
    /\ Len(bids[m.job]) < MaxBids
    /\ bids' = [bids EXCEPT ![m.job] = Append(@, [bidder |-> m.bidder, price |-> m.price])]
    /\ UNCHANGED <<config, alive, net, queue, originated, topics, interests, assignedBy, work, query, effects>>

\* JobStatusUpdateV1: a terminal status ends the subscription.
OnJobStatus(m) ==
    /\ m.type = "JobStatusUpdate" /\ m.job \in topics \cap originated
    /\ m.status = "Completed"
    /\ topics' = topics \ {m.job}
    /\ interests' = [interests EXCEPT ![m.job] = <<>>]
    /\ UNCHANGED <<config, alive, net, queue, originated, bids, assignedBy, work, query, effects>>

\* ExecutionReceiptAvailableV1 of an own job: the Kademlia query begins.
OnReceiptAvailable(m) ==
    /\ m.type = "ReceiptAvailable" /\ m.job \in originated
    /\ query = Idle /\ deliveries[m.job] < MaxDeliveries
    /\ query' = [pc |-> "fetch", of |-> m]
    /\ UNCHANGED <<config, alive, net, market, work, effects>>

\* The internal action FetchReputationRecord begins one as well.
FetchReputationRecord(r) ==
    /\ query = Idle /\ r \notin verified
    /\ query' = [pc |-> "fetch", of |-> [type |-> "RecordAvailable", content |-> r]]
    /\ UNCHANGED <<config, alive, net, market, work, effects>>

\* GetRecord answers, as an event of the loop, with what some peer has under
\* the key, which need not be what was announced.
KademliaFinds(value) ==
    /\ InSelect
    /\ query.pc = "fetch"
    /\ query' = [pc |-> "verify", of |-> query.of, answer |-> value]
    /\ UNCHANGED <<config, alive, net, market, work, effects>>

\* FinishedWithNoRecords, or an error.
KademliaFindsNothing ==
    /\ InSelect
    /\ query.pc = "fetch"
    /\ query' = Idle
    /\ UNCHANGED <<config, alive, net, market, work, effects>>

\* Mutant: a timeout asks again.
FetchTimeoutRetries ==
    /\ query.pc = "fetch"
    /\ query' = [query EXCEPT !.pc = "fetch"]
    /\ UNCHANGED <<config, alive, net, market, work, effects>>

\* After 30 s the query is forgotten.
FetchTimeout ==
    /\ query.pc = "fetch"
    /\ query' = Idle
    /\ UNCHANGED <<config, alive, net, market, work, effects>>

\* The CID, the executor and the signature.
ReceiptValid(r, m) == r = m.content /\ r.executor = m.executor /\ r.signer = r.executor

\* Mutant: the second task settles as well.
SpawnedTwice(r, m) ==
    <<[what |-> "settle", job |-> m.job, executor |-> r.executor],
      [what |-> "settle", job |-> m.job, executor |-> r.executor]>>

\* Settlement and reputation update, each a task of its own.
Spawned(r, m) ==
    <<[what |-> "settle", job |-> m.job, executor |-> r.executor],
      [what |-> "reputation", job |-> m.job, executor |-> r.executor]>>

\* Anchored once, settled every time.
VerifyReceipt ==
    /\ query.pc = "verify" /\ query.of.type = "ReceiptAvailable"
    /\ LET r == query.answer
           m == query.of
       IN  IF ReceiptValid(r, m)
           THEN /\ anchored' = anchored \cup {r}
                /\ tasks' = tasks \o Spawned(r, m)
                /\ deliveries' = [deliveries EXCEPT ![m.job] = @ + 1]
           ELSE UNCHANGED <<anchored, tasks, deliveries>>
    /\ query' = Idle
    /\ UNCHANGED <<config, alive, net, market, work, verified, paid, issued>>

\* The CID, and a signature under a key that can be resolved.
RecordValid(r, m) == r = m.content /\ r.issuer \in Resolvable

VerifyRecord ==
    /\ query.pc = "verify" /\ query.of.type = "RecordAvailable"
    /\ verified' = IF RecordValid(query.answer, query.of) THEN verified \cup {query.answer} ELSE verified
    /\ query' = Idle
    /\ UNCHANGED <<config, alive, net, market, work, anchored, deliveries, tasks, paid, issued>>

\* The position of the executor's first bid, or 0.
FirstBid(t) == SelectInSeq(bids[t.job], LAMBDA b : b.bidder = t.executor)

\* trigger_economic_settlement: the executor's first bid is transferred from
\* the originator; without a bid, or when the transfer fails, nothing is.
Settle(i, ok) ==
    /\ tasks[i].what = "settle"
    /\ tasks' = RemoveAt(tasks, i)
    /\ LET t == tasks[i]
       IN  paid' = IF ok /\ FirstBid(t) # 0 /\ t.executor # Owner
                   THEN [paid EXCEPT ![t.job] = Append(@, <<t.executor, bids[t.job][FirstBid(t)].price>>)]
                   ELSE paid
    /\ UNCHANGED <<config, alive, net, market, work, query, verified, anchored, deliveries, issued>>

\* The successor announces the record if the own DAG took it; nobody handles
\* the announcement yet.
Announced(t, anchoredOk) ==
    IF policy.kind # "score" /\ anchoredOk
    THEN {[type |-> "RecordAvailable", job |-> t.job, subject |-> t.executor]} ELSE {}

\* trigger_reputation_update: a fresh record, signed and posted to the
\* service.  Without a CID, a runtime context, a status that is scored, a URL or
\* an answer of the service no record gets there, and nothing is retried.
UpdateReputation(i, submitted, anchoredOk) ==
    /\ tasks[i].what = "reputation"
    /\ tasks' = RemoveAt(tasks, i)
    /\ net' = net \cup Announced(tasks[i], anchoredOk)
    /\ issued' = IF submitted THEN [issued EXCEPT ![tasks[i].job] = @ + 1] ELSE issued
    /\ UNCHANGED <<config, alive, market, work, query, verified, anchored, deliveries, paid>>

-----------------------------------------------------------------------------
GossipToExecutor(e) ==
    \E m \in net : OnJobAnnouncement(e, m) \/ OnAssignJob(e, m)

GossipToOwner ==
    /\ InSelect
    /\ \E m \in net :
           OnJobInterest(m) \/ OnJobBid(m) \/ OnJobStatus(m) \/ OnReceiptAvailable(m)

Stored == PeerRecords \cup UNION {receipts[e] : e \in Executors}

Next ==
    \/ \E j \in Jobs :
          QueueJob(j) \/ SelectByPolicy(j) \/ SelectByScore(j)
    \/ \E failed \in SUBSET Jobs : JobQueueTick(failed)
    \/ \E e \in Executors :
          \/ GossipToExecutor(e) \/ AnnounceReceipt(e)
          \/ \E j \in Jobs :
                \/ SendTerminalStatus(e, j) \/ ExecuteAndAnchor(e, j)
                \/ \E p \in BidPrices[e] : PeerBids(e, j, p)
    \/ GossipToOwner
    \/ \E r \in PeerRecords : policy.kind = "policy" /\ FetchReputationRecord(r)
    \/ (\E v \in Stored : KademliaFinds(v)) \/ KademliaFindsNothing
    \/ FetchTimeout \/ VerifyReceipt \/ VerifyRecord
    \/ \E i \in DOMAIN tasks, ok \in BOOLEAN :
          Settle(i, ok) \/ \E submitted \in BOOLEAN : UpdateReputation(i, submitted, ok)

Spec == Init /\ [][Next]_vars

\* tokio's timer fires, and what a fetch returned is looked at.
FairSpec == Spec /\ WF_vars(FetchTimeout) /\ WF_vars(VerifyReceipt) /\ WF_vars(VerifyRecord)

\* A network that delivers, as that of the tests on one machine: announced
\* receipts reach the originator whenever it listens, and a query is answered
\* with what was announced whenever the answer can be taken.
HearReceipt == InSelect /\ \E m \in net : OnReceiptAvailable(m)
AnswerArrives == query.pc = "fetch" /\ KademliaFinds(query.of.content)
DeliverySpec == FairSpec /\ SF_vars(HearReceipt) /\ SF_vars(AnswerArrives)

-----------------------------------------------------------------------------
(* Properties.                                                              *)

TypeOK ==
    /\ originated \subseteq Jobs /\ ToSet(queue) \subseteq Jobs
    /\ topics \subseteq originated
    /\ \A e \in Executors : assigned[e] \subseteq available[e] \cup Jobs
    /\ \A j \in Jobs :
          /\ ToSet(bids[j]) \subseteq [bidder : Executors, price : Prices]
          /\ deliveries[j] \in 0 .. MaxDeliveries /\ issued[j] \in Nat
    /\ query.pc \in {"select", "fetch", "verify"} /\ alive \in BOOLEAN
    /\ ~alive => policy.kind = "score"
    /\ \A r \in verified : r \in PeerRecords /\ r.issuer \in Resolvable

\* The bids as the abstract job sees them: what the originator has received.
Offered == [j \in Jobs |-> {<<b.bidder, b.price>> : b \in ToSet(bids[j])}]

\* Who holds a receipt for a job.
Executed == {<<r.job, r.executor>> : r \in UNION {receipts[e] : e \in Executors}}

Lifecycle == INSTANCE JobLifecycle
    WITH announced <- originated, winner <- assignedBy, offered <- Offered,
         executed <- Executed, payments <- paid

\* Gossip lost, repeated and reordered, selections that are retried and DHT
\* answers that are wrong still implement the promised life of a job: it goes
\* to one bidder, and whoever is paid has executed it and is paid a price it bid.
ImplementsLifecycle == Lifecycle!LSpec

\* The claim of tests/full_job_lifecycle.rs: once an executor has announced the
\* receipt of an own job, the originator fetches and verifies it, so that it is
\* settled and scored.
ReceiptFetched ==
    \A j \in Jobs :
        (j \in originated /\ \E m \in net : m.type = "ReceiptAvailable" /\ m.job = j)
            ~> deliveries[j] > 0

\* Under a policy with a price cap and a weight for the price, the winner is
\* never dearer than another admitted bid of a bidder with the same reputation
\* or a better one.
CapPrefersCheaper ==
    policy.kind = "policy" =>
        \A j \in OpenJobs : LET ok == Admitted(policy, bids[j]) IN
            ok # {} /\ policy.cap # Nobody /\ policy.priceWeight > 0 =>
                LET won == BestByPolicy(policy, bids[j])
                IN  \A i \in ok : ReputationOf(bids[j][i].bidder) >= ReputationOf(won.bidder)
                                      => won.price <= bids[j][i].price

\* The tasks of one kind that a job has left.
Pending(j, what) == {i \in DOMAIN tasks : tasks[i].job = j /\ tasks[i].what = what}

\* A receipt that gossip delivers again is settled again, but never more often
\* than it was verified: each verified delivery leads to at most one reputation
\* record and at most one payment.
SettledPerDelivery ==
    \A j \in Jobs :
        /\ Len(paid[j]) + Cardinality(Pending(j, "settle")) <= deliveries[j]
        /\ issued[j] + Cardinality(Pending(j, "reputation")) <= deliveries[j]

\* A query never holds the node up for ever.
LoopResumes == query # Idle ~> query = Idle

\* A delivery is counted, settled and scored once at most, and only for a job
\* of the own (node.rs, from ExecutionReceiptAvailableV1 to the two tasks).
WorkAccounted == TypeOK /\ SettledPerDelivery

=============================================================================
