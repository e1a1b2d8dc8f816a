----------------------------- MODULE BidSelection -----------------------------
(***************************************************************************)
(* How the job service picks an executor: assign_best_bid_handler reads the   *)
(* job, lists its bids and lets the selector of the job's policy choose.  The  *)
(* scoring selectors fetch every bidder's profile from the reputation service  *)
(* (Reputation) through a CachingReputationClient made for the request: Hybrid *)
(* first to filter by min_reputation, then again to score.                   *)
(*                                                                         *)
(* Every await is a step: other requests run, the service goes on taking       *)
(* records, cached profiles age, and the HTTP client gives up after            *)
(* HttpTimeout.  Scores are integers: weights in per cent of thousandths.     *)
(* The status is what the selection needs of it; JobService has the rest.     *)
(***************************************************************************)
EXTENDS Reputation

CONSTANTS
    Requests,    \* POST /jobs/:job_id/assign_bid in flight
    MeshJobs,
    RequiredMana,\* job -> required_mana or NoValue
    Price,       \* subject -> price_atto_icn
    Offer, Need, \* subject, job -> cpu, memory and storage
    Policy,      \* job -> min_reputation, selection_strategy, price_weight, rep_weight
    TTL, HttpTimeout,
    MaxNow, MaxBids      \* bounds, for model checking

ASSUME SelectionAssumption ==
    /\ TTL \in Nat \ {0} /\ HttpTimeout \in Nat /\ MaxNow \in Nat
    /\ MaxBids \in [MeshJobs -> Nat]
    /\ \A j \in MeshJobs :
           /\ Policy[j].strategy \in {"LowestPrice", "Reputation", "Hybrid"}
           /\ Policy[j].price \in Nat /\ Policy[j].rep \in Nat
    /\ Price \in [Subjects -> Nat]
    /\ \A s \in Subjects : Offer[s] \in [1..3 -> Nat]
    /\ \A j \in MeshJobs : Need[j] \in [1..3 -> Nat]
    /\ NoValue \notin [bidder : Subjects, score : Int]

VARIABLES
    now,         \* the monotonic clock
    status,      \* job -> status
    bids,        \* job -> bidders in the order of their bids
    sel          \* request -> where its handler is

selVars == <<now, status, bids, sel>>
allVars == <<repVars, selVars>>

Waiting == [pc |-> "idle"]

SelInit ==
    /\ RepInit
    /\ now = 0
    /\ status = [j \in MeshJobs |-> "Bidding"]
    /\ bids = [j \in MeshJobs |-> <<>>]
    /\ sel = [q \in Requests |-> Waiting]

\* Time cannot pass the moment at which reqwest gives a request up.
Tick ==
    /\ now < MaxNow
    /\ \A q \in Requests : sel[q].pc = "fetch" => now < sel[q].start + HttpTimeout
    /\ now' = now + 1
    /\ UNCHANGED <<repVars, status, bids, sel>>

\* insert_bid; a bidder may bid again, and the bound is MaxBids.
InsertBid(j, s) ==
    /\ Len(bids[j]) < MaxBids[j]
    /\ bids' = [bids EXCEPT ![j] = Append(@, s)]
    /\ UNCHANGED <<repVars, now, status, sel>>

-----------------------------------------------------------------------------
(* Scores.                                                                  *)

\* The profile that stands for a bidder without one: computed_score is 50.0,
\* five times the top of the service's scale.
DefaultProfile == [NewProfile EXCEPT !.score = 50000]

\* calculate_resource_match, in thousandths.
ResourceMatch(offer, need) ==
    LET Part(i) == IF offer[i] >= need[i] THEN 1000 ELSE (1000 * offer[i]) \div need[i]
    IN  (Part(1) + Part(2) + Part(3)) \div 3

\* The handler's weights, or the policy's: what those leave, if anything, is
\* shared by resources and timeliness.
BidWeights(j) ==
    LET p == Policy[j]
        rest == IF p.price + p.rep < 100 THEN (100 - p.price - p.rep) \div 2 ELSE 0
    IN  IF p.strategy = "Hybrid"
        THEN [price |-> p.price, resources |-> rest, reputation |-> p.rep, timeliness |-> rest]
        ELSE [price |-> 40, resources |-> 20, reputation |-> 30, timeliness |-> 10]

\* calculate_bid_score: computed_score / 100 whatever its scale.
BidScore(w, p, normalized, match) ==
    w.price * (1000 - normalized) + w.resources * match
        + w.reputation * (p.score \div 100)
        + w.timeliness * (IF p.successful > 0 THEN (1000 * p.on_time) \div p.successful ELSE 500)

MaxPrice(list) == Max({Price[list[i]] : i \in DOMAIN list})

Normalized(list, s) ==
    IF MaxPrice(list) > 0 THEN (1000 * Price[s]) \div MaxPrice(list) ELSE 0

\* No profile of the service carries a mana_state: a job that asks for mana
\* disqualifies every bidder.
HasMana(j, p) == RequiredMana[j] = NoValue

Better(score, best) == best = NoValue \/ score > best.score

\* One iteration of ReputationExecutorSelector::select.
Scored(s, p) ==
    LET who == s.list[s.i]
        profile == IF p = NoValue THEN DefaultProfile ELSE p
        score == BidScore(BidWeights(s.job), profile, Normalized(s.list, who),
                          ResourceMatch(Offer[who], Need[s.job]))
        eligible == HasMana(s.job, profile) /\ score >= 0
    IN  [s EXCEPT !.best = IF eligible /\ Better(score, @)
                           THEN [bidder |-> who, score |-> score] ELSE @,
                  !.scores = Append(@, IF eligible THEN score ELSE -1),
                  !.unknown = @ \/ p = NoValue]

\* LowestPriceExecutorSelector::select: the first of the cheapest.
LowestPrice(list) ==
    LET first == CHOOSE i \in DOMAIN list :
                     \A k \in DOMAIN list :
                         /\ Price[list[i]] <= Price[list[k]]
                         /\ Price[list[i]] = Price[list[k]] => i <= k
    IN  [bidder |-> list[first], score |-> 1000]

-----------------------------------------------------------------------------
(* The selectors, one bidder at a time.                                     *)

Conclude(s, best) == [s EXCEPT !.pc = "conclude", !.best = best]

Scoring(s, list) == [s EXCEPT !.pc = "score", !.list = list, !.i = 1]

\* Only the hybrid selector looks at min_reputation.
HasMinimum(j) == Policy[j].strategy = "Hybrid" /\ Policy[j].min # NoValue

\* The selector that the handler makes for the job's policy sets out.
Selector(s) ==
    IF Policy[s.job].strategy = "LowestPrice" THEN Conclude(s, LowestPrice(s.list))
    ELSE IF HasMinimum(s.job) THEN s
    ELSE Scoring(s, s.list)

Passes(j, p) == p # NoValue /\ p.score >= Policy[j].min

\* Mutant: the filter looks at the same bidder again.
FilteredStuck(s, p) ==
    LET kept == IF Passes(s.job, p) THEN Append(s.kept, s.list[s.i]) ELSE s.kept
    IN  IF s.i < Len(s.list) THEN s
        ELSE IF kept = <<>> THEN Conclude(s, NoValue)
        ELSE Scoring([s EXCEPT !.kept = kept], kept)

Filtered(s, p) ==
    LET kept == IF Passes(s.job, p) THEN Append(s.kept, s.list[s.i]) ELSE s.kept
    IN  IF s.i < Len(s.list) THEN [s EXCEPT !.i = @ + 1, !.kept = kept]
        ELSE IF kept = <<>> THEN Conclude(s, NoValue)
        ELSE Scoring([s EXCEPT !.kept = kept], kept)

\* What fetch_profile answered moves the selector on.
Advance(s, p) ==
    IF s.pc = "filter" THEN Filtered(s, p)
    ELSE LET scored == Scored(s, p)
         IN  IF s.i < Len(s.list) THEN [scored EXCEPT !.i = @ + 1]
             ELSE Conclude(scored, scored.best)

-----------------------------------------------------------------------------
(* assign_best_bid_handler.                                                 *)

Goto(q, s) == sel' = [sel EXCEPT ![q] = s]

\* get_job; a job that is not Bidding is refused.
ReadJob(q, j) ==
    /\ sel[q] = Waiting
    /\ status[j] = "Bidding"
    /\ Goto(q, [pc |-> "list", job |-> j])
    /\ UNCHANGED <<repVars, now, status, bids>>

NoProfiles == [s \in Subjects |-> NoValue]

\* list_bids, and a client whose cache is empty; a job without bids is an error.
ListBids(q) ==
    /\ sel[q].pc = "list"
    /\ LET j == sel[q].job
           s == [pc |-> "filter", job |-> j, list |-> bids[j], i |-> 1, kept |-> <<>>,
                 best |-> NoValue, scores |-> <<>>, unknown |-> FALSE, age |-> 0,
                 cache |-> NoProfiles]
       IN  Goto(q, IF bids[j] = <<>> THEN Waiting ELSE Selector(s))
    /\ UNCHANGED <<repVars, now, status, bids>>

\* No acceptable bid: NotFound, and the job stays as it is.
NoWinner(q) ==
    /\ sel[q].pc = "conclude" /\ sel[q].best = NoValue
    /\ Goto(q, Waiting)
    /\ UNCHANGED <<repVars, now, status, bids>>

\* assign_job writes the row whatever it holds by now.
AssignJob(q) ==
    /\ sel[q].pc = "conclude" /\ sel[q].best # NoValue
    /\ status' = [status EXCEPT ![sel[q].job] = "Assigned"]
    /\ Goto(q, [pc |-> "notify"])
    /\ UNCHANGED <<repVars, now, bids>>

\* The mesh node's lock and its assign_job: with an error or without, the
\* request ends and the row stays assigned.
NotifyMesh(q) ==
    /\ sel[q].pc = "notify"
    /\ Goto(q, Waiting)
    /\ UNCHANGED <<repVars, now, status, bids>>

\* An await fails (the store, an HTTP error, the timeout), or the client has
\* gone and axum drops the handler.
AbandonRequest(q) ==
    /\ sel[q].pc \in {"list", "fetch", "conclude", "notify"}
    /\ Goto(q, Waiting)
    /\ UNCHANGED <<repVars, now, status, bids>>

-----------------------------------------------------------------------------
(* CachingReputationClient::fetch_profile over HTTP.                         *)

\* Mutant: an entry never expires.
FreshForever(entry) == entry # NoValue

Fresh(entry) == entry # NoValue /\ now - entry.at < TTL

Bidder(s) == s.list[s.i]

Aged(s, asof) == [s EXCEPT !.age = IF now - asof > @ THEN now - asof ELSE @]

CacheHit(q) ==
    /\ sel[q].pc \in {"filter", "score"}
    /\ LET s == sel[q]
           entry == s.cache[Bidder(s)]
       IN  /\ Fresh(entry)
           /\ Goto(q, Advance(Aged(s, entry.asof), entry.profile))
    /\ UNCHANGED <<repVars, now, status, bids>>

CacheMiss(q) ==
    /\ sel[q].pc \in {"filter", "score"}
    /\ ~Fresh(sel[q].cache[Bidder(sel[q])])
    /\ Goto(q, [pc |-> "fetch", start |-> now, read |-> "no", caller |-> sel[q]])
    /\ UNCHANGED <<repVars, now, status, bids>>

\* get_profile_handler reads the profile; the answer travels.
ServiceReads(q) ==
    /\ sel[q].pc = "fetch" /\ sel[q].read = "no"
    /\ LET c == sel[q].caller
       IN  Goto(q, [pc |-> "fetch", start |-> sel[q].start, read |-> "yes", caller |-> c,
                    profile |-> profiles[Bidder(c)], asof |-> now])
    /\ UNCHANGED <<repVars, now, status, bids>>

\* cache_profile: Instant::now().
CacheTime == now

\* A profile is cached under the time of its arrival; its absence is not.
Cached(s, p, asof) ==
    IF p = NoValue THEN s
    ELSE [s EXCEPT !.cache[Bidder(s)] = [profile |-> p, at |-> CacheTime, asof |-> asof]]

FetchArrives(q) ==
    /\ sel[q].pc = "fetch" /\ sel[q].read = "yes"
    /\ LET f == sel[q]
       IN  Goto(q, Advance(Aged(Cached(f.caller, f.profile, f.asof), f.asof), f.profile))
    /\ UNCHANGED <<repVars, now, status, bids>>

-----------------------------------------------------------------------------
ServiceStep ==
    /\ \/ \E c \in Clients, r \in Record : SubmitLog(c, r)
       \/ \E c \in Clients : SubmitApply(c) \/ RequestDropped(c)
    /\ UNCHANGED selVars

RequestStep(q) ==
    \/ ListBids(q) \/ NoWinner(q) \/ AssignJob(q) \/ NotifyMesh(q) \/ AbandonRequest(q)
    \/ CacheHit(q) \/ CacheMiss(q) \/ FetchArrives(q)

SelNext ==
    \/ ServiceStep \/ Tick
    \/ \E j \in MeshJobs, s \in Subjects : InsertBid(j, s)
    \/ \E q \in Requests, j \in MeshJobs : ReadJob(q, j)
    \/ \E q \in Requests : RequestStep(q) \/ ServiceReads(q)

\* tokio goes on with a handler when an answer or the timeout is there.
SelFairness == \A q \in Requests : WF_allVars(RequestStep(q))

SelSpec == SelInit /\ [][SelNext]_allVars /\ SelFairness

-----------------------------------------------------------------------------
(* Properties.                                                              *)

SelTypeOK ==
    /\ RepTypeOK
    /\ now \in 0 .. MaxNow
    /\ \A j \in MeshJobs : status[j] \in {"Bidding", "Assigned"}
    /\ \A q \in Requests :
           sel[q].pc \in {"idle", "list", "filter", "score", "fetch", "conclude", "notify"}

Selecting(q) == sel[q].pc \in {"filter", "score", "conclude"}

\* No choice rests on a profile read longer ago than the cache's TTL and the
\* client's timeout together, although the cache dates a profile by its
\* arrival and bidders are looked up again between filter and score.
UsedIsRecent ==
    \A q \in Requests : Selecting(q) => sel[q].age < TTL + HttpTimeout \/ sel[q].age = 0

\* The winner is the first among the best eligible scores, whatever changed
\* between the fetches of the bidders.
FirstBestWins ==
    \A q \in Requests :
        Selecting(q) /\ sel[q].best # NoValue /\ Policy[sel[q].job].strategy # "LowestPrice" =>
            \E i \in DOMAIN sel[q].scores :
                /\ sel[q].best = [bidder |-> sel[q].list[i], score |-> sel[q].scores[i]]
                /\ \A k \in DOMAIN sel[q].scores :
                       \/ sel[q].scores[k] < sel[q].scores[i]
                       \/ sel[q].scores[k] = sel[q].scores[i] /\ i <= k

\* With a minimum no bidder is ever scored by the made-up default profile,
\* although the profiles are looked up anew after the filter: the service never
\* forgets a profile.
MinimumExcludesUnknown ==
    \A q \in Requests : Selecting(q) /\ HasMinimum(sel[q].job) => ~sel[q].unknown

\* A job that asks for mana is never assigned by score: the service that
\* answers the selector knows nobody's mana.
ManaJobsUnassigned ==
    \A j \in MeshJobs : RequiredMana[j] # NoValue /\ Policy[j].strategy # "LowestPrice" =>
        status[j] # "Assigned"

\* A request always ends, assigned or with an error, however often its profiles
\* expire and are fetched again (the client's timeout bounds every fetch).
RequestEnds == \A q \in Requests : sel[q] # Waiting ~> sel[q] = Waiting

\* What an assignment rests on: recent profiles, the first best score among the
\* bidders that pass, and no job the selector cannot judge
\* (assign_best_bid_handler and the selectors of job_assignment.rs).
ChoiceSound ==
    /\ SelTypeOK /\ UsedIsRecent /\ FirstBestWins
    /\ MinimumExcludesUnknown /\ ManaJobsUnassigned

=============================================================================
