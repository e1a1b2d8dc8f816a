----------------------------- MODULE MCEvidence ------------------------------
(***************************************************************************)
(* An instance for TLC of the evidence a node keeps and of the choice of an    *)
(* executor by reputation.  The two share no state; each behaviour is one of   *)
(* them.                                                                     *)
(***************************************************************************)
EXTENDS Evidence, BidSelection

CONSTANT Sides

VARIABLE side

MCInit ==
    /\ side \in Sides
    /\ EvidenceInit /\ SelInit
    /\ side = "selection" => part = "store"

MCNext ==
    /\ \/ side = "evidence" /\ EvidenceNext /\ UNCHANGED allVars
       \/ side = "selection" /\ SelNext /\ UNCHANGED evidenceVars
    /\ UNCHANGED side

MCSpec == MCInit /\ [][MCNext]_<<evidenceVars, allVars, side>> /\ Fairness /\ SelFairness

-----------------------------------------------------------------------------
CONSTANTS n1, n2, bad, i1, i2, d1, d2, d3, k1, k2, k3, f1, f2

\* cid() as its tests expect it; it fails for a node that cannot be encoded.
WorkingCid == [n \in Nodes |-> CASE n = n1 -> i1 [] n = n2 -> i2 [] OTHER -> NoCid]

MCKeyOf == [d \in Dids |-> CASE d = d1 -> k1 [] d = d2 -> k2 [] OTHER -> k3]

\* d3 has no weight.
MCWeights == [d \in {d1, d2} |-> IF d = d1 THEN 3 ELSE 1]

MCRules ==
    {[type |-> t, min |-> 0] : t \in {"Majority", "Weighted"}}
      \cup {[type |-> "Threshold", min |-> 2]}

\* Everyone's own key, and for d1 also that of d2.
MCRegistrations == {<<d, MCKeyOf[d]>> : d \in Dids} \cup {<<d1, k2>>}

By(d, form) == [did |-> d, sig |-> Signature(MCKeyOf[d], form)]

\* None, one that repeats itself, one for each bundle, one with a foreign key.
MCProofs ==
    {<<>>, <<By(d1, f1), By(d1, f1)>>, <<By(d1, f1), By(d2, f2)>>,
     <<[did |-> d1, sig |-> Signature(k2, f1)]>>}

-----------------------------------------------------------------------------
SomeEvents ==
    {[kind |-> "JobCompletedSuccessfully", ms |-> 1, on_time |-> TRUE],
     [kind |-> "JobCompletedSuccessfully", ms |-> 4, on_time |-> FALSE],
     [kind |-> "JobFailed"]}
Logs == [s \in Stakes |-> 208]
Limit == [j \in MeshJobs |-> IF j = "j1" THEN 2 ELSE 1]
Mana == [j \in MeshJobs |-> IF j = "j2" THEN 5 ELSE NoValue]
Prices == [s \in Subjects |-> 4]
Offers == [s \in Subjects |-> <<1, 512, 0>>]
Needs == [j \in MeshJobs |-> <<2, 512, 0>>]
Policies == [j \in MeshJobs |->
    [min |-> 2000, price |-> 30, rep |-> 40,
     strategy |-> CASE j = "j1" -> "Hybrid" [] j = "j2" -> "Reputation" [] j = "j3" -> "LowestPrice"]]

Busy == {q \in Requests : sel[q] # Waiting}
Submitting == {c \in Clients : request[c] # NoValue}

\* Jobs with bids.
Wanted == {j \in MeshJobs : bids[j] # <<>>}

Simple(r) == r.issued_at = 1 /\ r.event # CHOOSE e \in Events : e.kind = Success /\ e.ms = 4

\* The service alone with two clients; or the selection for one job that a bid
\* for first, while one client submits; or two selections, while none does.
MCBounded ==
    \/ Busy = {} /\ now = 0 /\ Wanted = {}
    \/ /\ \A s \in Subjects : \A i \in DOMAIN records[s] : Simple(records[s][i])
       /\ Cardinality(Busy) + Cardinality(Submitting) <= 2
       /\ Cardinality(Submitting) <= 1
       /\ Cardinality(Wanted) <= 1
       /\ Cardinality(Busy) = 2 => Wanted = {"j3"}
       /\ \A j \in Wanted : bids[j][1] = "a"

=============================================================================
