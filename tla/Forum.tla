------------------------------- MODULE Forum -------------------------------
(***************************************************************************)
(* The InMemoryStore of icn-agoranet (handlers.rs) that is not the ledger:   *)
(* the threads, proposals and votes of the deliberation endpoints, each      *)
(* handler one step under the store's RwLock, and the receipts, balances and *)
(* transactions that the organisation-scoped endpoints filter and sum up.    *)
(* Those three lists are filled when the store is made and never change.     *)
(***************************************************************************)
EXTENDS Naturals, Integers, Sequences, FiniteSets, Functions

CONSTANTS
    Voters,
    VoteTypes,     \* Approve, Reject, Abstain
    Deadlines,     \* voting deadlines a proposal may be given, or the default
    Receipts,      \* sequence of [executor, coop, comm, usage]
    Balances,      \* sequence of [did, coop, comm]
    Transactions,  \* sequence of [from, to, amount, op, coops, comms]
    NoOrg,         \* an organisation that is not given
    ExampleVotes,  \* the votes the store starts with
    ExampleCounts, \* and the counts its proposal starts with
    MaxProposals, MaxThreads

\* whoever votes, or has voted when the store is made
Electorate == Voters \cup {ExampleVotes[i].voter : i \in DOMAIN ExampleVotes}

ASSUME ForumAssumption ==
    /\ MaxProposals \in Nat /\ MaxThreads \in Nat \ {0} /\ Deadlines \subseteq Nat
    /\ ExampleCounts \in [VoteTypes -> Nat]
    /\ ExampleVotes \in Seq([proposal : {1}, voter : Electorate, type : VoteTypes, at : Nat])
    /\ \A i, j \in DOMAIN ExampleVotes : ExampleVotes[i].voter = ExampleVotes[j].voter => i = j
    /\ \A i \in DOMAIN ExampleVotes, d \in Deadlines : ExampleVotes[i].at <= d
    /\ IsFiniteSet(DOMAIN Receipts) /\ \A i \in DOMAIN Receipts : Receipts[i].usage \in Nat
    /\ IsFiniteSet(DOMAIN Transactions) /\ \A i \in DOMAIN Transactions : Transactions[i].amount \in Nat

VARIABLES
    threads,    \* number of threads
    proposals,  \* sequence of [status, counts, deadline]
    votes,      \* sequence of [proposal, voter, type, at]
    answer      \* what a scoped endpoint answered in the last step, if one did

fvars == <<threads, proposals, votes, answer>>
forum == <<threads, proposals, votes>>

NoCounts == [v \in VoteTypes |-> 0]

NoAnswer == [coop |-> NoOrg, comm |-> NoOrg, list |-> {}, total |-> 0, perExecutor |-> <<>>,
             avg |-> 0, balances |-> {}, txs |-> {}, minted |-> 0, burnt |-> 0, volume |-> 0, active |-> 0]

\* InMemoryStore::new: one open proposal, whose counts are not those of its two votes
ForumInit ==
    /\ threads = 1
    /\ \E d \in Deadlines : proposals = <<[status |-> "Open", counts |-> ExampleCounts, deadline |-> d]>>
    /\ votes = ExampleVotes
    /\ answer = NoAnswer

-----------------------------------------------------------------------------
(* Deliberation. *)

\* create_thread_handler, for an author that is a DID
CreateThread ==
    /\ threads < MaxThreads
    /\ threads' = threads + 1
    /\ UNCHANGED <<proposals, votes>>

CreateProposal(deadline) ==
    /\ Len(proposals) < MaxProposals
    /\ proposals' = Append(proposals, [status |-> "Open", counts |-> NoCounts, deadline |-> deadline])
    /\ UNCHANGED <<threads, votes>>

HasVoted(p, v) == \E i \in DOMAIN votes : votes[i].proposal = p /\ votes[i].voter = v

\* mutant: the count is raised before the deadline is looked at
CountsLateVote(p, v, type, now, stamp) ==
    /\ ~ HasVoted(p, v)
    /\ proposals[p].status = "Open"
    /\ IF now > proposals[p].deadline
       THEN /\ proposals' = [proposals EXCEPT ![p].status = "Closed", ![p].counts[type] = @ + 1]
            /\ UNCHANGED votes
       ELSE /\ proposals' = [proposals EXCEPT ![p].counts[type] = @ + 1]
            /\ votes' = Append(votes, [proposal |-> p, voter |-> v, type |-> type, at |-> stamp])
    /\ UNCHANGED threads

\* cast_vote_handler: a vote after the deadline closes the proposal and is refused.  The
\* clock is read twice, for the deadline and for the stamp of the vote
CastVote(p, v, type, now, stamp) ==
    /\ ~ HasVoted(p, v)
    /\ proposals[p].status = "Open"
    /\ IF now > proposals[p].deadline
       THEN /\ proposals' = [proposals EXCEPT ![p].status = "Closed"]
            /\ UNCHANGED votes
       ELSE /\ proposals' = [proposals EXCEPT ![p].counts[type] = @ + 1]
            /\ votes' = Append(votes, [proposal |-> p, voter |-> v, type |-> type, at |-> stamp])
    /\ UNCHANGED threads

\* get_proposal_votes_handler; a list of items of the store is the set of their positions
ProposalVotes(p) == {i \in DOMAIN votes : votes[i].proposal = p}

-----------------------------------------------------------------------------
(* Organisation-scoped views. *)

\* an organisation filter: not given, or equal to what the item carries
Matches(filter, org) == filter \in {NoOrg, org}

FilterReceipts(coop, comm) ==
    {i \in DOMAIN Receipts : Matches(coop, Receipts[i].coop) /\ Matches(comm, Receipts[i].comm)}

FilterTokenBalances(coop, comm) ==
    {i \in DOMAIN Balances : Matches(coop, Balances[i].coop) /\ Matches(comm, Balances[i].comm)}

\* a transaction belongs to the organisations of both its sides
FilterTokenTransactions(coop, comm) ==
    {i \in DOMAIN Transactions : /\ coop = NoOrg \/ coop \in Transactions[i].coops
                                 /\ comm = NoOrg \/ comm \in Transactions[i].comms}

Usages(list) == SumFunctionOnSet([i \in DOMAIN Receipts |-> Receipts[i].usage], list)
Amounts(txs) == SumFunctionOnSet([i \in DOMAIN Transactions |-> Transactions[i].amount], txs)

\* get_receipt_stats: its own copy of the filter, a count per executor, averages rounded down
ReceiptStats(coop, comm) ==
    LET mine  == {i \in DOMAIN Receipts : Matches(coop, Receipts[i].coop) /\ Matches(comm, Receipts[i].comm)}
        total == Cardinality(mine) IN
    [total       |-> total,
     perExecutor |-> [x \in {Receipts[i].executor : i \in mine} |->
                          Cardinality({i \in mine : Receipts[i].executor = x})],
     avg         |-> IF total > 0 THEN Usages(mine) \div total ELSE 0]

\* get_token_stats: volume counts every operation, minted and burnt one each
TokenStats(coop, comm) ==
    LET mine == {i \in DOMAIN Transactions : /\ coop = NoOrg \/ coop \in Transactions[i].coops
                                             /\ comm = NoOrg \/ comm \in Transactions[i].comms} IN
    [minted |-> Amounts({i \in mine : Transactions[i].op = "mint"}),
     burnt  |-> Amounts({i \in mine : Transactions[i].op = "burn"}),
     volume |-> Amounts(mine),
     active |-> Cardinality(UNION {{Transactions[i].from, Transactions[i].to} : i \in mine})]

\* the authorised endpoints for receipts, balances, transactions and statistics answer
\* from the same store under a read lock; here one request reads them all
Answer(coop, comm) ==
    /\ LET rs == ReceiptStats(coop, comm)
           ts == TokenStats(coop, comm) IN
       answer' = [coop |-> coop, comm |-> comm, list |-> FilterReceipts(coop, comm),
                  total |-> rs.total, perExecutor |-> rs.perExecutor, avg |-> rs.avg,
                  balances |-> FilterTokenBalances(coop, comm), txs |-> FilterTokenTransactions(coop, comm),
                  minted |-> ts.minted, burnt |-> ts.burnt, volume |-> ts.volume, active |-> ts.active]
    /\ UNCHANGED forum

-----------------------------------------------------------------------------
(* Properties. *)

ForumTypeOK ==
    /\ threads \in 0..MaxThreads
    /\ \A p \in DOMAIN proposals : /\ proposals[p].status \in {"Open", "Closed"}
                                   /\ \A t \in VoteTypes : proposals[p].counts[t] \in Nat

\* what the example proposal counts without a vote behind it
Unbacked(p, t) ==
    IF p = 1 THEN ExampleCounts[t] - Cardinality({i \in DOMAIN ExampleVotes : ExampleVotes[i].type = t})
             ELSE 0

\* The counts shown with a proposal are the votes recorded for it, by type, and nobody is
\* counted twice (cast_vote_handler keeps counts and votes in two places; the example
\* proposal starts with four approvals no vote stands for).
CountsAreVotes ==
    \A p \in DOMAIN proposals, t \in VoteTypes :
        LET cast == {i \in ProposalVotes(p) : votes[i].type = t} IN
        /\ proposals[p].counts[t] = Unbacked(p, t) + Cardinality(cast)
        /\ Cardinality({votes[i].voter : i \in cast}) = Cardinality(cast)

\* The outcome of a proposal is fixed by its deadline: no count changes after it, though
\* the proposal is listed as Open until somebody tries to vote, and a vote accepted at the
\* deadline may carry a stamp one reading of the clock past it.
OutcomeFixedAtDeadline ==
    \A i \in DOMAIN votes : votes[i].at <= proposals[votes[i].proposal].deadline + 1

\* The two statistics endpoints agree with the lists of the same scope: they filter with
\* code of their own (get_receipt_stats, get_token_stats, filter_receipts).
StatsAgreeWithLists ==
    /\ answer.total = Cardinality(answer.list)
    /\ answer.total = SumFunctionOnSet(answer.perExecutor, DOMAIN answer.perExecutor)
    /\ answer.volume = Amounts(answer.txs)
    /\ answer.minted + answer.burnt <= answer.volume
    /\ answer.avg * answer.total <= Usages(answer.list)

\* Votes, counts and statistics say the same of a proposal and of a scope
\* (cast_vote_handler, the scoped receipt and token handlers).
ForumSound ==
    ForumTypeOK /\ CountsAreVotes /\ OutcomeFixedAtDeadline /\ StatsAgreeWithLists

=============================================================================
