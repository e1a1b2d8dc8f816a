----------------------------- MODULE MCAgoranet -----------------------------
(***************************************************************************)
(* A small instance of icn-agoranet: tokens, deliberation and channels, and    *)
(* beside them the endpoints of the in-memory ledger, which check tokens but   *)
(* share no state with the rest.  Each behaviour is one of the two.           *)
(***************************************************************************)
EXTENDS Agoranet, TransferApi, TLC

CONSTANT Parts

VARIABLE part

\* The ledger does not ask for the issuer that the server expects.
MCInit ==
    /\ part \in Parts
    /\ Init /\ ApiInit
    /\ part = "ledger" => expected = AnyIssuer

\* The deliberations, the channels and the administration of tokens share the clock and
\* the tokens the instance starts with, nothing else: they are explored one at a time,
\* and the last with one call fewer.
Administered == ever # {} \/ Len(tokens) > Len(Roots) \/ \E c \in Conns : request[c] # NoRequest
Deliberated == threads > 1 \/ Len(proposals) > 1 \/ Len(votes) > Len(ExampleVotes)
Announced == events > 0 \/ \E c \in Clients : conn[c].on
OneConcern ==
    /\ ~ (Administered /\ Deliberated) /\ ~ (Administered /\ Announced)
    /\ ~ (Deliberated /\ Announced)
    /\ Administered => calls < MaxCalls

MCNext ==
    /\ \/ part = "forum" /\ Next /\ OneConcern' /\ UNCHANGED apiVars
       \/ part = "ledger" /\ ApiNext /\ UNCHANGED vars
    /\ UNCHANGED part

MCSpec == MCInit /\ [][MCNext]_<<vars, apiVars, part>>

-----------------------------------------------------------------------------
CONSTANTS f1, f2, coop, comm, adm, usr, k1, k2, v1, v2, v3, w

\* an administrator's token of f1 that also works for the cooperative, and a member's
\* token that was signed without a jti
MCRoots ==
    <<[sub |-> adm, iss |-> Service, exp |-> 9, feds |-> {f1}, orgs |-> {coop, comm},
       roles |-> {<<f1, "federation_admin">>, <<coop, "coop_operator">>},
       by |-> {f1}, jti |-> "some", replaces |-> 0],
      [sub |-> usr, iss |-> Service, exp |-> 1, feds |-> {}, orgs |-> {comm}, roles |-> {},
       by |-> {}, jti |-> "none", replaces |-> 0]>>

\* an administrator's token, and three that reach for the other federation's administration
\* or are for nobody
MCGrants ==
    {[sub |-> usr, life |-> 9, feds |-> {f1}, orgs |-> {}, roles |-> {<<f1, "federation_admin">>}],
     [sub |-> usr, life |-> 0, feds |-> {f1}, orgs |-> {comm},
        roles |-> {<<f2, "federation_admin">>, <<comm, "community_official">>}],
     [sub |-> usr, life |-> 9, feds |-> {f2}, orgs |-> {}, roles |-> {<<f2, "federation_admin">>}],
     [sub |-> BadSubject, life |-> 9, feds |-> {}, orgs |-> {}, roles |-> {}]}

MCScopes == {<<>>, <<f1>>, <<f1, coop>>, <<f1, coop, comm>>}

\* InMemoryStore::new, amounts in hundreds
MCReceipts ==
    <<[executor |-> "node1", coop |-> NoOrg, comm |-> NoOrg, usage |-> 25],
      [executor |-> "node2", coop |-> coop, comm |-> NoOrg, usage |-> 30],
      [executor |-> "node3", coop |-> coop, comm |-> comm, usage |-> 15]>>

MCBalances ==
    <<[did |-> "user1", coop |-> NoOrg, comm |-> NoOrg], [did |-> "user1", coop |-> coop, comm |-> NoOrg],
      [did |-> "user1", coop |-> coop, comm |-> comm], [did |-> "user2", coop |-> NoOrg, comm |-> NoOrg],
      [did |-> "user2", coop |-> coop, comm |-> NoOrg]>>

MCTransactions ==
    <<[from |-> "treasury", to |-> "user1", amount |-> 10, op |-> "mint", coops |-> {}, comms |-> {}],
      [from |-> "user1", to |-> "user2", amount |-> 5, op |-> "transfer", coops |-> {coop}, comms |-> {}],
      [from |-> "user2", to |-> "treasury", amount |-> 2, op |-> "burn", coops |-> {coop}, comms |-> {comm}]>>

MCVoteTypes == {"Approve", "Reject"}

MCExampleCounts == [t \in MCVoteTypes |-> IF t = "Approve" THEN 5 ELSE 1]

MCExampleVotes == <<[proposal |-> 1, voter |-> v1, type |-> "Approve", at |-> 0],
                    [proposal |-> 1, voter |-> v2, type |-> "Reject", at |-> 0]>>

\* what a read answered is gone with the next step
MCBounded == part = "ledger" \/ answer = NoAnswer

\* the connections are interchangeable, and so are the callers
MCSymmetry == Permutations(Conns) \cup Permutations(Callers)

-----------------------------------------------------------------------------
Entity(type, id) == [type |-> type, id |-> id]

Coop == Entity("Cooperative", "coop")
Town == Entity("Community", "town")
Ann == Entity("User", "ann")
Bea == Entity("User", "bea")

MCEntities == {Coop, Town, Ann, Bea}

\* Enough for one transfer with its fee, not always for two.
MCOpening == [e \in MCEntities |-> CASE e = Coop -> 2003 [] e = Ann -> 1001 [] OTHER -> 0]

\* The community is in another federation than the cooperative.
MCRegistry == "coop" :> "f1" @@ "town" :> "f2"

\* Ann runs the cooperative, Bea has nothing but her own account.
MCClaims ==
    {[sub |-> "ann", federations |-> {"f1", "f2"}, roles |-> {"coop"}],
     [sub |-> "bea", federations |-> {"f1"}, roles |-> {}]}

Ask(from, to, amount) == [from |-> from, to |-> to, amount |-> amount]

MCRequests ==
    {Ask(Coop, Ann, 1000), Ask(Ann, Bea, 1000), Ask(Bea, Ann, 400), Ask(Ann, Ann, 400),
     Ask(Ann, Town, 1000), Ask(Coop, Bea, 0)}

MCBatchBodies ==
    {<<Ask(Coop, Ann, 1000), Ask(Ann, Bea, 1000)>>,
     <<Ask(Ann, Bea, 1000), Ask(Coop, Town, 1000), Ask(Ann, Town, 400)>>}

\* Every transfer the endpoints can prepare.
MCTransfers ==
    {[from |-> r.from, to |-> r.to, amount |-> r.amount,
      fee |-> CalculateFee(r.amount, r.from, r.to)] :
        r \in MCRequests \cup {Ask(Coop, Town, 1000), Ask(Ann, Town, 400)}}

=============================================================================
