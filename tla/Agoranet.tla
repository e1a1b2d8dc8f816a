------------------------------ MODULE Agoranet ------------------------------
(***************************************************************************)
(* The icn-agoranet service without its transfer ledger: the access tokens   *)
(* (AccessTokens), the deliberation store (Forum) and the WebSocket hub      *)
(* (EventHub) behind one router (app.rs), on one clock.  The scoped          *)
(* endpoints and the WebSocket upgrade rely on the tokens; the deliberation  *)
(* endpoints ask for none.                                                  *)
(*                                                                         *)
(* The extractor needs the JWT configuration and the revocation store as     *)
(* request extensions; create_app installs neither.  The model is of a       *)
(* deployment that does, as the repository's tests expect.                  *)
(***************************************************************************)
EXTENDS AccessTokens, Forum, EventHub

CONSTANTS Coops, Communities

vars == <<tvars, fvars, hvars>>

Init == TokenInit /\ ForumInit /\ HubInit

-----------------------------------------------------------------------------

\* no token is used and no scoped endpoint answers
Quiet ==
    /\ answer' = NoAnswer
    /\ UNCHANGED <<now, expected, tokens, store, request>>

Given(org) == {org} \ {NoOrg}

\* the five *_authorized endpoints
Endpoints == {"receipts", "balances", "transactions", "receipt_stats", "token_stats"}

\* get_token_transactions_authorized asks for the operator role of a cooperative when no
\* community is named
OperatorIfCoop(t, coop, comm) ==
    coop # NoOrg /\ comm = NoOrg => HasRole(t, coop, "coop_operator")

\* the queries of a scope that an endpoint answers for a token: the statistics look at the
\* federation of the query too, the transactions at the operator's role
Readable(t, coop, comm) ==
    {q \in [endpoint : Endpoints, fed : Federations \cup {NoOrg}] :
        /\ HasOrgScopeAccess(t, IF q.endpoint \in {"receipt_stats", "token_stats"} THEN Given(q.fed) ELSE {},
                             Given(coop) \cup Given(comm))
        /\ q.endpoint = "transactions" => OperatorIfCoop(t, coop, comm)}

\* Answer computes every view of the scope; the endpoint returns its own
ReadScoped(c, coop, comm) ==
    /\ Serve(c)
    /\ Readable(request[c].tok, coop, comm) # {}
    /\ Answer(coop, comm)
    /\ UNCHANGED <<tokens, store, calls, hvars>>

\* a request that its endpoint refuses for want of access or of a role
Forbidden(c) ==
    /\ Serve(c)
    /\ answer' = NoAnswer
    /\ UNCHANGED <<tokens, store, calls, forum, hvars>>

\* process_token_transfer and process_community_governance_action: placeholders that only
\* look at the role
OrgOperation(c, org, role) ==
    /\ Serve(c)
    /\ HasRole(request[c].tok, org, role)
    /\ answer' = NoAnswer
    /\ UNCHANGED <<tokens, store, calls, forum, hvars>>

ScopePart(org) == IF org = NoOrg THEN <<>> ELSE <<org>>

\* websocket_handler: the scope must be a chain of organisations; a token is optional and,
\* when given, validated, but not looked up in the revocation store
Connect(c, t, fed, coop, comm) ==
    /\ comm # NoOrg => coop # NoOrg
    /\ coop # NoOrg => fed # NoOrg
    /\ t # 0 => ValidateToken(t) /\ HasOrgScopeAccess(t, Given(fed), Given(coop) \cup Given(comm))
    /\ BuildChannelName(ScopePart(fed), ScopePart(coop), ScopePart(comm)) \in Scopes
    /\ Subscribe(c, BuildChannelName(ScopePart(fed), ScopePart(coop), ScopePart(comm)))
    /\ Quiet /\ UNCHANGED forum

\* bound: calls of every kind count against MaxCalls
Counted == calls < MaxCalls /\ calls' = calls + 1

Deliberate ==
    /\ \/ CreateThread
       \/ \E d \in Deadlines : CreateProposal(d)
       \/ \E p \in DOMAIN proposals, v \in Voters, t \in VoteTypes, stamp \in {now, now + 1} :
             CastVote(p, v, t, now, stamp)
    /\ Counted
    /\ Quiet /\ UNCHANGED hvars

Publish ==
    /\ \E s \in Scopes : Simulate(s) \/ SendEventToChannel(s)
    /\ Counted
    /\ Quiet /\ UNCHANGED forum

Deliver ==
    /\ BroadcastToChannel \/ \E c \in Clients : Forward(c) \/ Lagged(c) \/ Disconnect(c)
    /\ Quiet /\ UNCHANGED <<calls, forum>>

Next ==
    \/ TokenNext /\ answer' = NoAnswer /\ UNCHANGED <<forum, hvars>>
    \/ \E c \in Conns :
          \/ Forbidden(c)
          \/ \E coop \in Coops \cup {NoOrg}, comm \in Communities \cup {NoOrg} : ReadScoped(c, coop, comm)
          \/ \E org \in Coops : OrgOperation(c, org, "coop_operator")
          \/ \E org \in Communities : OrgOperation(c, org, "community_official")
    \/ /\ \E c \in Clients, t \in Jtis \cup {0}, fed \in Federations \cup {NoOrg},
              coop \in Coops \cup {NoOrg}, comm \in Communities \cup {NoOrg} : Connect(c, t, fed, coop, comm)
       /\ Counted
    \/ Deliberate
    \/ Publish
    \/ Deliver

Spec == Init /\ [][Next]_vars
=============================================================================
