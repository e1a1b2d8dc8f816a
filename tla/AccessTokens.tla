---------------------------- MODULE AccessTokens ----------------------------
(***************************************************************************)
(* The bearer tokens of icn-agoranet: what a token may do (auth.rs), the     *)
(* in-memory revocation store with its two indices (auth/revocation.rs), and *)
(* the endpoints with which the administrators of a federation issue, revoke *)
(* and rotate tokens (auth_handlers.rs).                                    *)
(*                                                                         *)
(* A request runs in three steps on its connection: AuthenticateToken        *)
(* validates the token and looks its jti up, LookUpSubject looks its subject *)
(* and issuer up, and the endpoint follows once the rest of the request has  *)
(* been extracted.  Requests of other clients, revocations and the hourly    *)
(* clean-up run between any two of them.                                    *)
(***************************************************************************)
EXTENDS Naturals, Sequences, FiniteSets

CONSTANTS
    Federations,
    Subjects,        \* well-formed DIDs
    BadSubject,      \* a subject that is no DID
    Unknown,         \* the subject "unknown" of a revocation that names none
    Service,         \* the issuer main.rs configures; no endpoint issues under it
    AnyIssuer,       \* no issuer configured: every issuer is accepted
    Grants,          \* bodies of token requests: [sub, life, feds, orgs, roles]
    Roots,           \* tokens signed outside the service, by the holder of the secret; these
                     \* may lack a jti
    Issuers,         \* issuers that the payload of a revocation may name
    Configured,      \* what JwtConfig::issuer may be: Service or AnyIssuer
    Conns,           \* connections; each carries one request at a time
    Leeway,          \* clock skew jsonwebtoken tolerates
    Retention,       \* how long the clean-up keeps a revocation
    MaxNow, MaxTokens, MaxCalls

ASSUME TokenAssumption ==
    /\ {Leeway, Retention, MaxNow, MaxTokens, MaxCalls} \subseteq Nat
    /\ BadSubject \notin Subjects /\ Unknown \notin Subjects
    /\ Service \notin Federations /\ AnyIssuer \notin Federations /\ Service # AnyIssuer
    /\ Configured \subseteq {Service, AnyIssuer}
    /\ Roots \in Seq({Roots[i] : i \in DOMAIN Roots})
    /\ \A i \in DOMAIN Roots, f \in Federations :
           f \in Roots[i].feds /\ <<f, "federation_admin">> \in Roots[i].roles => f \in Roots[i].by
    /\ \A g \in Grants : g.life \in Nat

VARIABLES
    now,        \* the wall clock
    expected,   \* JwtConfig::issuer
    tokens,     \* every token signed so far; its position is its jti
    revoked,    \* InMemoryRevocationStore::revoked_tokens
    jtiIndex,   \* the keys of jti_index
    subjIndex,  \* the entries of subject_issuer_index
    request,    \* the request of each connection, if it has one
    ever,       \* history: every revocation recorded
    calls       \* requests that changed something so far

tvars == <<now, expected, tokens, revoked, jtiIndex, subjIndex, request, ever, calls>>
store == <<revoked, jtiIndex, subjIndex, ever>>

Jtis == DOMAIN tokens

NoRequest == [tok |-> 0, known |-> {}, stage |-> "none", at |-> 0]

TokenInit ==
    /\ now = 0
    /\ expected \in Configured
    /\ tokens = Roots
    /\ revoked = {} /\ jtiIndex = {} /\ subjIndex = {} /\ ever = {}
    /\ request = [c \in Conns |-> NoRequest]
    /\ calls = 0

-----------------------------------------------------------------------------
(* What a token allows. *)

\* ScopeClaims::has_role
HasRole(t, org, role) == <<org, role>> \in tokens[t].roles

\* ScopeClaims::has_org_scope_access; the federations and the other organisations that the
\* request names
HasOrgScopeAccess(t, feds, orgs) == feds \subseteq tokens[t].feds /\ orgs \subseteq tokens[t].orgs

\* ensure_federation_admin
EnsureFederationAdmin(t, f) == HasOrgScopeAccess(t, {f}, {}) /\ HasRole(t, f, "federation_admin")

\* validate_token: signature, expiry and issuer
ValidateToken(t) ==
    /\ now <= tokens[t].exp + Leeway
    /\ expected \in {AnyIssuer, tokens[t].iss}

-----------------------------------------------------------------------------
(* InMemoryRevocationStore.  The write lock on the set is held throughout.   *)

IsRevoked(jti) == jti \in jtiIndex

IsRevokedBySubjectIssuer(sub, iss) == \E e \in subjIndex : e.sub = sub /\ e.iss = iss

AddToIndices(r) ==
    /\ jtiIndex' = jtiIndex \cup {r.jti}
    /\ subjIndex' = subjIndex \cup {r}

\* mutant: a revocation that names no subject is not put in the indices
RevokeUnindexed(r) ==
    /\ revoked' = revoked \cup {r}
    /\ ever' = ever \cup {r}
    /\ IF r \in revoked \/ r.sub = Unknown
       THEN UNCHANGED <<jtiIndex, subjIndex>>
       ELSE AddToIndices(r)

RevokeToken(r) ==
    /\ revoked' = revoked \cup {r}
    /\ ever' = ever \cup {r}
    /\ IF r \in revoked
       THEN UNCHANGED <<jtiIndex, subjIndex>>
       ELSE AddToIndices(r)

\* what remove_from_indices drops from the subject index for a removed revocation:
\* every entry of the same jti under the same subject and issuer, newer ones included
SameEntry(e, r) == e.jti = r.jti /\ e.sub = r.sub /\ e.iss = r.iss

ClearExpiredRevocations(olderThan) ==
    LET old == {r \in revoked : r.at < olderThan} IN
    /\ revoked' = revoked \ old
    /\ jtiIndex' = jtiIndex \ {r.jti : r \in old}
    /\ subjIndex' = {e \in subjIndex : ~ \E r \in old : SameEntry(e, r)}
    /\ UNCHANGED ever

\* start_revocation_cleanup: one tick of the hourly task
RevocationCleanup ==
    /\ now >= Retention
    /\ ClearExpiredRevocations(now - Retention)
    /\ UNCHANGED <<now, expected, tokens, request, calls>>

-----------------------------------------------------------------------------
(* A request.  known: the revocations of its token recorded before it began;  *)
(* at: when it got past the extractor.                                      *)

\* the jti claim is optional
HasJti(t) == tokens[t].jti = "some"

\* the revocations that are about a token: by its jti, or by its subject and issuer
About(t) ==
    {r \in ever : (HasJti(t) /\ r.jti = t) \/ (r.sub = tokens[t].sub /\ r.iss = tokens[t].iss)}

\* check_token_not_revoked: a token without a jti cannot be looked up and is let through
TokenNotRevoked(t) == HasJti(t) => ~ IsRevoked(t)

AuthenticateToken(c, t) ==
    /\ request[c] = NoRequest
    /\ ValidateToken(t)
    /\ TokenNotRevoked(t)
    /\ request' = [request EXCEPT ![c] = [tok |-> t, known |-> About(t), stage |-> "jti", at |-> 0]]
    /\ UNCHANGED <<now, expected, tokens, store, calls>>

\* check_subject_not_revoked
SubjectNotRevoked(t) == ~ IsRevokedBySubjectIssuer(tokens[t].sub, tokens[t].iss)

\* the second half of the extractor: the request goes on to its endpoint or is refused
LookUpSubject(c) ==
    /\ request[c].stage = "jti"
    /\ request' = IF SubjectNotRevoked(request[c].tok)
                  THEN [request EXCEPT ![c].stage = "authorized", ![c].at = now]
                  ELSE [request EXCEPT ![c] = NoRequest]
    /\ UNCHANGED <<now, expected, tokens, store, calls>>

\* an endpoint runs and answers
Serve(c) ==
    /\ request[c].stage = "authorized"
    /\ request' = [request EXCEPT ![c] = NoRequest]
    /\ UNCHANGED <<now, expected>>

ServeCall(c) == Serve(c) /\ calls < MaxCalls /\ calls' = calls + 1

-----------------------------------------------------------------------------
(* The endpoints of a federation's administrators. *)

\* no access to other federations is granted; roles are not looked at
GrantAllowed(f, g) == g.feds \subseteq {f}

\* issue_token: the subject must be a DID
IssueToken(f, g, old) ==
    IF g.sub \in Subjects
    THEN tokens' = Append(tokens, [sub |-> g.sub, iss |-> f, exp |-> now + g.life,
                                   feds |-> g.feds, orgs |-> g.orgs, roles |-> g.roles,
                                   by |-> {f}, jti |-> "some", replaces |-> old])
    ELSE UNCHANGED tokens

\* ensure_federation_admin for the token of a request
Administers(c, f) == request[c].stage = "authorized" /\ EnsureFederationAdmin(request[c].tok, f)

IssueJwtToken(c, f, g) ==
    /\ Administers(c, f) /\ GrantAllowed(f, g) /\ Len(tokens) < MaxTokens
    /\ ServeCall(c)
    /\ IssueToken(f, g, 0)
    /\ UNCHANGED store

\* revoke_token_handler by jti; sub and iss as the payload gives them or as they default
RevokeByJti(c, f, jti, sub, iss) ==
    /\ Administers(c, f)
    /\ ServeCall(c)
    /\ RevokeToken([jti |-> jti, sub |-> sub, iss |-> iss, at |-> now])
    /\ UNCHANGED tokens

\* the jti made up for a revocation by subject: no token carries it
FreshJti == MaxTokens + 1 + now

RevokeBySubject(c, f, sub, iss) ==
    /\ Administers(c, f)
    /\ ServeCall(c)
    /\ RevokeToken([jti |-> FreshJti, sub |-> sub, iss |-> iss, at |-> now])
    /\ UNCHANGED tokens

\* rotate_token_handler: the old token is revoked before the subject is looked at
RotateToken(c, f, jti, g) ==
    /\ Administers(c, f) /\ GrantAllowed(f, g) /\ Len(tokens) < MaxTokens
    /\ ServeCall(c)
    /\ RevokeToken([jti |-> jti, sub |-> g.sub, iss |-> f, at |-> now])
    /\ IssueToken(f, g, jti)

Tick == now < MaxNow /\ now' = now + 1
        /\ UNCHANGED <<expected, tokens, store, request, calls>>

\* the tokens that can be named by their jti
Named == {t \in Jtis : HasJti(t)}

\* the issuer of a revocation: whatever its payload names, or the federation
IssuerOf(f) == Issuers \cup {f}

TokenNext ==
    \/ Tick
    \/ RevocationCleanup
    \/ \E c \in Conns :
          \/ \E t \in Jtis : AuthenticateToken(c, t)
          \/ LookUpSubject(c)
          \/ \E f \in Federations :
                \/ \E g \in Grants : IssueJwtToken(c, f, g) \/ \E t \in Named : RotateToken(c, f, t, g)
                \/ \E s \in Subjects, i \in IssuerOf(f) : RevokeBySubject(c, f, s, i)
                \/ \E t \in Named, s \in Subjects \cup {Unknown}, i \in IssuerOf(f) : RevokeByJti(c, f, t, s, i)

-----------------------------------------------------------------------------
(* Properties. *)

TokenTypeOK ==
    /\ now \in 0..MaxNow /\ calls \in 0..MaxCalls
    /\ jtiIndex \subseteq {e.jti : e \in subjIndex}
    /\ \A c \in Conns : request[c] = NoRequest \/ request[c].tok \in Jtis

\* A request that began after its token had been revoked, by jti or by subject and issuer,
\* reaches an endpoint only once a revocation of the same entry has outlived the retention
\* period: until then one of the two indices answers for it, whatever other revocations,
\* rotations and clean-ups run between the two look-ups (check_token_not_revoked,
\* check_subject_not_revoked, clear_expired_revocations).
RevokedStaysDead ==
    \A c \in Conns : request[c].stage = "authorized" =>
        \A r \in request[c].known : \E x \in ever : x.jti = r.jti /\ request[c].at > x.at + Retention

\* A revocation that is still in the store is found through the jti index unless an older
\* revocation of the same jti has been cleaned up: remove_from_indices drops the entry of
\* the jti, not of the revocation, so that a repeated revocation can be lost early.
FoundUnlessRepeated ==
    \A r \in revoked :
        (\A x \in ever : x.jti = r.jti => x.at >= r.at) => IsRevoked(r.jti)

\* Whoever can administer the tokens of a federation got that power from an administrator
\* of that federation, through however many issued and rotated tokens: roles are granted
\* unchecked, but access to another federation is not (GrantAllowed).
PowerIsInherited ==
    \A t \in Jtis, f \in Federations : EnsureFederationAdmin(t, f) => f \in tokens[t].by

\* What a token may do, and what a revocation guarantees against it
\* (InMemoryRevocationStore, validate_token, the token handlers).
TokensSound ==
    TokenTypeOK /\ RevokedStaysDead /\ FoundUnlessRepeated /\ PowerIsInherited

\* A token that an administrator has just been given by issue_jwt_token_handler or
\* rotate_token_handler works: while it has not expired and nobody has revoked it, by its
\* jti or by its subject, a request with it gets past the extractor.
IssuedTokensWork ==
    \A t \in Jtis :
        /\ t > Len(Roots) /\ now <= tokens[t].exp
        /\ ~ \E r \in ever : r.jti = t \/ (r.jti \notin Jtis /\ r.sub = tokens[t].sub)
        => ValidateToken(t) /\ TokenNotRevoked(t) /\ SubjectNotRevoked(t)

=============================================================================
