--------------------------- MODULE AgoranetProofs ---------------------------
(***************************************************************************)
(* For any number of federations, tokens, voters, clients, entities and      *)
(* callers: what a revocation guarantees against a token, through however   *)
(* many requests and clean-ups at once (TokensAreSound); that                *)
(* the counts of a proposal are its votes and the scoped statistics agree    *)
(* with the lists (ForumIsSound); what the channels carry and the            *)
(* connections forward (HubIsSound); and that the transfer endpoints keep    *)
(* their books (BooksAreBalanced), do not mix requests (RequestsAreIsolated),*)
(* announce true balances (LastEventsAreTrue) and page their answers without *)
(* gap or repetition (PagesTileAlways).                                      *)
(***************************************************************************)
EXTENDS Agoranet, TransferApi, SequenceTheorems, InductionTheorems

-----------------------------------------------------------------------------
(* The revocation store. *)

\* A jti that is no longer found has a revocation that outlived the retention period.
IndexedOrExpired ==
    \A r \in ever : r.jti \in jtiIndex \/ \E x \in ever : x.jti = r.jti /\ now > x.at + Retention

\* The same for an entry of the subject index.
EntryOrExpired ==
    \A r \in ever : \/ \E e \in subjIndex : SameEntry(e, r)
                    \/ \E x \in ever : SameEntry(x, r) /\ now > x.at + Retention

StoreInv ==
    /\ now \in 0..MaxNow
    /\ revoked \subseteq ever
    /\ \A r \in ever : r.at \in Nat
    /\ jtiIndex \subseteq {e.jti : e \in subjIndex}
    /\ IndexedOrExpired /\ FoundUnlessRepeated /\ EntryOrExpired

LEMMA RevokeKeepsStore ==
    ASSUME StoreInv, NEW r, r.at = now, RevokeToken(r), now' = now
    PROVE  StoreInv'
<1>1. /\ now \in 0..MaxNow /\ now \in Nat
      /\ revoked \subseteq ever
      /\ revoked' = revoked \cup {r} /\ ever' = ever \cup {r}
      /\ jtiIndex \subseteq {e.jti : e \in subjIndex}
  BY TokenAssumption DEF StoreInv, RevokeToken
<1>2. CASE r \in revoked
  <2>1. revoked' = revoked /\ ever' = ever /\ jtiIndex' = jtiIndex /\ subjIndex' = subjIndex
    BY <1>1, <1>2 DEF RevokeToken
  <2> QED  BY <2>1 DEF StoreInv, IndexedOrExpired, FoundUnlessRepeated, EntryOrExpired, IsRevoked
<1>3. CASE r \notin revoked
  <2>1. jtiIndex' = jtiIndex \cup {r.jti} /\ subjIndex' = subjIndex \cup {r}
    BY <1>3 DEF RevokeToken, AddToIndices
  <2>2. revoked' \subseteq ever' /\ \A x \in ever' : x.at \in Nat
    BY <1>1 DEF StoreInv
  <2>3. jtiIndex' \subseteq {e.jti : e \in subjIndex'}
    BY <1>1, <2>1
  <2>4. IndexedOrExpired'
    BY <1>1, <2>1 DEF StoreInv, IndexedOrExpired
  <2>5. FoundUnlessRepeated'
    BY <1>1, <2>1 DEF StoreInv, FoundUnlessRepeated, IsRevoked
  <2>6. EntryOrExpired'
    BY <1>1, <2>1 DEF StoreInv, EntryOrExpired, SameEntry
  <2> QED  BY <1>1, <2>2, <2>3, <2>4, <2>5, <2>6 DEF StoreInv
<1> QED  BY <1>2, <1>3

LEMMA CleanupKeepsStore ==
    ASSUME StoreInv, now >= Retention, ClearExpiredRevocations(now - Retention), now' = now
    PROVE  StoreInv'
<1> DEFINE limit == now - Retention
           old == {r \in revoked : r.at < limit}
<1>1. /\ now \in 0..MaxNow /\ now \in Nat /\ Retention \in Nat /\ limit \in Nat
      /\ revoked \subseteq ever /\ \A r \in ever : r.at \in Nat
  BY TokenAssumption DEF StoreInv
<1>2. /\ revoked' = revoked \ old /\ ever' = ever
      /\ jtiIndex' = jtiIndex \ {r.jti : r \in old}
      /\ subjIndex' = {e \in subjIndex : ~ \E r \in old : SameEntry(e, r)}
  BY DEF ClearExpiredRevocations
<1>3. /\ \A r \in old : r \in ever /\ now > r.at + Retention
      /\ \A r \in revoked : r \notin old => r.at >= limit
      /\ \A r \in old : r.at < limit
  BY <1>1
<1> HIDE DEF limit, old
<1>4. jtiIndex' \subseteq {e.jti : e \in subjIndex'}
  BY <1>2 DEF StoreInv, SameEntry
<1>5. IndexedOrExpired'
  <2> SUFFICES ASSUME NEW r \in ever, r.jti \notin jtiIndex'
               PROVE  \E x \in ever : x.jti = r.jti /\ now > x.at + Retention
    BY <1>2 DEF IndexedOrExpired
  <2>1. CASE r.jti \notin jtiIndex
    BY <2>1 DEF StoreInv, IndexedOrExpired
  <2>2. CASE r.jti \in jtiIndex
    <3>1. PICK x \in old : x.jti = r.jti
      BY <1>2, <2>2
    <3> QED  BY <1>3, <3>1
  <2> QED  BY <2>1, <2>2
<1>6. FoundUnlessRepeated'
  <2> SUFFICES ASSUME NEW r \in revoked', \A x \in ever : x.jti = r.jti => x.at >= r.at
               PROVE  r.jti \in jtiIndex'
    BY <1>2 DEF FoundUnlessRepeated, IsRevoked
  <2>1. r \in revoked /\ r \notin old /\ r \in ever
    BY <1>1, <1>2
  <2>2. r.jti \in jtiIndex
    BY <2>1 DEF StoreInv, FoundUnlessRepeated, IsRevoked
  <2>3. ASSUME NEW x \in old, x.jti = r.jti PROVE FALSE
    <3>1. x.at >= r.at /\ x.at < limit /\ r.at >= limit /\ x.at \in Nat /\ r.at \in Nat
      BY <1>1, <1>3, <2>1, <2>3
    <3> QED  BY <1>1, <3>1
  <2> QED  BY <1>2, <2>2, <2>3
<1>7. EntryOrExpired'
  <2> SUFFICES ASSUME NEW r \in ever, ~ \E e \in subjIndex' : SameEntry(e, r)
               PROVE  \E x \in ever : SameEntry(x, r) /\ now > x.at + Retention
    BY <1>2 DEF EntryOrExpired
  <2>1. CASE \E e \in subjIndex : SameEntry(e, r)
    <3>1. PICK e \in subjIndex : SameEntry(e, r)
      BY <2>1
    <3>2. PICK x \in old : SameEntry(e, x)
      BY <1>2, <3>1
    <3>3. SameEntry(x, r)
      BY <3>1, <3>2 DEF SameEntry
    <3> QED  BY <1>3, <3>2, <3>3
  <2>2. CASE ~ \E e \in subjIndex : SameEntry(e, r)
    BY <2>2 DEF StoreInv, EntryOrExpired
  <2> QED  BY <2>1, <2>2
<1>8. revoked' \subseteq ever' /\ \A r \in ever' : r.at \in Nat
  BY <1>1, <1>2
<1> QED  BY <1>1, <1>4, <1>5, <1>6, <1>7, <1>8 DEF StoreInv

LEMMA TimeKeepsStore ==
    ASSUME StoreInv, now' \in now..MaxNow, UNCHANGED store
    PROVE  StoreInv'
<1>1. /\ now \in Nat /\ now' \in 0..MaxNow /\ now' \in Nat /\ now' >= now /\ Retention \in Nat
      /\ revoked' = revoked /\ ever' = ever /\ jtiIndex' = jtiIndex /\ subjIndex' = subjIndex
      /\ \A x \in ever : x.at \in Nat
  BY TokenAssumption DEF StoreInv, store
<1>2. \A x \in ever : now > x.at + Retention => now' > x.at + Retention
  BY <1>1
<1>3. IndexedOrExpired'
  BY <1>1, <1>2 DEF StoreInv, IndexedOrExpired
<1>4. FoundUnlessRepeated'
  BY <1>1 DEF StoreInv, FoundUnlessRepeated, IsRevoked
<1>5. EntryOrExpired'
  BY <1>1, <1>2 DEF StoreInv, EntryOrExpired, SameEntry
<1> QED  BY <1>1, <1>3, <1>4, <1>5 DEF StoreInv


-----------------------------------------------------------------------------
(* The tokens and the requests. *)

\* Tokens that the endpoints sign: under the federation's own name, with access to no other.
IssuedToken ==
    UNION {[sub : Subjects, iss : {f}, exp : Nat, feds : SUBSET {f}, orgs : {g.orgs : g \in Grants},
            roles : {g.roles : g \in Grants}, by : {{f}}, jti : {"some"}, replaces : Nat] : f \in Federations}

Signed == {Roots[i] : i \in DOMAIN Roots} \cup IssuedToken

\* A revocation whose entry, or whose jti, has a revocation that outlived the retention
\* period by a given time.
Expired(r, at) == \E x \in ever : x.jti = r.jti /\ at > x.at + Retention

\* Between its two look-ups a request stands against the revocations of its jti; past the
\* second, against those of its subject and issuer too.
RequestOK(q) ==
    \/ q = NoRequest
    \/ /\ q.tok \in Jtis /\ q.known \subseteq About(q.tok)
       /\ q.stage = "jti"
       /\ \A r \in q.known : HasJti(q.tok) /\ r.jti = q.tok => Expired(r, now)
    \/ /\ q.tok \in Jtis /\ q.known \subseteq ever /\ q.at \in 0..now
       /\ q.stage = "authorized"
       /\ \A r \in q.known : Expired(r, q.at)

RequestInv ==
    /\ calls \in 0..MaxCalls
    /\ tokens \in Seq(Signed)
    /\ request \in [Conns -> {request[c] : c \in Conns}]
    /\ \A c \in Conns : RequestOK(request[c])

TokenInv == StoreInv /\ RequestInv

LEMMA TokenInitially == Init => TokenInv
<1> SUFFICES ASSUME Init PROVE TokenInv
  OBVIOUS
<1> USE DEF Init, TokenInit
<1>1. StoreInv
  BY TokenAssumption DEF StoreInv, IndexedOrExpired, FoundUnlessRepeated, EntryOrExpired
<1>2. tokens \in Seq(Signed)
  <2>1. Roots \in Seq({Roots[i] : i \in DOMAIN Roots})
    BY TokenAssumption
  <2>2. Len(Roots) \in Nat /\ DOMAIN Roots = 1..Len(Roots)
    BY <2>1
  <2>3. \A i \in 1..Len(Roots) : Roots[i] \in Signed
    BY <2>2 DEF Signed
  <2>4. Roots = [i \in 1..Len(Roots) |-> Roots[i]]
    BY <2>1
  <2> QED  BY <2>2, <2>3, <2>4
<1>3. /\ request \in [Conns -> {request[c] : c \in Conns}]
      /\ \A c \in Conns : RequestOK(request[c])
  BY DEF RequestOK
<1>4. calls \in 0..MaxCalls
  BY TokenAssumption
<1> QED  BY <1>1, <1>2, <1>3, <1>4 DEF TokenInv, RequestInv

\* What a step does with the tokens.
Issues == \E f \in Federations, g \in Grants, old \in {0} \cup Jtis : GrantAllowed(f, g) /\ IssueToken(f, g, old)

\* What a step does with the request of a connection: it begins one, lets one past the
\* second look-up, or ends one.
Begins(c, t) ==
    /\ TokenNotRevoked(t)
    /\ request' = [request EXCEPT ![c] = [tok |-> t, known |-> About(t), stage |-> "jti", at |-> 0]]
    /\ UNCHANGED <<now, tokens, store>>

Authorizes(c) ==
    /\ request[c].stage = "jti" /\ SubjectNotRevoked(request[c].tok)
    /\ request' = [request EXCEPT ![c].stage = "authorized", ![c].at = now]
    /\ UNCHANGED <<now, tokens, store>>

Ends(c) == request' = [request EXCEPT ![c] = NoRequest]

\* Every step, as far as tokens, revocations and requests are concerned.
TokenStep ==
    /\ calls' \in 0..MaxCalls
    /\ UNCHANGED tokens \/ Issues
    /\ \/ UNCHANGED store /\ now' \in now..MaxNow
       \/ now' = now /\ \E r : r.at = now /\ RevokeToken(r)
       \/ now' = now /\ now >= Retention /\ ClearExpiredRevocations(now - Retention)
    /\ \/ UNCHANGED request
       \/ \E c \in Conns : Ends(c) \/ Authorizes(c) \/ \E t \in Jtis : Begins(c, t)

LEMMA NextIsTokenStep == TokenInv /\ [Next]_vars => TokenStep
<1> SUFFICES ASSUME TokenInv, [Next]_vars PROVE TokenStep
  OBVIOUS
<1>0. now \in 0..MaxNow /\ now \in now..MaxNow /\ calls \in 0..MaxCalls /\ MaxNow \in Nat /\ MaxCalls \in Nat
  BY TokenAssumption DEF TokenInv, StoreInv, RequestInv
<1>c. Counted => calls' \in 0..MaxCalls
  BY <1>0 DEF Counted
<1>q. ASSUME Quiet, calls' \in 0..MaxCalls PROVE TokenStep
  BY <1>0, <1>q DEF Quiet, TokenStep
<1>s. ASSUME NEW c \in Conns, Serve(c), UNCHANGED <<tokens, store, calls>> PROVE TokenStep
  BY <1>0, <1>s DEF Serve, Ends, TokenStep
<1>1. CASE TokenNext
  <2>1. CASE Tick
    <3>1. now' \in now..MaxNow
      BY <1>0, <2>1 DEF Tick
    <3> QED  BY <1>0, <2>1, <3>1 DEF Tick, TokenStep
  <2>2. CASE RevocationCleanup
    BY <1>0, <2>2 DEF RevocationCleanup, TokenStep
  <2>3. ASSUME NEW c \in Conns, NEW t \in Jtis, AuthenticateToken(c, t) PROVE TokenStep
    BY <1>0, <2>3 DEF AuthenticateToken, Begins, TokenStep
  <2>4. ASSUME NEW c \in Conns, LookUpSubject(c) PROVE TokenStep
    <3>1. Ends(c) \/ Authorizes(c)
      BY <2>4 DEF LookUpSubject, Ends, Authorizes
    <3> QED  BY <1>0, <2>4, <3>1 DEF LookUpSubject, TokenStep
  <2>5. ASSUME NEW c \in Conns, NEW f \in Federations, NEW g \in Grants, IssueJwtToken(c, f, g)
        PROVE  TokenStep
    <3>1. ServeCall(c) /\ GrantAllowed(f, g) /\ IssueToken(f, g, 0) /\ UNCHANGED store
      BY <2>5 DEF IssueJwtToken
    <3>2. Issues /\ calls' \in 0..MaxCalls
      BY <1>0, <3>1 DEF Issues, ServeCall
    <3> QED  BY <1>0, <3>1, <3>2 DEF ServeCall, Serve, Ends, TokenStep
  <2>6. ASSUME NEW c \in Conns, ServeCall(c), UNCHANGED tokens \/ Issues,
               \E r : r.at = now /\ RevokeToken(r)
        PROVE  TokenStep
    <3>1. calls' \in 0..MaxCalls
      BY <1>0, <2>6 DEF ServeCall
    <3> QED  BY <2>6, <3>1 DEF ServeCall, Serve, Ends, TokenStep
  <2>7. ASSUME NEW c \in Conns, NEW f \in Federations, NEW g \in Grants, NEW t \in Named, RotateToken(c, f, t, g)
        PROVE  TokenStep
    <3>1. PICK r : r = [jti |-> t, sub |-> g.sub, iss |-> f, at |-> now]
      OBVIOUS
    <3>2. ServeCall(c) /\ GrantAllowed(f, g) /\ IssueToken(f, g, t) /\ r.at = now /\ RevokeToken(r)
      BY <2>7, <3>1 DEF RotateToken
    <3>3. Issues
      BY <3>2 DEF Issues, Named
    <3> QED  BY <2>6, <3>2, <3>3
  <2>8. ASSUME NEW c \in Conns, NEW f \in Federations, NEW s, NEW i, RevokeBySubject(c, f, s, i)
        PROVE  TokenStep
    <3>1. PICK r : r = [jti |-> FreshJti, sub |-> s, iss |-> i, at |-> now]
      OBVIOUS
    <3>2. ServeCall(c) /\ UNCHANGED tokens /\ r.at = now /\ RevokeToken(r)
      BY <2>8, <3>1 DEF RevokeBySubject
    <3> QED  BY <2>6, <3>2
  <2>9. ASSUME NEW c \in Conns, NEW f \in Federations, NEW t, NEW s, NEW i, RevokeByJti(c, f, t, s, i)
        PROVE  TokenStep
    <3>1. PICK r : r = [jti |-> t, sub |-> s, iss |-> i, at |-> now]
      OBVIOUS
    <3>2. ServeCall(c) /\ UNCHANGED tokens /\ r.at = now /\ RevokeToken(r)
      BY <2>9, <3>1 DEF RevokeByJti
    <3> QED  BY <2>6, <3>2
  <2> QED  BY <1>1, <2>1, <2>2, <2>3, <2>4, <2>5, <2>7, <2>8, <2>9 DEF TokenNext
<1>2. ASSUME NEW c \in Conns PROVE Forbidden(c) => TokenStep
  BY <1>s DEF Forbidden
<1>3. ASSUME NEW c \in Conns, NEW o, NEW m PROVE ReadScoped(c, o, m) => TokenStep
  BY <1>s DEF ReadScoped
<1>4. ASSUME NEW c \in Conns, NEW o, NEW r PROVE OrgOperation(c, o, r) => TokenStep
  BY <1>s DEF OrgOperation
<1>5. ASSUME NEW c, NEW t, NEW f, NEW o, NEW m PROVE Connect(c, t, f, o, m) /\ Counted => TokenStep
  BY <1>c, <1>q DEF Connect
<1>6. CASE Deliberate \/ Publish
  BY <1>6, <1>c, <1>q DEF Deliberate, Publish
<1>7. CASE Deliver
  BY <1>7, <1>0, <1>q DEF Deliver
<1>8. CASE UNCHANGED vars
  BY <1>8, <1>0 DEF vars, tvars, store, TokenStep
<1> QED  BY <1>1, <1>2, <1>3, <1>4, <1>5, <1>6, <1>7, <1>8 DEF Next


\* A new token is one of those the endpoints may sign.
LEMMA IssueSigned ==
    ASSUME TokenInv, Issues
    PROVE  /\ tokens' \in Seq(Signed)
           /\ Jtis \subseteq Jtis' /\ \A t \in Jtis : tokens'[t] = tokens[t]
           /\ \A t \in Jtis' \ Jtis : tokens'[t] \in IssuedToken
<1>1. PICK f \in Federations, g \in Grants, old \in {0} \cup Jtis : GrantAllowed(f, g) /\ IssueToken(f, g, old)
  BY DEF Issues
<1>2. tokens \in Seq(Signed) /\ Len(tokens) \in Nat /\ Jtis = 1..Len(tokens) /\ now \in Nat
  BY TokenAssumption DEF TokenInv, StoreInv, RequestInv, Jtis
<1>3. CASE g.sub \notin Subjects
  BY <1>1, <1>2, <1>3 DEF IssueToken, Jtis
<1>4. CASE g.sub \in Subjects
  <2>1. PICK n : n = [sub |-> g.sub, iss |-> f, exp |-> now + g.life, feds |-> g.feds, orgs |-> g.orgs,
                      roles |-> g.roles, by |-> {f}, jti |-> "some", replaces |-> old]
    OBVIOUS
  <2>2. tokens' = Append(tokens, n)
    BY <1>1, <1>4, <2>1 DEF IssueToken
  <2>3. n \in [sub : Subjects, iss : {f}, exp : Nat, feds : SUBSET {f}, orgs : {h.orgs : h \in Grants},
               roles : {h.roles : h \in Grants}, by : {{f}}, jti : {"some"}, replaces : Nat]
    <3>1. now + g.life \in Nat /\ old \in Nat /\ g.feds \in SUBSET {f}
      BY <1>1, <1>2, TokenAssumption DEF GrantAllowed
    <3> QED  BY <1>4, <2>1, <3>1
  <2>4. n \in IssuedToken /\ n \in Signed
    BY <2>3 DEF IssuedToken, Signed
  <2>5. /\ tokens' \in Seq(Signed) /\ Len(tokens') = Len(tokens) + 1
        /\ \A t \in 1..Len(tokens) : tokens'[t] = tokens[t]
        /\ tokens'[Len(tokens) + 1] = n
    BY <1>2, <2>2, <2>4
  <2>6. Jtis' = 1..(Len(tokens) + 1)
    BY <2>5 DEF Jtis
  <2> QED  BY <1>2, <2>4, <2>5, <2>6
<1> QED  BY <1>3, <1>4

LEMMA NextKeepsTokens == TokenInv /\ [Next]_vars => TokenInv'
<1> SUFFICES ASSUME TokenInv, TokenStep PROVE TokenInv'
  BY NextIsTokenStep
<1>1. StoreInv'
  <2>1. CASE UNCHANGED store /\ now' \in now..MaxNow
    BY <2>1, TimeKeepsStore DEF TokenInv
  <2>2. CASE now' = now /\ \E r : r.at = now /\ RevokeToken(r)
    BY <2>2, RevokeKeepsStore DEF TokenInv
  <2>3. CASE now' = now /\ now >= Retention /\ ClearExpiredRevocations(now - Retention)
    BY <2>3, CleanupKeepsStore DEF TokenInv
  <2> QED  BY <2>1, <2>2, <2>3 DEF TokenStep
<1>2. /\ now \in Nat /\ now' \in Nat /\ now' >= now /\ Retention \in Nat
  <2>1. now \in 0..MaxNow /\ now' \in 0..MaxNow
    BY <1>1 DEF TokenInv, StoreInv
  <2>2. now' >= now
    BY <2>1 DEF TokenStep
  <2> QED  BY <2>1, <2>2, TokenAssumption
<1>3. /\ tokens' \in Seq(Signed)
      /\ Jtis \subseteq Jtis' /\ \A t \in Jtis : tokens'[t] = tokens[t]
      /\ \A t \in Jtis' \ Jtis : tokens'[t] \in IssuedToken
  <2>1. CASE UNCHANGED tokens
    BY <2>1 DEF TokenInv, RequestInv, Jtis
  <2>2. CASE Issues
    BY <2>2, IssueSigned
  <2> QED  BY <2>1, <2>2 DEF TokenStep
<1>4. calls' \in 0..MaxCalls
  BY DEF TokenStep
<1>5. ever \subseteq ever'
  BY DEF TokenStep, store, RevokeToken, ClearExpiredRevocations
<1>6. ASSUME NEW q, RequestOK(q) PROVE RequestOK(q)'
  <2>1. ASSUME NEW t \in Jtis PROVE About(t) \subseteq About(t)'
    BY <1>3, <1>5 DEF About, HasJti
  <2>2. ASSUME NEW r, NEW a \in Nat, NEW b \in Nat, a <= b, Expired(r, a)
        PROVE  \E x \in ever' : x.jti = r.jti /\ b > x.at + Retention
    <3>1. PICK x \in ever : x.jti = r.jti /\ a > x.at + Retention /\ x.at \in Nat
      BY <2>2 DEF Expired, TokenInv, StoreInv
    <3>2. b > x.at + Retention
      BY <1>2, <2>2, <3>1
    <3> QED  BY <1>5, <3>1, <3>2
  <2>3. CASE q = NoRequest
    BY <2>3 DEF RequestOK, NoRequest
  <2>4. CASE /\ q.tok \in Jtis /\ q.known \subseteq About(q.tok)
             /\ q.stage = "jti"
             /\ \A r \in q.known : HasJti(q.tok) /\ r.jti = q.tok => Expired(r, now)
    <3>1. q.tok \in Jtis' /\ q.known \subseteq About(q.tok)' /\ (HasJti(q.tok)' <=> HasJti(q.tok))
      BY <1>3, <2>1, <2>4 DEF HasJti
    <3>2. ASSUME NEW r \in q.known, HasJti(q.tok)', r.jti = q.tok PROVE Expired(r, now)'
      <4>1. Expired(r, now)
        BY <2>4, <3>1, <3>2
      <4>2. \E x \in ever' : x.jti = r.jti /\ now' > x.at + Retention
        BY <1>2, <2>2, <4>1
      <4> QED  BY <4>2 DEF Expired
    <3> QED  BY <2>4, <3>1, <3>2 DEF RequestOK
  <2>5. CASE /\ q.tok \in Jtis /\ q.known \subseteq ever /\ q.at \in 0..now
             /\ q.stage = "authorized"
             /\ \A r \in q.known : Expired(r, q.at)
    <3>1. q.at \in Nat /\ q.at \in 0..now'
      BY <1>2, <2>5
    <3>2. \A r \in q.known : Expired(r, q.at)'
      BY <2>2, <2>5, <3>1 DEF Expired
    <3> QED  BY <1>3, <1>5, <2>5, <3>1, <3>2 DEF RequestOK
  <2> QED  BY <1>6, <2>3, <2>4, <2>5 DEF RequestOK
<1>7. ASSUME NEW t \in Jtis, TokenNotRevoked(t)
      PROVE  RequestOK([tok |-> t, known |-> About(t), stage |-> "jti", at |-> 0])
  <2>1. ASSUME NEW r \in About(t), HasJti(t), r.jti = t PROVE Expired(r, now)
    BY <1>7, <2>1 DEF About, TokenNotRevoked, IsRevoked, TokenInv, StoreInv, IndexedOrExpired, Expired
  <2>2. PICK q : q = [tok |-> t, known |-> About(t), stage |-> "jti", at |-> 0]
    OBVIOUS
  <2> QED  BY <2>1, <2>2 DEF RequestOK
<1>8. ASSUME NEW c \in Conns, request[c].stage = "jti", SubjectNotRevoked(request[c].tok)
      PROVE  RequestOK([request[c] EXCEPT !.stage = "authorized", !.at = now])
  <2> DEFINE q == request[c]
  <2>1. /\ q.tok \in Jtis /\ q.known \subseteq About(q.tok)
        /\ \A r \in q.known : HasJti(q.tok) /\ r.jti = q.tok => Expired(r, now)
    BY <1>8 DEF TokenInv, RequestInv, RequestOK, NoRequest
  <2>2. ASSUME NEW r \in q.known PROVE Expired(r, now) /\ r \in ever
    <3>1. r \in ever
      BY <2>1 DEF About
    <3>2. CASE HasJti(q.tok) /\ r.jti = q.tok
      BY <2>1, <3>1, <3>2
    <3>3. CASE r.sub = tokens[q.tok].sub /\ r.iss = tokens[q.tok].iss
      <4>1. ~ \E e \in subjIndex : SameEntry(e, r)
        BY <1>8, <3>3 DEF SubjectNotRevoked, IsRevokedBySubjectIssuer, SameEntry
      <4>2. PICK x \in ever : SameEntry(x, r) /\ now > x.at + Retention
        BY <3>1, <4>1 DEF TokenInv, StoreInv, EntryOrExpired
      <4> QED  BY <3>1, <4>2 DEF SameEntry, Expired
    <3> QED  BY <2>1, <3>2, <3>3 DEF About
  <2>3. PICK n : n = [q EXCEPT !.stage = "authorized", !.at = now]
    OBVIOUS
  <2>4. n.tok = q.tok /\ n.known = q.known /\ n.stage = "authorized" /\ n.at = now
    BY <2>3
  <2> QED  BY <1>2, <2>1, <2>2, <2>3, <2>4 DEF RequestOK
<1> DEFINE AllOK == /\ request' \in [Conns -> {request'[d] : d \in Conns}]
                    /\ \A d \in Conns : RequestOK(request'[d])
<1>9. AllOK
  <2>0. request \in [Conns -> {request[c] : c \in Conns}] /\ \A c \in Conns : RequestOK(request[c])
    BY DEF TokenInv, RequestInv
  <2>1. ASSUME NEW c \in Conns, NEW q, RequestOK(q), request' = [request EXCEPT ![c] = q] PROVE AllOK
    BY <2>0, <2>1
  <2>2. CASE UNCHANGED request
    BY <2>0, <2>2
  <2> HIDE DEF AllOK
  <2>3. ASSUME NEW c \in Conns, Ends(c) PROVE AllOK
    BY <2>1, <2>3 DEF Ends, RequestOK
  <2>4. ASSUME NEW c \in Conns, NEW t \in Jtis, Begins(c, t) PROVE AllOK
    BY <1>7, <2>1, <2>4 DEF Begins
  <2>5. ASSUME NEW c \in Conns, Authorizes(c) PROVE AllOK
    <3>1. request' = [request EXCEPT ![c] = [request[c] EXCEPT !.stage = "authorized", !.at = now]]
      BY <2>5 DEF Authorizes
    <3>2. RequestOK([request[c] EXCEPT !.stage = "authorized", !.at = now])
      BY <1>8, <2>5 DEF Authorizes
    <3> QED  BY <2>1, <3>1, <3>2
  <2> QED  BY <2>2, <2>3, <2>4, <2>5 DEF TokenStep
<1>10. \A c \in Conns : RequestOK(request[c])'
  BY <1>6, <1>9
<1>11. RequestInv'
  BY <1>3, <1>4, <1>9, <1>10 DEF RequestInv
<1> QED  BY <1>1, <1>11 DEF TokenInv

LEMMA TokenInvariance == Spec => []TokenInv
BY TokenInitially, NextKeepsTokens, PTL DEF Spec

\* What a token may do, and what a revocation guarantees against it, for any number of
\* tokens, federations and requests in flight at once: a request that began after its token
\* was revoked, by jti or by subject and issuer, does not get past the extractor before a
\* revocation of that entry has outlived the retention period, and administration is
\* inherited from an administrator of the same federation (InMemoryRevocationStore, the
\* AuthenticatedRequest extractor, auth_handlers.rs).
THEOREM TokensAreSound == Spec => []TokensSound
<1>1. ASSUME TokenInv PROVE TokensSound
  <2>1. TokenTypeOK /\ FoundUnlessRepeated
    BY <1>1 DEF TokenInv, StoreInv, RequestInv, RequestOK, TokenTypeOK
  <2>2. RevokedStaysDead
    BY <1>1 DEF TokenInv, RequestInv, RequestOK, RevokedStaysDead, Expired, NoRequest
  <2>3. ASSUME NEW t \in Jtis, NEW f \in Federations, EnsureFederationAdmin(t, f)
        PROVE  f \in tokens[t].by
    <3>1. tokens[t] \in Signed /\ f \in tokens[t].feds /\ <<f, "federation_admin">> \in tokens[t].roles
      BY <1>1, <2>3 DEF TokenInv, RequestInv, Jtis, EnsureFederationAdmin, HasOrgScopeAccess, HasRole
    <3>2. CASE tokens[t] \in IssuedToken
      BY <3>1, <3>2 DEF IssuedToken
    <3>3. CASE tokens[t] \in {Roots[i] : i \in DOMAIN Roots}
      BY <3>1, <3>3, TokenAssumption
    <3> QED  BY <3>1, <3>2, <3>3 DEF Signed
  <2> QED  BY <2>1, <2>2, <2>3 DEF TokensSound, PowerIsInherited
<1> QED  BY <1>1, TokenInvariance, PTL


-----------------------------------------------------------------------------
(* Votes and their counts. *)

VoteRecord == [proposal : Nat, voter : Electorate, type : VoteTypes, at : Nat]

ProposalRecord == [status : {"Open", "Closed"}, counts : [VoteTypes -> Nat], deadline : Nat]

\* The votes of one type for a proposal.
Cast(p, t) == {v \in VoteRecord : v.proposal = p /\ v.type = t}

\* Nobody votes twice on a proposal, and no vote is late.
VotesInv ==
    /\ threads \in 0..MaxThreads
    /\ proposals \in Seq(ProposalRecord) /\ 1 \in DOMAIN proposals
    /\ votes \in Seq(VoteRecord)
    /\ \A i \in DOMAIN votes : votes[i].proposal \in DOMAIN proposals
    /\ \A i, j \in DOMAIN votes :
           votes[i].proposal = votes[j].proposal /\ votes[i].voter = votes[j].voter => i = j
    /\ OutcomeFixedAtDeadline
    /\ \A p \in DOMAIN proposals, t \in VoteTypes :
           proposals[p].counts[t] = Unbacked(p, t) + Times(votes, Cast(p, t))

LEMMA UnbackedIsNumber == \A p \in Nat, t \in VoteTypes : Unbacked(p, t) \in Int
<1> SUFFICES ASSUME NEW t \in VoteTypes PROVE \A p \in Nat : Unbacked(p, t) \in Int
  OBVIOUS
<1> DEFINE D == 1..Len(ExampleVotes)
           M == {i \in DOMAIN ExampleVotes : ExampleVotes[i].type = t}
<1>1. Len(ExampleVotes) \in Nat /\ DOMAIN ExampleVotes = D /\ ExampleCounts[t] \in Nat
  BY ForumAssumption
<1>2. M \in SUBSET D /\ IsFiniteSet(D)
  BY <1>1, FS_Interval
<1> HIDE DEF D, M
<1>3. Cardinality(M) \in Nat
  BY <1>2, FS_Subset, FS_CardinalityType
<1>4. ExampleCounts[t] - Cardinality(M) \in Int
  BY <1>1, <1>3
<1> QED  BY <1>4 DEF M, Unbacked

LEMMA VotesInitially == ForumInit => VotesInv
<1> SUFFICES ASSUME ForumInit PROVE VotesInv
  OBVIOUS
<1>1. PICK d \in Deadlines : proposals = <<[status |-> "Open", counts |-> ExampleCounts, deadline |-> d]>>
  BY DEF ForumInit
<1>2. /\ proposals \in Seq(ProposalRecord) /\ DOMAIN proposals = {1}
      /\ proposals[1].counts = ExampleCounts /\ proposals[1].deadline = d
  BY <1>1, ForumAssumption DEF ProposalRecord
<1>3. votes = ExampleVotes /\ threads \in 0..MaxThreads
  BY ForumAssumption DEF ForumInit
<1>4. /\ ExampleVotes \in Seq(VoteRecord)
      /\ \A i \in DOMAIN ExampleVotes : ExampleVotes[i].proposal = 1
  <2> DEFINE V == [proposal : {1}, voter : Electorate, type : VoteTypes, at : Nat]
  <2>1. ExampleVotes \in Seq(V)
    BY ForumAssumption
  <2>2. V \subseteq VoteRecord /\ \A v \in V : v.proposal = 1
    BY DEF VoteRecord
  <2> HIDE DEF V
  <2> QED  BY <2>1, <2>2
<1>5. OutcomeFixedAtDeadline
  <2>1. d \in Nat
    BY ForumAssumption
  <2>2. ASSUME NEW i \in DOMAIN votes
        PROVE  votes[i].at \in Nat /\ votes[i].at <= d /\ votes[i].proposal = 1
    <3>1. votes[i] \in VoteRecord
      BY <1>3, <1>4
    <3> QED  BY <1>3, <1>4, <3>1, ForumAssumption DEF VoteRecord
  <2> QED  BY <1>2, <2>1, <2>2 DEF OutcomeFixedAtDeadline
<1>6. ASSUME NEW t \in VoteTypes
      PROVE  proposals[1].counts[t] = Unbacked(1, t) + Times(votes, Cast(1, t))
  <2>1. {i \in DOMAIN ExampleVotes : ExampleVotes[i].type = t} = Places(ExampleVotes, Cast(1, t))
    BY <1>4 DEF Places, Cast
  <2>2. Unbacked(1, t) = ExampleCounts[t] - Times(votes, Cast(1, t))
    BY <1>3, <2>1 DEF Unbacked, Times
  <2>3. Times(votes, Cast(1, t)) \in Nat /\ ExampleCounts[t] \in Nat
    BY <1>3, <1>4, TimesOf, ForumAssumption
  <2> QED  BY <1>2, <2>2, <2>3
<1> QED  BY <1>2, <1>3, <1>4, <1>5, <1>6, ForumAssumption DEF VotesInv

LEMMA ProposalKeepsVotes ==
    ASSUME VotesInv, NEW d \in Deadlines, CreateProposal(d)
    PROVE  VotesInv'
<1>1. PICK n : n = [status |-> "Open", counts |-> NoCounts, deadline |-> d]
  OBVIOUS
<1>2. n \in ProposalRecord
  BY <1>1, ForumAssumption DEF ProposalRecord, NoCounts
<1>3. /\ proposals \in Seq(ProposalRecord) /\ votes \in Seq(VoteRecord) /\ Len(proposals) \in Nat
      /\ proposals' = Append(proposals, n) /\ votes' = votes /\ threads' = threads
  BY <1>1 DEF VotesInv, CreateProposal
<1>4. /\ proposals' \in Seq(ProposalRecord)
      /\ DOMAIN proposals = 1..Len(proposals)
      /\ DOMAIN proposals' = (DOMAIN proposals) \cup {Len(proposals) + 1}
      /\ \A p \in DOMAIN proposals : proposals'[p] = proposals[p]
      /\ proposals'[Len(proposals) + 1] = n
  BY <1>2, <1>3
<1>5. OutcomeFixedAtDeadline'
  BY <1>3, <1>4 DEF VotesInv, OutcomeFixedAtDeadline
<1>6. ASSUME NEW t \in VoteTypes
      PROVE  n.counts[t] = Unbacked(Len(proposals) + 1, t) + Times(votes, Cast(Len(proposals) + 1, t))
  <2> DEFINE p == Len(proposals) + 1
  <2>1. Places(votes, Cast(p, t)) = {}
    BY <1>3, <1>4 DEF VotesInv, Places, Cast
  <2>2. Times(votes, Cast(p, t)) = 0
    BY <2>1, FS_EmptySet DEF Times
  <2>3. CASE Len(proposals) # 0
    <3>1. Unbacked(p, t) = 0 /\ n.counts[t] = 0
      BY <1>1, <1>3, <2>3 DEF Unbacked, NoCounts
    <3> QED  BY <2>2, <3>1
  <2>4. Len(proposals) # 0
    BY <1>3, <1>4 DEF VotesInv
  <2> QED  BY <2>3, <2>4
<1>7. \A p \in DOMAIN proposals', t \in VoteTypes :
          proposals'[p].counts[t] = Unbacked(p, t) + Times(votes, Cast(p, t))
  BY <1>4, <1>6 DEF VotesInv
<1>8. /\ threads' \in 0..MaxThreads /\ votes' \in Seq(VoteRecord)
      /\ \A i \in DOMAIN votes' : votes'[i].proposal \in DOMAIN proposals'
      /\ \A i, j \in DOMAIN votes' :
             votes'[i].proposal = votes'[j].proposal /\ votes'[i].voter = votes'[j].voter => i = j
  BY <1>3, <1>4 DEF VotesInv
<1> QED  BY <1>3, <1>4, <1>5, <1>7, <1>8 DEF VotesInv, Unbacked


LEMMA VoteKeepsVotes ==
    ASSUME VotesInv, NEW p \in DOMAIN proposals, NEW v \in Voters, NEW t \in VoteTypes,
           now \in Nat, NEW stamp, stamp \in {now, now + 1}, CastVote(p, v, t, now, stamp)
    PROVE  VotesInv'
<1>1. /\ proposals \in Seq(ProposalRecord) /\ votes \in Seq(VoteRecord) /\ threads' = threads
      /\ p \in Nat /\ proposals[p] \in ProposalRecord
  BY DEF VotesInv, CastVote
<1>2. CASE now > proposals[p].deadline
  <2>1. votes' = votes /\ proposals' = [proposals EXCEPT ![p].status = "Closed"]
    BY <1>2 DEF CastVote
  <2>2. /\ proposals' \in Seq(ProposalRecord) /\ DOMAIN proposals' = DOMAIN proposals
        /\ \A x \in DOMAIN proposals : /\ proposals'[x].counts = proposals[x].counts
                                       /\ proposals'[x].deadline = proposals[x].deadline
    <3> DEFINE n == [proposals[p] EXCEPT !.status = "Closed"]
    <3>1. n \in ProposalRecord /\ n.counts = proposals[p].counts /\ n.deadline = proposals[p].deadline
      BY <1>1 DEF ProposalRecord
    <3>2. proposals' = [proposals EXCEPT ![p] = n]
      BY <2>1
    <3> HIDE DEF n
    <3> QED  BY <1>1, <3>1, <3>2
  <2>3. OutcomeFixedAtDeadline'
    BY <2>1, <2>2 DEF VotesInv, OutcomeFixedAtDeadline
  <2>4. \A x \in DOMAIN proposals, u \in VoteTypes :
            proposals'[x].counts[u] = Unbacked(x, u) + Times(votes, Cast(x, u))
    BY <2>2 DEF VotesInv
  <2>5. /\ 1 \in DOMAIN proposals /\ threads \in 0..MaxThreads
        /\ \A i \in DOMAIN votes : votes[i].proposal \in DOMAIN proposals
        /\ \A i, j \in DOMAIN votes :
               votes[i].proposal = votes[j].proposal /\ votes[i].voter = votes[j].voter => i = j
    BY DEF VotesInv
  <2> QED  BY <1>1, <2>1, <2>2, <2>3, <2>4, <2>5 DEF VotesInv
<1>3. CASE ~ (now > proposals[p].deadline)
  <2>0. PICK x : x = [proposal |-> p, voter |-> v, type |-> t, at |-> stamp]
    OBVIOUS
  <2>1. /\ votes' = Append(votes, x)
        /\ proposals' = [proposals EXCEPT ![p].counts[t] = @ + 1]
    BY <1>3, <2>0 DEF CastVote
  <2>2. x \in VoteRecord
    BY <1>1, <2>0 DEF VoteRecord, Electorate
  <2>3. /\ proposals' \in Seq(ProposalRecord) /\ DOMAIN proposals' = DOMAIN proposals
        /\ \A q \in DOMAIN proposals : proposals'[q].deadline = proposals[q].deadline
        /\ \A q \in DOMAIN proposals, u \in VoteTypes :
               proposals'[q].counts[u] = proposals[q].counts[u] + (IF q = p /\ u = t THEN 1 ELSE 0)
    <3> DEFINE c == [proposals[p].counts EXCEPT ![t] = @ + 1]
               n == [proposals[p] EXCEPT !.counts = c]
    <3>0. proposals[p].counts \in [VoteTypes -> Nat]
      BY <1>1 DEF ProposalRecord
    <3>1. /\ c \in [VoteTypes -> Nat]
          /\ \A u \in VoteTypes : c[u] = proposals[p].counts[u] + (IF u = t THEN 1 ELSE 0)
      BY <3>0
    <3>2. proposals' = [proposals EXCEPT ![p] = n]
      BY <2>1
    <3> HIDE DEF c
    <3>3. n \in ProposalRecord /\ n.deadline = proposals[p].deadline /\ n.counts = c
      BY <1>1, <3>1 DEF ProposalRecord
    <3> HIDE DEF n
    <3>4. \A q \in DOMAIN proposals, u \in VoteTypes : proposals[q].counts[u] \in Nat
      <4>1. \A q \in DOMAIN proposals : proposals[q] \in ProposalRecord
        BY <1>1
      <4> QED  BY <4>1 DEF ProposalRecord
    <3>5. /\ proposals' \in Seq(ProposalRecord) /\ DOMAIN proposals' = DOMAIN proposals
          /\ \A q \in DOMAIN proposals : proposals'[q] = IF q = p THEN n ELSE proposals[q]
      BY <1>1, <3>2, <3>3
    <3>6. ASSUME NEW q \in DOMAIN proposals
          PROVE  /\ proposals'[q].deadline = proposals[q].deadline
                 /\ \A u \in VoteTypes :
                        proposals'[q].counts[u] = proposals[q].counts[u] + (IF q = p /\ u = t THEN 1 ELSE 0)
      <4>1. CASE q = p
        <5>1. proposals'[q] = n
          BY <3>5, <4>1
        <5> QED  BY <3>1, <3>3, <4>1, <5>1
      <4>2. CASE q # p
        <5>1. proposals'[q] = proposals[q]
          BY <3>5, <4>2
        <5> QED  BY <3>4, <4>2, <5>1
      <4> QED  BY <4>1, <4>2
    <3> QED  BY <3>5, <3>6
  <2>4. /\ votes' \in Seq(VoteRecord)
        /\ DOMAIN votes = 1..Len(votes) /\ Len(votes) \in Nat
        /\ DOMAIN votes' = (DOMAIN votes) \cup {Len(votes) + 1}
        /\ \A i \in DOMAIN votes : votes'[i] = votes[i]
        /\ votes'[Len(votes) + 1] = x
    BY <1>1, <2>1, <2>2
  <2>5. OutcomeFixedAtDeadline'
    <3>1. stamp <= proposals[p].deadline + 1
      BY <1>1, <1>3 DEF ProposalRecord
    <3>2. \A i \in DOMAIN votes : /\ votes[i].proposal \in DOMAIN proposals
                                  /\ votes[i].at <= proposals[votes[i].proposal].deadline + 1
      BY DEF VotesInv, OutcomeFixedAtDeadline
    <3> QED  BY <2>0, <2>3, <2>4, <3>1, <3>2 DEF OutcomeFixedAtDeadline
  <2>6. \A q \in DOMAIN proposals, u \in VoteTypes :
            proposals'[q].counts[u] = Unbacked(q, u) + Times(votes', Cast(q, u))
    <3> SUFFICES ASSUME NEW q \in DOMAIN proposals, NEW u \in VoteTypes
                 PROVE  proposals'[q].counts[u] = Unbacked(q, u) + Times(votes', Cast(q, u))
      OBVIOUS
    <3>1. Times(votes', Cast(q, u)) = Times(votes, Cast(q, u)) + (IF x \in Cast(q, u) THEN 1 ELSE 0)
      BY <1>1, <2>1, <2>2, TimesAppend
    <3>2. x \in Cast(q, u) <=> q = p /\ u = t
      BY <2>0, <2>2 DEF Cast
    <3>3. proposals[q].counts[u] = Unbacked(q, u) + Times(votes, Cast(q, u))
      BY DEF VotesInv
    <3>4. Times(votes, Cast(q, u)) \in Nat /\ Unbacked(q, u) \in Int
      <4>1. Times(votes, Cast(q, u)) \in Nat
        BY <1>1, TimesOf
      <4>2. q \in Nat
        BY <1>1
      <4> QED  BY <4>1, <4>2, UnbackedIsNumber
    <3>5. proposals'[q].counts[u] = proposals[q].counts[u] + (IF q = p /\ u = t THEN 1 ELSE 0)
      BY <2>3
    <3> QED  BY <3>1, <3>2, <3>3, <3>4, <3>5
  <2>7. \A i, j \in DOMAIN votes' :
            votes'[i].proposal = votes'[j].proposal /\ votes'[i].voter = votes'[j].voter => i = j
    <3>1. \A i \in DOMAIN votes : ~ (votes[i].proposal = p /\ votes[i].voter = v)
      BY DEF CastVote, HasVoted
    <3>2. \A i, j \in DOMAIN votes :
              votes[i].proposal = votes[j].proposal /\ votes[i].voter = votes[j].voter => i = j
      BY DEF VotesInv
    <3>3. x.proposal = p /\ x.voter = v
      BY <2>0
    <3> QED  BY <2>4, <3>1, <3>2, <3>3
  <2>8. /\ 1 \in DOMAIN proposals /\ threads' \in 0..MaxThreads
        /\ \A i \in DOMAIN votes' : votes'[i].proposal \in DOMAIN proposals
    BY <1>1, <2>0, <2>4 DEF VotesInv
  <2> QED  BY <2>3, <2>4, <2>5, <2>6, <2>7, <2>8 DEF VotesInv
<1> QED  BY <1>2, <1>3

\* The counts shown are the votes recorded, one per voter.
LEMMA CountsFromVotes == VotesInv => CountsAreVotes /\ ForumTypeOK
<1> SUFFICES ASSUME VotesInv PROVE CountsAreVotes /\ ForumTypeOK
  OBVIOUS
<1>1. ForumTypeOK
  <2>1. threads \in 0..MaxThreads /\ \A p \in DOMAIN proposals : proposals[p] \in ProposalRecord
    BY DEF VotesInv
  <2> QED  BY <2>1 DEF ForumTypeOK, ProposalRecord
<1>2. ASSUME NEW p \in DOMAIN proposals, NEW t \in VoteTypes
      PROVE  LET cast == {i \in ProposalVotes(p) : votes[i].type = t} IN
             /\ proposals[p].counts[t] = Unbacked(p, t) + Cardinality(cast)
             /\ Cardinality({votes[i].voter : i \in cast}) = Cardinality(cast)
  <2>1. {i \in ProposalVotes(p) : votes[i].type = t} = Places(votes, Cast(p, t))
    BY DEF VotesInv, ProposalVotes, Places, Cast
  <2> DEFINE cast == Places(votes, Cast(p, t))
             f == [i \in cast |-> votes[i].voter]
  <2>2. IsFiniteSet(cast) /\ proposals[p].counts[t] = Unbacked(p, t) + Cardinality(cast)
    BY TimesOf DEF VotesInv, Times
  <2>3. \A i, j \in cast : f[i] = f[j] => i = j
    BY DEF VotesInv, Places, Cast
  <2>4. {votes[i].voter : i \in cast} = {f[i] : i \in cast}
    OBVIOUS
  <2> HIDE DEF cast, f
  <2>5. Cardinality({f[i] : i \in cast}) = Cardinality(cast)
    BY <2>2, <2>3, DistinctValues
  <2> QED  BY <2>1, <2>2, <2>4, <2>5 DEF cast
<1> QED  BY <1>1, <1>2 DEF CountsAreVotes


-----------------------------------------------------------------------------
(* The statistics of a scope. *)

LEMMA QuotientTimes ==
    ASSUME NEW s \in Nat, NEW n \in Nat, n > 0
    PROVE  (s \div n) * n <= s
OBVIOUS

\* The statistics of any scope agree with the lists of that scope.
LEMMA AnswersAgree ==
    ASSUME NEW coop, NEW comm, Answer(coop, comm)
    PROVE  StatsAgreeWithLists'
<1> DEFINE list == FilterReceipts(coop, comm)
           txs == FilterTokenTransactions(coop, comm)
           DR == DOMAIN Receipts
           DT == DOMAIN Transactions
           usage == [i \in DR |-> Receipts[i].usage]
           amount == [i \in DT |-> Transactions[i].amount]
           executor == [i \in list |-> Receipts[i].executor]
           K == {executor[i] : i \in list}
           per == [x \in K |-> Cardinality({i \in list : executor[i] = x})]
           minted == {i \in txs : Transactions[i].op = "mint"}
           burnt == {i \in txs : Transactions[i].op = "burn"}
<1>1. /\ IsFiniteSet(DR) /\ IsFiniteSet(DT) /\ list \in SUBSET DR /\ txs \in SUBSET DT
      /\ minted \in SUBSET txs /\ burnt \in SUBSET txs /\ minted \cap burnt = {}
      /\ \A i \in DR : usage[i] \in Nat
      /\ \A i \in DT : amount[i] \in Nat
  BY ForumAssumption DEF FilterReceipts, FilterTokenTransactions
<1>2. ReceiptStats(coop, comm) =
          [total |-> Cardinality(list), perExecutor |-> per,
           avg |-> IF Cardinality(list) > 0 THEN Usages(list) \div Cardinality(list) ELSE 0]
  <2>1. K = {Receipts[i].executor : i \in list}
    OBVIOUS
  <2>2. per = [x \in {Receipts[i].executor : i \in list} |->
                   Cardinality({i \in list : Receipts[i].executor = x})]
    <3>1. \A x : {i \in list : executor[i] = x} = {i \in list : Receipts[i].executor = x}
      OBVIOUS
    <3> HIDE DEF executor, list
    <3> QED  BY <2>1, <3>1
  <2> HIDE DEF per
  <2> QED  BY <2>2 DEF ReceiptStats, FilterReceipts
<1>3. TokenStats(coop, comm) =
          [minted |-> Amounts(minted), burnt |-> Amounts(burnt), volume |-> Amounts(txs),
           active |-> Cardinality(UNION {{Transactions[i].from, Transactions[i].to} : i \in txs})]
  BY DEF TokenStats, FilterTokenTransactions
<1> HIDE DEF list, txs, per, minted, burnt
<1>4. /\ answer'.list = list /\ answer'.total = Cardinality(list) /\ answer'.perExecutor = per
      /\ answer'.avg = (IF Cardinality(list) > 0 THEN Usages(list) \div Cardinality(list) ELSE 0)
      /\ answer'.txs = txs /\ answer'.volume = Amounts(txs)
      /\ answer'.minted = Amounts(minted) /\ answer'.burnt = Amounts(burnt)
  BY <1>2, <1>3 DEF Answer, list, txs
<1> HIDE DEF DR, DT, usage, amount
<1>5. IsFiniteSet(list) /\ Cardinality(list) \in Nat /\ IsFiniteSet(txs)
  BY <1>1, FS_Subset, FS_CardinalityType
<1>6. Usages(list) \in Nat
  <2>1. SumFunctionOnSet(usage, list) \in Nat
    BY <1>1, SumStep
  <2> QED  BY <2>1 DEF Usages, usage, DR
<1>7. Amounts(minted) + Amounts(burnt) <= Amounts(txs)
  <2>1. \A i \in txs : amount[i] \in Nat
    BY <1>1
  <2>2. SumFunctionOnSet(amount, minted) + SumFunctionOnSet(amount, burnt) <= SumFunctionOnSet(amount, txs)
    BY <1>1, <1>5, <2>1, SumOfParts
  <2> QED  BY <2>2 DEF Amounts, amount, DT
<1>8. SumFunctionOnSet(per, K) = Cardinality(list) /\ DOMAIN per = K
  <2>1. DOMAIN per = K
    BY DEF per
  <2> HIDE DEF executor
  <2> QED  BY <1>5, <2>1, SumOfClasses DEF per
<1>9. answer'.avg * answer'.total <= Usages(list)
  <2> DEFINE u == Usages(list)
             n == Cardinality(list)
  <2>1. u \in Nat /\ n \in Nat /\ answer'.avg = (IF n > 0 THEN u \div n ELSE 0) /\ answer'.total = n
    BY <1>4, <1>5, <1>6
  <2> HIDE DEF u, n
  <2>2. CASE n > 0
    BY <2>1, <2>2, QuotientTimes DEF u
  <2>3. CASE ~ (n > 0)
    BY <2>1, <2>3 DEF u
  <2> QED  BY <2>2, <2>3
<1>10. Usages(answer.list)' = Usages(list) /\ Amounts(answer.txs)' = Amounts(txs)
  BY <1>4 DEF Usages, Amounts
<1> QED  BY <1>4, <1>7, <1>8, <1>9, <1>10 DEF StatsAgreeWithLists

LEMMA NoAnswerAgrees == answer = NoAnswer => StatsAgreeWithLists
<1> SUFFICES ASSUME answer = NoAnswer PROVE StatsAgreeWithLists
  OBVIOUS
<1>1. \A f : SumFunctionOnSet(f, {}) = 0
  BY SumOfZeros, FS_EmptySet
<1>2. Cardinality({}) = 0 /\ DOMAIN <<>> = {}
  BY FS_EmptySet
<1>3. Usages({}) = 0 /\ Amounts({}) = 0
  BY <1>1 DEF Usages, Amounts
<1> QED  BY <1>1, <1>2, <1>3 DEF NoAnswer, StatsAgreeWithLists

ForumInv == VotesInv /\ StatsAgreeWithLists

LEMMA ForumInitially == Init => ForumInv
<1> SUFFICES ASSUME Init PROVE ForumInv
  OBVIOUS
<1>1. answer = NoAnswer /\ ForumInit
  BY DEF Init, ForumInit
<1> QED  BY <1>1, VotesInitially, NoAnswerAgrees DEF ForumInv

LEMMA NoAnswerAgreesNext == answer' = NoAnswer => StatsAgreeWithLists'
<1> DEFINE P == answer = NoAnswer
<1>1. P => StatsAgreeWithLists
  BY NoAnswerAgrees
<1>2. P' <=> answer' = NoAnswer
  BY DEF NoAnswer
<1> HIDE DEF P
<1>3. P' => StatsAgreeWithLists'
  BY <1>1, PTL
<1> QED  BY <1>2, <1>3

LEMMA NextKeepsForum == StoreInv /\ ForumInv /\ [Next]_vars => ForumInv'
<1> SUFFICES ASSUME StoreInv, ForumInv, [Next]_vars PROVE ForumInv'
  OBVIOUS
<1>1. ASSUME UNCHANGED forum PROVE VotesInv'
  BY <1>1 DEF forum, ForumInv, VotesInv, OutcomeFixedAtDeadline
<1>2. ASSUME answer' = NoAnswer PROVE StatsAgreeWithLists'
  BY <1>2, NoAnswerAgreesNext
<1>3. CASE TokenNext /\ answer' = NoAnswer /\ UNCHANGED <<forum, hvars>>
  BY <1>1, <1>2, <1>3 DEF ForumInv
<1>4. ASSUME NEW c \in Conns PROVE Forbidden(c) => ForumInv'
  BY <1>1, <1>2 DEF Forbidden, ForumInv
<1>5. ASSUME NEW c \in Conns, NEW o, NEW m, ReadScoped(c, o, m) PROVE ForumInv'
  <2>1. Answer(o, m) /\ UNCHANGED forum
    BY <1>5 DEF ReadScoped, Answer
  <2> QED  BY <1>1, <2>1, AnswersAgree DEF ForumInv
<1>6. ASSUME NEW c \in Conns, NEW o, NEW r PROVE OrgOperation(c, o, r) => ForumInv'
  BY <1>1, <1>2 DEF OrgOperation, ForumInv
<1>7. ASSUME NEW c, NEW t, NEW f, NEW o, NEW m PROVE Connect(c, t, f, o, m) => ForumInv'
  BY <1>1, <1>2 DEF Connect, Quiet, ForumInv
<1>8. CASE Deliberate
  <2>1. ASSUME NEW d \in Deadlines PROVE CreateProposal(d) => VotesInv'
    BY ProposalKeepsVotes DEF ForumInv
  <2>3. ASSUME NEW p \in DOMAIN proposals, NEW v \in Voters, NEW t \in VoteTypes, NEW stamp \in {now, now + 1}
        PROVE  CastVote(p, v, t, now, stamp) => VotesInv'
    BY VoteKeepsVotes, TokenAssumption DEF ForumInv, StoreInv
  <2>4. CreateThread => VotesInv'
    <3>1. CASE CreateThread
      <4>1. threads' \in 0..MaxThreads /\ proposals' = proposals /\ votes' = votes
        BY <3>1, ForumAssumption DEF CreateThread, ForumInv, VotesInv
      <4> QED  BY <4>1 DEF ForumInv, VotesInv, OutcomeFixedAtDeadline
    <3> QED  BY <3>1
  <2>5. answer' = NoAnswer
    BY <1>8 DEF Deliberate, Quiet
  <2> QED  BY <1>2, <1>8, <2>1, <2>3, <2>4, <2>5 DEF Deliberate, ForumInv
<1>9. CASE Publish \/ Deliver
  BY <1>1, <1>2, <1>9 DEF Publish, Deliver, Quiet, ForumInv
<1>10. CASE UNCHANGED vars
  <2>1. UNCHANGED forum /\ answer' = answer
    BY <1>10 DEF vars, fvars, forum
  <2> QED  BY <1>1, <2>1 DEF ForumInv, StatsAgreeWithLists, Usages, Amounts
<1> QED  BY <1>3, <1>4, <1>5, <1>6, <1>7, <1>8, <1>9, <1>10 DEF Next

\* Votes, counts and statistics say the same of a proposal and of a scope, for any electorate
\* and any store: the counts are the votes recorded in time, one per voter, and the two
\* statistics agree with the lists they are computed beside (cast_vote_handler,
\* get_receipt_stats, get_token_stats).
THEOREM ForumIsSound == Spec => []ForumSound
<1>1. ForumInv => ForumSound
  BY CountsFromVotes DEF ForumInv, VotesInv, ForumSound
<1>2. TokenInv => StoreInv
  BY DEF TokenInv
<1> QED  BY <1>1, <1>2, TokenInvariance, ForumInitially, NextKeepsForum, PTL DEF Spec

-----------------------------------------------------------------------------
(* The channels. *)

\* The enclosing scopes of a scope, by their depth.
LEMMA PrefixFacts ==
    ASSUME NEW s \in Scopes, NEW m \in 0..Len(s)
    PROVE  /\ SubSeq(s, 1, m) \in Scopes /\ Len(SubSeq(s, 1, m)) = m
           /\ m = 0 => SubSeq(s, 1, m) = <<>>
           /\ m = Len(s) => SubSeq(s, 1, m) = s
           /\ \A n \in 0..m : SubSeq(SubSeq(s, 1, m), 1, n) = SubSeq(s, 1, n)
<1>1. s \in Seq(Organisations) /\ Len(s) \in Nat
  BY HubAssumption
<1>2. SubSeq(s, 1, m) \in Scopes
  BY HubAssumption
<1>3. /\ Len(SubSeq(s, 1, m)) = m
      /\ \A i \in 1..m : SubSeq(s, 1, m)[i] = s[i]
      /\ SubSeq(s, 1, m) \in Seq(Organisations)
  <2>1. \A i \in 1..m : s[i] \in Organisations
    BY <1>1
  <2> QED  BY <1>1, <2>1, SubSeqProperties
<1>4. m = 0 => SubSeq(s, 1, m) = <<>>
  BY SubSeqEmpty
<1>5. m = Len(s) => SubSeq(s, 1, m) = s
  BY <1>1, SubSeqFull
<1>6. ASSUME NEW n \in 0..m PROVE SubSeq(SubSeq(s, 1, m), 1, n) = SubSeq(s, 1, n)
  <2> DEFINE p == SubSeq(s, 1, m)
  <2>1. p \in Seq(Organisations) /\ Len(p) = m /\ \A i \in 1..m : p[i] = s[i]
    BY <1>3
  <2> HIDE DEF p
  <2>2. (\A i \in 1..n : p[i] \in Organisations) /\ (\A i \in 1..n : s[i] \in Organisations)
    BY <1>1, <2>1
  <2>3. /\ SubSeq(p, 1, n) \in Seq(Organisations) /\ Len(SubSeq(p, 1, n)) = n
        /\ \A i \in 1..n : SubSeq(p, 1, n)[i] = p[i]
    BY <2>2, SubSeqProperties
  <2>4. /\ SubSeq(s, 1, n) \in Seq(Organisations) /\ Len(SubSeq(s, 1, n)) = n
        /\ \A i \in 1..n : SubSeq(s, 1, n)[i] = s[i]
    BY <2>2, SubSeqProperties
  <2>5. SubSeq(p, 1, n) = SubSeq(s, 1, n)
    BY <2>1, <2>3, <2>4
  <2> QED  BY <2>5 DEF p
<1> QED  BY <1>2, <1>3, <1>4, <1>5, <1>6

\* broadcast_event climbs from the scope to "global", one level at a time.
LEMMA BroadcastClimbs ==
    ASSUME NEW s \in Scopes, s # <<>>
    PROVE  /\ BroadcastEvent(s) \in Seq(Scopes)
           /\ Len(BroadcastEvent(s)) = Len(s) + 1
           /\ \A i \in 1..(Len(s) + 1) : BroadcastEvent(s)[i] = SubSeq(s, 1, Len(s) + 1 - i)
<1>1. s \in Seq(Organisations) /\ Len(s) \in Nat /\ Len(s) <= 3 /\ <<>> \in Scopes
  BY HubAssumption
<1>2. Len(s) # 0
  BY <1>1
<1>3. \A m \in 0..Len(s) : SubSeq(s, 1, m) \in Scopes
  BY PrefixFacts
<1>4. SubSeq(s, 1, 0) = <<>> /\ SubSeq(s, 1, Len(s)) = s
  BY <1>1, PrefixFacts
<1>5. CASE Len(s) = 1
  <2>1. BroadcastEvent(s) = <<s, <<>>>>
    BY <1>5 DEF BroadcastEvent
  <2>2. SubSeq(s, 1, 1) = s
    BY <1>4, <1>5
  <2> QED  BY <1>1, <1>4, <1>5, <2>1, <2>2
<1>6. CASE Len(s) = 2
  <2>1. BroadcastEvent(s) = <<s, SubSeq(s, 1, 1), <<>>>>
    BY <1>6 DEF BroadcastEvent
  <2>2. SubSeq(s, 1, 2) = s /\ SubSeq(s, 1, 1) \in Scopes
    BY <1>3, <1>4, <1>6
  <2> QED  BY <1>1, <1>4, <1>6, <2>1, <2>2
<1>7. CASE Len(s) = 3
  <2>1. BroadcastEvent(s) = <<s, SubSeq(s, 1, 2), SubSeq(s, 1, 1), <<>>>>
    BY <1>7 DEF BroadcastEvent
  <2>2. SubSeq(s, 1, 3) = s /\ SubSeq(s, 1, 1) \in Scopes /\ SubSeq(s, 1, 2) \in Scopes
    BY <1>3, <1>4, <1>7
  <2> DEFINE a == SubSeq(s, 1, 2)
             b == SubSeq(s, 1, 1)
             B == <<s, a, b, <<>>>>
  <2>3. a \in Scopes /\ b \in Scopes
    BY <2>2
  <2> HIDE DEF a, b
  <2>4. B \in Seq(Scopes) /\ Len(B) = 4
    BY <1>1, <2>3
  <2>5. B[1] = s /\ B[2] = a /\ B[3] = b /\ B[4] = <<>>
    OBVIOUS
  <2> HIDE DEF B
  <2>6. \A i \in 1..4 : B[i] = SubSeq(s, 1, 4 - i)
    <3>1. \A i \in 1..4 : i = 1 \/ i = 2 \/ i = 3 \/ i = 4
      OBVIOUS
    <3>2. /\ B[1] = SubSeq(s, 1, 4 - 1) /\ B[2] = SubSeq(s, 1, 4 - 2)
          /\ B[3] = SubSeq(s, 1, 4 - 3) /\ B[4] = SubSeq(s, 1, 4 - 4)
      BY <1>4, <2>2, <2>5 DEF a, b
    <3> QED  BY <3>1, <3>2
  <2>7. BroadcastEvent(s) = B /\ Len(s) + 1 = 4 /\ \A i \in 1..4 : Len(s) + 1 - i = 4 - i
    BY <1>7, <2>1 DEF B, a, b
  <2>8. Len(BroadcastEvent(s)) = Len(s) + 1 /\ BroadcastEvent(s) \in Seq(Scopes)
    BY <2>4, <2>7
  <2>9. ASSUME NEW i \in 1..(Len(s) + 1) PROVE BroadcastEvent(s)[i] = SubSeq(s, 1, Len(s) + 1 - i)
    <3>1. i \in 1..4 /\ Len(s) + 1 - i = 4 - i /\ B[i] = SubSeq(s, 1, 4 - i) /\ BroadcastEvent(s) = B
      BY <2>6, <2>7
    <3> QED  BY <3>1
  <2> QED  BY <2>8, <2>9
<1>8. Len(s) = 1 \/ Len(s) = 2 \/ Len(s) = 3
  <2> DEFINE n == Len(s)
  <2>1. n \in Nat /\ n <= 3 /\ n # 0
    BY <1>1, <1>2
  <2> HIDE DEF n
  <2>2. n = 1 \/ n = 2 \/ n = 3
    BY <2>1
  <2> QED  BY <2>2 DEF n
<1> QED  BY <1>5, <1>6, <1>7, <1>8

\* Every scope around one that is announced to is announced to once, "global" twice only for
\* events of its own.
LEMMA BroadcastTimes ==
    ASSUME NEW s \in Scopes
    PROVE  /\ BroadcastEvent(s) \in Seq(Scopes)
           /\ \A ch \in Scopes : Times(BroadcastEvent(s), {ch}) \in 0..2
           /\ \A ch \in Scopes : ch # <<>> /\ Times(BroadcastEvent(s), {ch}) # 0 =>
                  /\ Times(BroadcastEvent(s), {ch}) = 1
                  /\ \A n \in 0..Len(ch) : /\ SubSeq(ch, 1, n) \in Scopes
                                           /\ Times(BroadcastEvent(s), {SubSeq(ch, 1, n)}) = 1
<1> DEFINE B == BroadcastEvent(s)
<1>1. CASE s = <<>>
  <2>1. B = <<<<>>, <<>>>> /\ <<>> \in Scopes
    BY <1>1, HubAssumption DEF BroadcastEvent
  <2>2. B \in Seq(Scopes)
    BY <2>1
  <2>3. ASSUME NEW ch \in Scopes, ch # <<>> PROVE Times(B, {ch}) = 0
    <3>1. Places(B, {ch}) = {}
      BY <2>1, <2>3 DEF Places
    <3> QED  BY <3>1, FS_EmptySet DEF Times
  <2>4. Times(B, {<<>>}) = 2
    <3> HIDE DEF B
    <3>0. PICK b \in Nat : b = 2
      OBVIOUS
    <3>a. DOMAIN B = 1..2 /\ B[1] = <<>> /\ B[2] = <<>>
      BY <2>1
    <3>b. 1..b = 1..2 /\ \A i \in 1..b : i = 1 \/ i = 2
      BY <3>0
    <3>1. DOMAIN B = 1..b /\ \A i \in 1..b : B[i] = <<>>
      BY <3>a, <3>b
    <3>2. Places(B, {<<>>}) = 1..b
      BY <3>1 DEF Places
    <3>3. Cardinality(1..b) = b
      <4>1. Cardinality(1..b) = IF 1 > b THEN 0 ELSE b - 1 + 1
        BY FS_Interval
      <4> QED  BY <3>0, <4>1
    <3> QED  BY <3>0, <3>2, <3>3 DEF Times
  <2> HIDE DEF B
  <2>5. ASSUME NEW ch \in Scopes
        PROVE  Times(B, {ch}) \in 0..2 /\ (ch # <<>> => Times(B, {ch}) = 0)
    BY <2>3, <2>4
  <2> QED  BY <2>2, <2>5 DEF B
<1>2. CASE s # <<>>
  <2>1. /\ B \in Seq(Scopes) /\ Len(B) = Len(s) + 1
        /\ \A i \in 1..(Len(s) + 1) : B[i] = SubSeq(s, 1, Len(s) + 1 - i)
    BY <1>2, BroadcastClimbs
  <2>2. Len(s) \in Nat
    BY HubAssumption
  <2> HIDE DEF B
  <2>3. \A i \in 1..(Len(s) + 1) : Len(B[i]) = Len(s) + 1 - i
    BY <2>1, <2>2, PrefixFacts
  <2>4. ASSUME NEW j \in 1..(Len(s) + 1) PROVE Times(B, {B[j]}) = 1
    <3>1. Places(B, {B[j]}) = {j}
      BY <2>1, <2>2, <2>3 DEF Places
    <3> QED  BY <3>1, FS_Singleton DEF Times
  <2>5. ASSUME NEW ch \in Scopes
        PROVE  Times(B, {ch}) = 0 \/ \E j \in 1..(Len(s) + 1) : B[j] = ch
    <3>1. CASE Places(B, {ch}) = {}
      BY <3>1, FS_EmptySet DEF Times
    <3>2. CASE Places(B, {ch}) # {}
      BY <2>1, <3>2 DEF Places
    <3> QED  BY <3>1, <3>2
  <2>6. ASSUME NEW j \in 1..(Len(s) + 1), NEW n \in 0..Len(B[j])
        PROVE  /\ SubSeq(B[j], 1, n) \in Scopes
               /\ Times(B, {SubSeq(B[j], 1, n)}) = 1
    <3> DEFINE m == Len(s) + 1 - j
               k == Len(s) + 1 - n
    <3>1. m \in 0..Len(s) /\ n \in 0..m /\ k \in 1..(Len(s) + 1) /\ Len(s) + 1 - k = n
      BY <2>2, <2>3
    <3>2. B[j] = SubSeq(s, 1, m)
      BY <2>1
    <3>3. SubSeq(B[j], 1, n) = SubSeq(s, 1, n) /\ SubSeq(s, 1, n) \in Scopes
      <4> HIDE DEF m
      <4>1. n \in 0..Len(s)
        BY <2>2, <3>1
      <4> QED  BY <3>1, <3>2, <4>1, PrefixFacts
    <3>4. B[k] = SubSeq(s, 1, n)
      <4>1. B[k] = SubSeq(s, 1, Len(s) + 1 - k)
        BY <2>1, <3>1
      <4> QED  BY <3>1, <4>1
    <3> HIDE DEF k
    <3> QED  BY <2>4, <3>1, <3>3, <3>4
  <2>7. B \in Seq(Scopes)
    BY <2>1
  <2>8. ASSUME NEW ch \in Scopes
        PROVE  /\ Times(B, {ch}) \in 0..2
               /\ Times(B, {ch}) # 0 => /\ Times(B, {ch}) = 1
                                        /\ \A n \in 0..Len(ch) : /\ SubSeq(ch, 1, n) \in Scopes
                                                                 /\ Times(B, {SubSeq(ch, 1, n)}) = 1
    <3>1. CASE Times(B, {ch}) = 0
      BY <3>1
    <3>2. ASSUME NEW j \in 1..(Len(s) + 1), B[j] = ch
          PROVE  Times(B, {ch}) = 1 /\ \A n \in 0..Len(ch) : /\ SubSeq(ch, 1, n) \in Scopes
                                                             /\ Times(B, {SubSeq(ch, 1, n)}) = 1
      BY <2>4, <2>6, <3>2
    <3>3. CASE \E j \in 1..(Len(s) + 1) : B[j] = ch
      <4>1. PICK j \in 1..(Len(s) + 1) : B[j] = ch
        BY <3>3
      <4>2. Times(B, {ch}) = 1
        BY <3>2, <4>1
      <4>3. \A n \in 0..Len(ch) : SubSeq(ch, 1, n) \in Scopes /\ Times(B, {SubSeq(ch, 1, n)}) = 1
        BY <3>2, <4>1
      <4>4. Times(B, {ch}) \in 0..2
        BY <4>2
      <4> QED  BY <4>2, <4>3, <4>4
    <3> QED  BY <2>5, <3>1, <3>3
  <2> QED  BY <2>7, <2>8 DEF B
<1> QED  BY <1>1, <1>2


SentEvent == [ev : Nat, by : {"simulation", "handler"}]
Pending == [ch : Scopes, ev : Nat]
Connection == [on : BOOLEAN, ch : Scopes, from : Nat, got : Seq(SentEvent)]

CopiesOf(e) == {x \in SentEvent : x.ev = e}
PendingOn(ch) == {x \in Pending : x.ch = ch}

\* What a connection has forwarded lies without a gap on its channel.
Forwarded(c) ==
    /\ Position(c) <= Len(sent[conn[c].ch])
    /\ \A k \in 1..Len(conn[c].got) : conn[c].got[k] = sent[conn[c].ch][conn[c].from + k]

\* An event was announced around a scope, or it is a notice that no announcement shows.
Announced(e, s) ==
    \A ch \in Scopes : Times(sent[ch], CopiesOf(e)) + Times(sending, {[ch |-> ch, ev |-> e]})
                           = Times(BroadcastEvent(s), {ch})
Noticed(e) ==
    /\ \A ch \in Scopes : ~ Simulated(e, ch)
    /\ \A i \in DOMAIN sending : sending[i].ev # e

ChannelInv ==
    /\ events \in 0..MaxEvents
    /\ sent \in [Scopes -> Seq(SentEvent)]
    /\ sending \in Seq(Pending)
    /\ \A ch \in Scopes : Len(sent[ch]) + Times(sending, PendingOn(ch)) <= 2 * events
    /\ \A ch \in Scopes : \A i \in DOMAIN sent[ch] : sent[ch][i].ev \in 1..events
    /\ \A i \in DOMAIN sending : sending[i].ev \in 1..events
    /\ \A e \in 1..events : Noticed(e) \/ \E s \in Scopes : Announced(e, s)

ConnectionInv == conn \in [Clients -> Connection] /\ \A c \in Clients : Forwarded(c)

HubInv == ChannelInv /\ ConnectionInv

LEMMA HubInitially == HubInit => HubInv
<1> SUFFICES ASSUME HubInit PROVE HubInv
  OBVIOUS
<1> USE DEF HubInit
<1>1. \A ch \in Scopes : sent[ch] = <<>>
  OBVIOUS
<1>2. sent \in [Scopes -> Seq(SentEvent)] /\ sending \in Seq(Pending) /\ events \in 0..MaxEvents
  BY HubAssumption
<1>3. \A ch \in Scopes : Times(sending, PendingOn(ch)) = 0
  BY <1>2, TimesOf
<1>4. \A ch \in Scopes : Len(sent[ch]) + Times(sending, PendingOn(ch)) <= 2 * events
  BY <1>1, <1>3
<1>5. ChannelInv
  BY <1>1, <1>2, <1>4 DEF ChannelInv
<1>6. Off \in Connection
  BY HubAssumption DEF Off, Connection
<1>7. ConnectionInv
  <2>1. conn \in [Clients -> Connection]
    BY <1>6
  <2>2. ASSUME NEW c \in Clients PROVE Forwarded(c)
    <3>1. conn[c].from = 0 /\ conn[c].got = <<>> /\ conn[c].ch = <<>> /\ <<>> \in Scopes
      BY HubAssumption DEF Off
    <3> QED  BY <1>1, <3>1 DEF Forwarded, Position
  <2> QED  BY <2>1, <2>2 DEF ConnectionInv
<1> QED  BY <1>5, <1>7 DEF HubInv

\* An event more on a channel.
Sends(ch, x) == sent' = [sent EXCEPT ![ch] = Append(@, x)]

LEMMA SendAppends ==
    ASSUME sent \in [Scopes -> Seq(SentEvent)], NEW ch \in Scopes, NEW x \in SentEvent, Sends(ch, x)
    PROVE  /\ sent' \in [Scopes -> Seq(SentEvent)]
           /\ \A c \in Scopes : Len(sent'[c]) = Len(sent[c]) + (IF c = ch THEN 1 ELSE 0)
           /\ \A c \in Scopes : \A i \in DOMAIN sent[c] : i \in DOMAIN sent'[c] /\ sent'[c][i] = sent[c][i]
           /\ \A c \in Scopes : \A i \in DOMAIN sent'[c] :
                  i \in DOMAIN sent[c] \/ (c = ch /\ sent'[c][i] = x)
           /\ \A c \in Scopes, e \in Nat :
                  Times(sent'[c], CopiesOf(e)) = Times(sent[c], CopiesOf(e)) + (IF c = ch /\ x.ev = e THEN 1 ELSE 0)
<1>1. /\ sent[ch] \in Seq(SentEvent) /\ sent'[ch] = Append(sent[ch], x)
      /\ sent' \in [Scopes -> Seq(SentEvent)]
      /\ \A c \in Scopes : c # ch => sent'[c] = sent[c]
  BY DEF Sends
<1>2. \A c \in Scopes : Len(sent[c]) \in Nat /\ DOMAIN sent[c] = 1..Len(sent[c])
  OBVIOUS
<1>3. /\ Len(sent'[ch]) = Len(sent[ch]) + 1 /\ DOMAIN sent'[ch] = 1..(Len(sent[ch]) + 1)
      /\ \A i \in 1..Len(sent[ch]) : sent'[ch][i] = sent[ch][i]
      /\ sent'[ch][Len(sent[ch]) + 1] = x
  BY <1>1
<1>4. ASSUME NEW c \in Scopes, NEW e \in Nat
      PROVE  Times(sent'[c], CopiesOf(e)) = Times(sent[c], CopiesOf(e)) + (IF c = ch /\ x.ev = e THEN 1 ELSE 0)
  <2>1. Times(sent[c], CopiesOf(e)) \in Nat
    BY TimesOf
  <2>2. CASE c = ch
    <3>1. PICK s \in Seq(SentEvent) : s = sent[ch] /\ sent'[ch] = Append(s, x)
      BY <1>1
    <3>2. Times(Append(s, x), CopiesOf(e)) = Times(s, CopiesOf(e)) + (IF x \in CopiesOf(e) THEN 1 ELSE 0)
      BY TimesAppend
    <3>3. x \in CopiesOf(e) <=> x.ev = e
      BY DEF CopiesOf
    <3> QED  BY <2>2, <3>1, <3>2, <3>3
  <2>3. CASE c # ch
    BY <1>1, <2>1, <2>3
  <2> QED  BY <2>2, <2>3
<1>5. \A c \in Scopes : Len(sent'[c]) = Len(sent[c]) + (IF c = ch THEN 1 ELSE 0)
  BY <1>1, <1>2, <1>3
<1>6. /\ \A c \in Scopes : \A i \in DOMAIN sent[c] : i \in DOMAIN sent'[c] /\ sent'[c][i] = sent[c][i]
      /\ \A c \in Scopes : \A i \in DOMAIN sent'[c] : i \in DOMAIN sent[c] \/ (c = ch /\ sent'[c][i] = x)
  <2>1. /\ \A i \in DOMAIN sent[ch] : i \in DOMAIN sent'[ch] /\ sent'[ch][i] = sent[ch][i]
        /\ \A i \in DOMAIN sent'[ch] : i \in DOMAIN sent[ch] \/ sent'[ch][i] = x
    BY <1>2, <1>3
  <2> QED  BY <1>1, <2>1
<1> QED  BY <1>1, <1>4, <1>5, <1>6

\* What was forwarded stays a part of the channel when events are added.
LEMMA SendKeepsConnections ==
    ASSUME HubInv, NEW ch \in Scopes, NEW x \in SentEvent, Sends(ch, x), UNCHANGED conn
    PROVE  ConnectionInv'
<1>1. /\ sent \in [Scopes -> Seq(SentEvent)] /\ conn \in [Clients -> Connection]
      /\ \A c \in Clients : Forwarded(c)
  BY DEF HubInv, ChannelInv, ConnectionInv
<1>2. /\ sent' \in [Scopes -> Seq(SentEvent)]
      /\ \A c \in Scopes : Len(sent'[c]) >= Len(sent[c])
      /\ \A c \in Scopes : \A i \in DOMAIN sent[c] : sent'[c][i] = sent[c][i]
  <2>1. \A c \in Scopes : Len(sent[c]) \in Nat
    BY <1>1
  <2> QED  BY <1>1, <2>1, SendAppends
<1>3. ASSUME NEW c \in Clients PROVE Forwarded(c)'
  <2> DEFINE s == conn[c].ch
             n == Len(conn[c].got)
             f == conn[c].from
  <2>1. s \in Scopes /\ n \in Nat /\ f \in Nat
    <3>1. conn[c] \in Connection
      BY <1>1
    <3> QED  BY <3>1 DEF Connection
  <2>2. f + n <= Len(sent[s]) /\ \A k \in 1..n : conn[c].got[k] = sent[s][f + k]
    BY <1>1 DEF Forwarded, Position
  <2>3. Len(sent[s]) \in Nat /\ Len(sent'[s]) \in Nat /\ DOMAIN sent[s] = 1..Len(sent[s])
    BY <1>1, <1>2, <2>1
  <2>4. \A k \in 1..n : f + k \in DOMAIN sent[s]
    <3> DEFINE l == Len(sent[s])
    <3>1. l \in Nat /\ f + n <= l /\ DOMAIN sent[s] = 1..l
      BY <2>2, <2>3
    <3> HIDE DEF s, n, f, l
    <3>2. \A k \in 1..n : f + k \in 1..l
      BY <2>1, <3>1
    <3> QED  BY <3>1, <3>2
  <2>5. f + n <= Len(sent'[s]) /\ \A k \in 1..n : conn[c].got[k] = sent'[s][f + k]
    <3>1. Len(sent'[s]) >= Len(sent[s]) /\ \A i \in DOMAIN sent[s] : sent'[s][i] = sent[s][i]
      BY <1>2, <2>1
    <3> DEFINE l == Len(sent[s])
               m == Len(sent'[s])
    <3>2. l \in Nat /\ m \in Nat /\ m >= l /\ f + n <= l
      BY <2>2, <2>3, <3>1
    <3> HIDE DEF s, n, f, l, m
    <3>3. f + n <= m
      BY <2>1, <3>2
    <3>4. \A k \in 1..n : conn[c].got[k] = sent'[s][f + k]
      BY <2>2, <2>4, <3>1
    <3> QED  BY <3>3, <3>4 DEF m
  <2> QED  BY <2>5 DEF Forwarded, Position
<1> QED  BY <1>1, <1>3 DEF ConnectionInv


LEMMA SimulateKeepsChannels ==
    ASSUME ChannelInv, NEW s \in Scopes, Simulate(s)
    PROVE  ChannelInv'
<1> DEFINE B == BroadcastEvent(s)
<1>1. PICK n : n = events + 1
  OBVIOUS
<1>2. /\ events \in 0..MaxEvents /\ events \in Nat /\ n \in Nat /\ events' = n /\ n \in 0..MaxEvents
      /\ sent' = sent /\ sending = <<>> /\ sending \in Seq(Pending)
      /\ sent \in [Scopes -> Seq(SentEvent)]
  BY <1>1, HubAssumption DEF ChannelInv, Simulate
<1>3. B \in Seq(Scopes) /\ \A ch \in Scopes : Times(B, {ch}) \in 0..2
  BY BroadcastTimes
<1>4. sending' = [i \in DOMAIN B |-> [ch |-> B[i], ev |-> n]]
  BY <1>2 DEF Simulate
<1> HIDE DEF B
<1>5. /\ sending' \in Seq(Pending) /\ DOMAIN sending' = DOMAIN B
      /\ \A i \in DOMAIN B : sending'[i] = [ch |-> B[i], ev |-> n] /\ sending'[i].ev = n
  <2>1. Len(B) \in Nat /\ DOMAIN B = 1..Len(B) /\ \A i \in DOMAIN B : B[i] \in Scopes
    BY <1>3
  <2>2. \A i \in DOMAIN B : [ch |-> B[i], ev |-> n] \in Pending
    BY <1>2, <2>1 DEF Pending
  <2>3. \A i \in DOMAIN B : sending'[i] = [ch |-> B[i], ev |-> n] /\ sending'[i].ev = n
    BY <1>4
  <2>4. sending' \in [1..Len(B) -> Pending] /\ DOMAIN sending' = DOMAIN B
    BY <1>4, <2>1, <2>2
  <2>5. sending' \in Seq(Pending)
    BY <2>1, <2>4
  <2> QED  BY <2>3, <2>4, <2>5
<1>6. \A ch \in Scopes : Times(sending', PendingOn(ch)) = Times(B, {ch})
  <2> SUFFICES ASSUME NEW ch \in Scopes PROVE Places(sending', PendingOn(ch)) = Places(B, {ch})
    BY DEF Times
  <2>1. \A i \in DOMAIN B : sending'[i] \in Pending /\ sending'[i].ch = B[i]
    BY <1>5
  <2> QED  BY <1>5, <2>1 DEF Places, PendingOn
<1>7. \A ch \in Scopes : Times(sending', {[ch |-> ch, ev |-> n]}) = Times(B, {ch})
  <2> SUFFICES ASSUME NEW ch \in Scopes PROVE Places(sending', {[ch |-> ch, ev |-> n]}) = Places(B, {ch})
    BY DEF Times
  <2>1. \A i \in DOMAIN B : sending'[i] = [ch |-> ch, ev |-> n] <=> B[i] = ch
    BY <1>5
  <2> QED  BY <1>5, <2>1 DEF Places
<1>8. \A ch \in Scopes, e \in Nat : e # n => Times(sending', {[ch |-> ch, ev |-> e]}) = 0
  <2> SUFFICES ASSUME NEW ch \in Scopes, NEW e \in Nat, e # n
               PROVE  Times(sending', {[ch |-> ch, ev |-> e]}) = 0
    OBVIOUS
  <2>1. Places(sending', {[ch |-> ch, ev |-> e]}) = {}
    BY <1>5 DEF Places
  <2> QED  BY <2>1, FS_EmptySet DEF Times
<1>9. \A ch \in Scopes : Times(sent[ch], CopiesOf(n)) = 0
  <2> SUFFICES ASSUME NEW ch \in Scopes PROVE Times(sent[ch], CopiesOf(n)) = 0
    OBVIOUS
  <2>1. \A i \in DOMAIN sent[ch] : sent[ch][i].ev # n
    BY <1>1, <1>2 DEF ChannelInv
  <2>2. Places(sent[ch], CopiesOf(n)) = {}
    BY <2>1 DEF Places, CopiesOf
  <2> QED  BY <2>2, FS_EmptySet DEF Times
<1>10. \A ch \in Scopes : Len(sent[ch]) + Times(sending', PendingOn(ch)) <= 2 * n
  <2> SUFFICES ASSUME NEW ch \in Scopes PROVE Len(sent[ch]) + Times(sending', PendingOn(ch)) <= 2 * n
    OBVIOUS
  <2>1. Times(sending, PendingOn(ch)) = 0
    BY <1>2, TimesOf
  <2>2. Len(sent[ch]) \in Nat /\ Len(sent[ch]) + Times(sending, PendingOn(ch)) <= 2 * events
    BY <1>2 DEF ChannelInv
  <2>3. Times(sending', PendingOn(ch)) \in 0..2
    BY <1>3, <1>6
  <2> QED  BY <1>1, <1>2, <2>1, <2>2, <2>3
<1>11. ASSUME NEW e \in 1..n PROVE Noticed(e)' \/ \E q \in Scopes : Announced(e, q)'
  <2>1. CASE e = n
    <3>1. ASSUME NEW ch \in Scopes
          PROVE  Times(sent[ch], CopiesOf(n)) + Times(sending', {[ch |-> ch, ev |-> n]}) = Times(B, {ch})
      BY <1>3, <1>7, <1>9
    <3>2. Announced(n, s)'
      BY <1>2, <3>1 DEF Announced, B
    <3> QED  BY <2>1, <3>2
  <2>2. CASE e # n
    <3>1. e \in 1..events /\ e \in Nat
      BY <1>1, <1>2, <2>2
    <3>2. CASE Noticed(e)
      <4>1. \A ch \in Scopes : Simulated(e, ch)' <=> Simulated(e, ch)
        BY <1>2 DEF Simulated
      <4> QED  BY <1>5, <2>2, <3>2, <4>1 DEF Noticed
    <3>3. ASSUME NEW q \in Scopes, Announced(e, q) PROVE Announced(e, q)'
      <4> SUFFICES ASSUME NEW ch \in Scopes
                   PROVE  Times(sent[ch], CopiesOf(e)) + Times(sending', {[ch |-> ch, ev |-> e]})
                              = Times(BroadcastEvent(q), {ch})
        BY <1>2 DEF Announced
      <4>1. Times(sending', {[ch |-> ch, ev |-> e]}) = 0
        BY <1>8, <2>2, <3>1
      <4>2. Times(sending, {[ch |-> ch, ev |-> e]}) = 0
        BY <1>2, TimesOf
      <4> QED  BY <3>3, <4>1, <4>2 DEF Announced
    <3> QED  BY <3>1, <3>2, <3>3 DEF ChannelInv
  <2> QED  BY <2>1, <2>2
<1>12. \A ch \in Scopes : \A i \in DOMAIN sent[ch] : sent[ch][i].ev \in 1..n
  BY <1>1, <1>2 DEF ChannelInv
<1>13. \A i \in DOMAIN sending' : sending'[i].ev \in 1..n
  BY <1>1, <1>2, <1>5
<1> QED  BY <1>2, <1>5, <1>10, <1>11, <1>12, <1>13 DEF ChannelInv

\* The notice of a transfer is a new event, which nothing else announces.
LEMMA NoticeKeepsChannels ==
    ASSUME ChannelInv, NEW s \in Scopes, SendEventToChannel(s)
    PROVE  ChannelInv'
<1>1. PICK n : n = events + 1
  OBVIOUS
<1>2. PICK x : x = [ev |-> n, by |-> "handler"]
  OBVIOUS
<1>3. /\ events \in 0..MaxEvents /\ events \in Nat /\ n \in Nat /\ events' = n /\ n \in 0..MaxEvents
      /\ sending' = sending /\ sending \in Seq(Pending)
      /\ sent \in [Scopes -> Seq(SentEvent)]
      /\ x \in SentEvent /\ x.ev = n /\ x.by = "handler"
  BY <1>1, <1>2, HubAssumption DEF ChannelInv, SendEventToChannel, SentEvent
<1>4. Sends(s, x)
  BY <1>1, <1>2, <1>3 DEF SendEventToChannel, Sends
<1>5. /\ sent' \in [Scopes -> Seq(SentEvent)]
      /\ \A c \in Scopes : Len(sent'[c]) = Len(sent[c]) + (IF c = s THEN 1 ELSE 0)
      /\ \A c \in Scopes : \A i \in DOMAIN sent[c] : i \in DOMAIN sent'[c] /\ sent'[c][i] = sent[c][i]
      /\ \A c \in Scopes : \A i \in DOMAIN sent'[c] : i \in DOMAIN sent[c] \/ (c = s /\ sent'[c][i] = x)
      /\ \A c \in Scopes, e \in Nat :
             Times(sent'[c], CopiesOf(e)) = Times(sent[c], CopiesOf(e)) + (IF c = s /\ x.ev = e THEN 1 ELSE 0)
  BY <1>3, <1>4, SendAppends
<1>6. ASSUME NEW ch \in Scopes PROVE Len(sent'[ch]) + Times(sending, PendingOn(ch)) <= 2 * n
  <2> DEFINE l == Len(sent[ch])
             m == Len(sent'[ch])
             t == Times(sending, PendingOn(ch))
  <2>1. l \in Nat /\ t \in Nat /\ l + t <= 2 * events
    BY <1>3, TimesOf DEF ChannelInv
  <2>2. m = l + (IF ch = s THEN 1 ELSE 0)
    BY <1>5
  <2> HIDE DEF l, m, t
  <2>3. m + t <= 2 * n
    BY <1>1, <1>3, <2>1, <2>2
  <2> QED  BY <2>3 DEF m, t
<1>7. ASSUME NEW ch \in Scopes, NEW i \in DOMAIN sent'[ch]
      PROVE  sent'[ch][i].ev \in 1..n
  <2>1. CASE i \in DOMAIN sent[ch]
    <3>1. sent[ch][i].ev \in 1..events /\ sent'[ch][i] = sent[ch][i]
      BY <1>5, <2>1 DEF ChannelInv
    <3> QED  BY <1>1, <1>3, <3>1
  <2>2. CASE sent'[ch][i] = x
    BY <1>1, <1>3, <2>2
  <2> QED  BY <1>5, <2>1, <2>2
<1>8. \A i \in DOMAIN sending : sending[i].ev \in 1..events /\ sending[i].ev \in 1..n /\ sending[i].ev # n
  BY <1>1, <1>3 DEF ChannelInv
<1>9. ASSUME NEW e \in 1..n, NEW ch \in Scopes, ~ Simulated(e, ch) PROVE ~ Simulated(e, ch)'
  <2> SUFFICES ASSUME NEW i \in DOMAIN sent'[ch], sent'[ch][i] = [ev |-> e, by |-> "simulation"]
               PROVE  FALSE
    BY DEF Simulated
  <2>1. sent'[ch][i] # x
    BY <1>3
  <2> QED  BY <1>5, <1>9, <2>1 DEF Simulated
<1>10. ASSUME NEW e \in 1..n PROVE Noticed(e)' \/ \E q \in Scopes : Announced(e, q)'
  <2>1. CASE e = n
    <3>1. \A ch \in Scopes : ~ Simulated(n, ch)
      <4> SUFFICES ASSUME NEW ch \in Scopes, NEW i \in DOMAIN sent[ch],
                          sent[ch][i] = [ev |-> n, by |-> "simulation"]
                   PROVE  FALSE
        BY DEF Simulated
      <4>1. sent[ch][i].ev \in 1..events /\ sent[ch][i].ev = n
        BY DEF ChannelInv
      <4> QED  BY <1>1, <1>3, <4>1
    <3>2. \A ch \in Scopes : ~ Simulated(e, ch)'
      BY <1>9, <2>1, <3>1
    <3> QED  BY <1>3, <1>8, <2>1, <3>2 DEF Noticed
  <2>2. CASE e # n
    <3>1. e \in 1..events /\ e \in Nat
      BY <1>1, <1>3, <2>2
    <3>2. CASE Noticed(e)
      BY <1>3, <1>9, <3>2 DEF Noticed
    <3>3. ASSUME NEW q \in Scopes, Announced(e, q) PROVE Announced(e, q)'
      <4>1. \A ch \in Scopes : Times(sent[ch], CopiesOf(e)) \in Nat
        BY <1>3, TimesOf
      <4>2. \A ch \in Scopes : Times(sent'[ch], CopiesOf(e)) = Times(sent[ch], CopiesOf(e))
        BY <1>3, <1>5, <2>2, <3>1, <4>1
      <4> QED  BY <1>3, <3>3, <4>2 DEF Announced
    <3> QED  BY <3>1, <3>2, <3>3 DEF ChannelInv
  <2> QED  BY <2>1, <2>2
<1> QED  BY <1>3, <1>5, <1>6, <1>7, <1>8, <1>10 DEF ChannelInv

\* A send moves one copy of the event from what is still to be sent to its channel.
LEMMA DeliveryKeepsChannels ==
    ASSUME ChannelInv, BroadcastToChannel
    PROVE  ChannelInv'
<1>1. PICK h : h = Head(sending)
  OBVIOUS
<1>2. PICK x : x = [ev |-> h.ev, by |-> "simulation"]
  OBVIOUS
<1>3. /\ events \in 0..MaxEvents /\ events \in Nat /\ events' = events
      /\ sending \in Seq(Pending) /\ sending # <<>> /\ sending' = Tail(sending)
      /\ sent \in [Scopes -> Seq(SentEvent)]
  BY HubAssumption DEF ChannelInv, BroadcastToChannel
<1>4. h \in Pending /\ h.ch \in Scopes /\ h.ev \in 1..events /\ h = [ch |-> h.ch, ev |-> h.ev]
  <2>1. 1 \in DOMAIN sending /\ h = sending[1]
    BY <1>1, <1>3
  <2>2. h \in Pending /\ h.ev \in 1..events
    BY <1>3, <2>1 DEF ChannelInv
  <2> QED  BY <2>2 DEF Pending
<1>5. x \in SentEvent /\ x.ev = h.ev
  BY <1>2, <1>4 DEF SentEvent, Pending
<1>6. Sends(h.ch, x)
  BY <1>1, <1>2 DEF BroadcastToChannel, Sends
<1>7. /\ sent' \in [Scopes -> Seq(SentEvent)]
      /\ \A c \in Scopes : Len(sent'[c]) = Len(sent[c]) + (IF c = h.ch THEN 1 ELSE 0)
      /\ \A c \in Scopes : \A i \in DOMAIN sent[c] : i \in DOMAIN sent'[c] /\ sent'[c][i] = sent[c][i]
      /\ \A c \in Scopes : \A i \in DOMAIN sent'[c] : i \in DOMAIN sent[c] \/ (c = h.ch /\ sent'[c][i] = x)
      /\ \A c \in Scopes, e \in Nat :
             Times(sent'[c], CopiesOf(e)) = Times(sent[c], CopiesOf(e)) + (IF c = h.ch /\ x.ev = e THEN 1 ELSE 0)
  BY <1>3, <1>4, <1>5, <1>6, SendAppends
<1>8. /\ sending' \in Seq(Pending)
      /\ \A i \in DOMAIN sending' : i + 1 \in DOMAIN sending /\ sending'[i] = sending[i + 1]
  <2>1. /\ Tail(sending) \in Seq(Pending)
        /\ \A i \in DOMAIN Tail(sending) : i + 1 \in DOMAIN sending /\ Tail(sending)[i] = sending[i + 1]
    BY <1>3
  <2> QED  BY <1>3, <2>1
<1>9. ASSUME NEW V
      PROVE  /\ Times(sending, V) = Times(sending', V) + (IF h \in V THEN 1 ELSE 0)
             /\ Times(sending', V) \in Nat
  BY <1>1, <1>3, <1>8, TimesTail, TimesOf
<1>10. ASSUME NEW ch \in Scopes PROVE Len(sent'[ch]) + Times(sending', PendingOn(ch)) <= 2 * events
  <2> DEFINE l == Len(sent[ch])
             m == Len(sent'[ch])
             t == Times(sending, PendingOn(ch))
             u == Times(sending', PendingOn(ch))
  <2>1. l \in Nat /\ l + t <= 2 * events
    BY <1>3 DEF ChannelInv
  <2>2. m = l + (IF ch = h.ch THEN 1 ELSE 0)
    BY <1>7
  <2>3. u \in Nat /\ t = u + (IF h \in PendingOn(ch) THEN 1 ELSE 0)
    BY <1>9
  <2>4. h \in PendingOn(ch) <=> ch = h.ch
    BY <1>4 DEF PendingOn
  <2> HIDE DEF l, m, t, u
  <2>5. m + u <= 2 * events
    BY <1>3, <2>1, <2>2, <2>3, <2>4
  <2> QED  BY <2>5 DEF m, u
<1>11. ASSUME NEW ch \in Scopes, NEW i \in DOMAIN sent'[ch]
       PROVE  sent'[ch][i].ev \in 1..events
  <2>1. CASE i \in DOMAIN sent[ch]
    BY <1>7, <2>1 DEF ChannelInv
  <2>2. CASE sent'[ch][i] = x
    BY <1>4, <1>5, <2>2
  <2> QED  BY <1>7, <2>1, <2>2
<1>12. \A i \in DOMAIN sending' : sending'[i].ev \in 1..events
  BY <1>8 DEF ChannelInv
<1>13. ASSUME NEW e \in 1..events PROVE Noticed(e)' \/ \E q \in Scopes : Announced(e, q)'
  <2>1. CASE Noticed(e)
    <3>1. h.ev # e
      BY <1>1, <1>3, <2>1 DEF Noticed
    <3>2. ASSUME NEW ch \in Scopes PROVE ~ Simulated(e, ch)'
      <4> SUFFICES ASSUME NEW i \in DOMAIN sent'[ch], sent'[ch][i] = [ev |-> e, by |-> "simulation"]
                   PROVE  FALSE
        BY DEF Simulated
      <4>1. sent'[ch][i] # x
        BY <1>5, <3>1
      <4> QED  BY <1>7, <2>1, <4>1 DEF Noticed, Simulated
    <3>3. \A i \in DOMAIN sending' : sending'[i].ev # e
      BY <1>8, <2>1 DEF Noticed
    <3> QED  BY <3>2, <3>3 DEF Noticed
  <2>2. ASSUME NEW q \in Scopes, Announced(e, q) PROVE Announced(e, q)'
    <3> SUFFICES ASSUME NEW ch \in Scopes
                 PROVE  Times(sent'[ch], CopiesOf(e)) + Times(sending', {[ch |-> ch, ev |-> e]})
                            = Times(BroadcastEvent(q), {ch})
      BY DEF Announced
    <3> DEFINE l == Times(sent[ch], CopiesOf(e))
               m == Times(sent'[ch], CopiesOf(e))
               t == Times(sending, {[ch |-> ch, ev |-> e]})
               u == Times(sending', {[ch |-> ch, ev |-> e]})
               b == Times(BroadcastEvent(q), {ch})
    <3>1. l \in Nat /\ l + t = b
      BY <1>3, <2>2, TimesOf DEF Announced
    <3>2. m = l + (IF ch = h.ch /\ h.ev = e THEN 1 ELSE 0)
      BY <1>5, <1>7
    <3>3. u \in Nat /\ t = u + (IF h \in {[ch |-> ch, ev |-> e]} THEN 1 ELSE 0)
      BY <1>9
    <3>4. h \in {[ch |-> ch, ev |-> e]} <=> ch = h.ch /\ h.ev = e
      BY <1>4
    <3> HIDE DEF l, m, t, u, b
    <3>5. m + u = b
      BY <3>1, <3>2, <3>3, <3>4
    <3> QED  BY <3>5 DEF m, u, b
  <2> QED  BY <2>1, <2>2 DEF ChannelInv
<1> QED  BY <1>3, <1>7, <1>8, <1>10, <1>11, <1>12, <1>13 DEF ChannelInv

LEMMA ChannelsStay ==
    ASSUME ChannelInv, UNCHANGED <<sent, sending, events>> PROVE ChannelInv'
<1>1. sent' = sent /\ sending' = sending /\ events' = events
  OBVIOUS
<1>2. \A e, ch : Simulated(e, ch)' <=> Simulated(e, ch)
  BY <1>1 DEF Simulated
<1>3. \A e : Noticed(e)' <=> Noticed(e)
  BY <1>1, <1>2 DEF Noticed
<1>4. \A e, s : Announced(e, s)' <=> Announced(e, s)
  BY <1>1 DEF Announced
<1> QED  BY <1>1, <1>3, <1>4 DEF ChannelInv

\* Subscribing starts at the end of the channel, and forwarding takes the next event of it.
LEMMA ConnectionsKeep ==
    ASSUME HubInv, UNCHANGED <<sent, sending, events>>, NEW c \in Clients,
           \/ \E ch \in Scopes : Subscribe(c, ch)
           \/ Forward(c) \/ Lagged(c) \/ Disconnect(c)
    PROVE  HubInv'
<1>1. ChannelInv'
  BY ChannelsStay DEF HubInv
<1>2. /\ sent \in [Scopes -> Seq(SentEvent)] /\ conn \in [Clients -> Connection]
      /\ \A d \in Clients : Forwarded(d)
  BY DEF HubInv, ChannelInv, ConnectionInv
<1>3. conn[c] \in Connection /\ conn[c].ch \in Scopes /\ conn[c].from \in Nat /\ conn[c].got \in Seq(SentEvent)
  BY <1>2 DEF Connection
<1>4. ASSUME NEW v \in Connection, conn' = [conn EXCEPT ![c] = v]
      PROVE  /\ conn'[c] = v
             /\ Forwarded(c)' => ConnectionInv'
  <2>1. conn' \in [Clients -> Connection] /\ conn'[c] = v /\ \A d \in Clients : d # c => conn'[d] = conn[d]
    BY <1>2, <1>4
  <2>2. ASSUME NEW d \in Clients, d # c PROVE Forwarded(d)'
    BY <1>2, <2>1, <2>2 DEF Forwarded, Position
  <2> QED  BY <2>1, <2>2 DEF ConnectionInv
<1>5. ASSUME NEW ch \in Scopes, Subscribe(c, ch) PROVE ConnectionInv'
  <2>1. PICK v : v = [on |-> TRUE, ch |-> ch, from |-> Len(sent[ch]), got |-> <<>>]
    OBVIOUS
  <2>2. Len(sent[ch]) \in Nat
    BY <1>2
  <2>3. v \in Connection /\ v.from = Len(sent[ch]) /\ v.ch = ch /\ v.got = <<>>
    BY <2>1, <2>2 DEF Connection
  <2>4. conn' = [conn EXCEPT ![c] = v]
    BY <1>5, <2>1 DEF Subscribe
  <2>5. conn'[c] = v /\ (Forwarded(c)' => ConnectionInv')
    BY <1>4, <2>3, <2>4
  <2>6. Forwarded(c)'
    BY <2>2, <2>3, <2>5 DEF Forwarded, Position
  <2> QED  BY <2>5, <2>6
<1>6. CASE Forward(c)
  <2> DEFINE n == Len(conn[c].got)
             f == conn[c].from
             s == conn[c].ch
             y == sent[s][f + n + 1]
  <2>1. n \in Nat /\ f \in Nat /\ s \in Scopes /\ Len(sent[s]) \in Nat /\ Capacity \in Nat
    BY <1>2, <1>3, HubAssumption
  <2>2. Len(sent[s]) - (f + n) \in 1..Capacity
    BY <1>6 DEF Forward, Behind, Position
  <2>3. f + n + 1 <= Len(sent[s]) /\ f + n + 1 \in DOMAIN sent[s]
    <3> DEFINE l == Len(sent[s])
    <3>1. l \in Nat /\ l - (f + n) \in 1..Capacity /\ DOMAIN sent[s] = 1..l
      BY <1>2, <2>1, <2>2
    <3> HIDE DEF l, f, n
    <3>2. f + n + 1 <= l /\ f + n + 1 \in 1..l
      BY <2>1, <3>1
    <3> QED  BY <3>1, <3>2 DEF l
  <2>4. y \in SentEvent
    BY <1>2, <2>1, <2>3
  <2>5. PICK g : g = Append(conn[c].got, y)
    OBVIOUS
  <2>6. /\ g \in Seq(SentEvent) /\ Len(g) = n + 1 /\ g[n + 1] = y
        /\ \A k \in 1..n : g[k] = conn[c].got[k]
    <3> HIDE DEF y
    <3> QED  BY <1>3, <2>4, <2>5
  <2>7. PICK v : v = [conn[c] EXCEPT !.got = g]
    OBVIOUS
  <2>8. v \in Connection /\ v.got = g /\ v.from = f /\ v.ch = s
    BY <1>3, <2>6, <2>7 DEF Connection
  <2>9. conn' = [conn EXCEPT ![c] = v]
    BY <1>2, <1>6, <2>5, <2>7 DEF Forward, Position
  <2>10. \A k \in 1..n : conn[c].got[k] = sent[s][f + k]
    BY <1>2 DEF Forwarded, Position
  <2> HIDE DEF n, f, s
  <2>11. ASSUME NEW k \in 1..(n + 1) PROVE g[k] = sent[s][f + k]
    <3>1. CASE k = n + 1
      <4>1. f + k = f + n + 1
        BY <2>1, <3>1
      <4> QED  BY <2>6, <3>1, <4>1
    <3>2. CASE k # n + 1
      <4>1. k \in 1..n
        BY <2>1, <3>2
      <4> QED  BY <2>6, <2>10, <4>1
    <3> QED  BY <3>1, <3>2
  <2>12. v.from + Len(v.got) <= Len(sent[v.ch])
    <3>1. f + (n + 1) = f + n + 1
      BY <2>1
    <3> QED  BY <2>3, <2>6, <2>8, <3>1
  <2>13. \A k \in 1..Len(v.got) : v.got[k] = sent[v.ch][v.from + k]
    BY <2>6, <2>8, <2>11
  <2>14. conn'[c] = v /\ (Forwarded(c)' => ConnectionInv')
    BY <1>4, <2>8, <2>9
  <2>15. Forwarded(c)'
    BY <2>12, <2>13, <2>14 DEF Forwarded, Position
  <2> QED  BY <1>1, <2>14, <2>15 DEF HubInv
<1>7. CASE Lagged(c) \/ Disconnect(c)
  <2>1. PICK v : v = Off
    OBVIOUS
  <2>2. v \in Connection /\ v.from = 0 /\ v.ch = <<>> /\ v.got = <<>> /\ <<>> \in Scopes
    BY <2>1, HubAssumption DEF Connection, Off
  <2>3. conn' = [conn EXCEPT ![c] = v]
    BY <1>7, <2>1 DEF Lagged, Disconnect
  <2>4. Len(sent[<<>>]) \in Nat
    BY <1>2, <2>2
  <2>5. conn'[c] = v /\ (Forwarded(c)' => ConnectionInv')
    BY <1>4, <2>2, <2>3
  <2>6. Forwarded(c)'
    BY <2>2, <2>4, <2>5 DEF Forwarded, Position
  <2> QED  BY <1>1, <2>5, <2>6 DEF HubInv
<1> QED  BY <1>1, <1>5, <1>6, <1>7 DEF HubInv

LEMMA ConnectionsStay ==
    ASSUME HubInv, UNCHANGED <<sent, conn>> PROVE ConnectionInv'
BY DEF HubInv, ConnectionInv, Forwarded, Position

LEMMA NextKeepsHub == HubInv /\ [Next]_vars => HubInv'
<1> SUFFICES ASSUME HubInv, [Next]_vars PROVE HubInv'
  OBVIOUS
<1>1. CASE UNCHANGED hvars
  BY <1>1, ChannelsStay, ConnectionsStay DEF HubInv, hvars
<1>2. ASSUME NEW c \in Clients, NEW t, NEW fed, NEW coop, NEW comm, Connect(c, t, fed, coop, comm)
      PROVE  HubInv'
  <2>1. PICK ch \in Scopes : Subscribe(c, ch)
    BY <1>2 DEF Connect
  <2>2. UNCHANGED <<sent, sending, events>>
    BY <2>1 DEF Subscribe
  <2> QED  BY <2>1, <2>2, ConnectionsKeep
<1>3. ASSUME NEW s \in Scopes, Simulate(s) PROVE HubInv'
  <2>1. ChannelInv'
    BY <1>3, SimulateKeepsChannels DEF HubInv
  <2>2. ConnectionInv'
    BY <1>3, ConnectionsStay DEF Simulate
  <2> QED  BY <2>1, <2>2 DEF HubInv
<1>4. ASSUME NEW s \in Scopes, SendEventToChannel(s) PROVE HubInv'
  <2>1. ChannelInv'
    BY <1>4, NoticeKeepsChannels DEF HubInv
  <2>2. PICK x : x = [ev |-> events', by |-> "handler"]
    OBVIOUS
  <2>3. x \in SentEvent /\ Sends(s, x) /\ UNCHANGED conn
    <3>1. events' \in Nat
      BY <2>1, HubAssumption DEF ChannelInv
    <3> QED  BY <1>4, <2>2, <3>1 DEF SendEventToChannel, SentEvent, Sends
  <2>4. ConnectionInv'
    BY <2>3, SendKeepsConnections
  <2> QED  BY <2>1, <2>4 DEF HubInv
<1>5. CASE BroadcastToChannel
  <2>1. ChannelInv'
    BY <1>5, DeliveryKeepsChannels DEF HubInv
  <2>2. PICK h : h = Head(sending)
    OBVIOUS
  <2>3. PICK x : x = [ev |-> h.ev, by |-> "simulation"]
    OBVIOUS
  <2>4. h \in Pending
    BY <1>5, <2>2 DEF HubInv, ChannelInv, BroadcastToChannel
  <2>5. x \in SentEvent /\ h.ch \in Scopes
    BY <2>3, <2>4 DEF SentEvent, Pending
  <2>6. Sends(h.ch, x) /\ UNCHANGED conn
    BY <1>5, <2>2, <2>3 DEF BroadcastToChannel, Sends
  <2>7. ConnectionInv'
    BY <2>5, <2>6, SendKeepsConnections
  <2> QED  BY <2>1, <2>7 DEF HubInv
<1>6. ASSUME NEW c \in Clients, Forward(c) \/ Lagged(c) \/ Disconnect(c) PROVE HubInv'
  <2>1. UNCHANGED <<sent, sending, events>>
    BY <1>6 DEF Forward, Lagged, Disconnect
  <2> QED  BY <1>6, <2>1, ConnectionsKeep
<1>7. CASE UNCHANGED vars
  BY <1>1, <1>7 DEF vars
<1>8. CASE Deliberate
  BY <1>1, <1>8 DEF Deliberate
<1>9. CASE Publish
  BY <1>3, <1>4, <1>9 DEF Publish
<1>10. CASE Deliver
  BY <1>5, <1>6, <1>10 DEF Deliver
<1>11. ASSUME NEW q, Forbidden(q) PROVE HubInv'
  BY <1>1, <1>11 DEF Forbidden
<1>12. ASSUME NEW q, NEW coop, NEW comm, ReadScoped(q, coop, comm) PROVE HubInv'
  BY <1>1, <1>12 DEF ReadScoped
<1>13. ASSUME NEW q, NEW org, NEW role, OrgOperation(q, org, role) PROVE HubInv'
  BY <1>1, <1>13 DEF OrgOperation
<1>14. CASE TokenNext /\ answer' = NoAnswer /\ UNCHANGED <<forum, hvars>>
  BY <1>1, <1>14
<1> QED  BY <1>2, <1>7, <1>8, <1>9, <1>10, <1>11, <1>12, <1>13, <1>14 DEF Next

\* A sequence that agrees with a stretch of another is that stretch.
LEMMA Stretch ==
    ASSUME NEW E, NEW s \in Seq(E), NEW g \in Seq(E), NEW f \in Nat, f + Len(g) <= Len(s),
           \A k \in 1..Len(g) : g[k] = s[f + k]
    PROVE  g = SubSeq(s, f + 1, f + Len(g))
<1> DEFINE n == Len(g)
           l == Len(s)
           a == f + 1
           b == f + n
           p == SubSeq(s, a, b)
<1>1. n \in Nat /\ l \in Nat /\ f + n <= l
  OBVIOUS
<1>2. g \in Seq(E) /\ \A k \in 1..n : g[k] = s[f + k]
  OBVIOUS
<1>3. \A i \in 1..l : s[i] \in E
  OBVIOUS
<1> HIDE DEF n, l
<1>4. a \in Int /\ b \in Int /\ \A i \in a..b : i \in 1..l
  BY <1>1
<1>5. b - a + 1 = n /\ (a <= b <=> n # 0) /\ \A k \in 1..n : a + k - 1 = f + k
  BY <1>1
<1> HIDE DEF a, b, p
<1>6. /\ p \in Seq(E)
      /\ Len(p) = IF a <= b THEN b - a + 1 ELSE 0
      /\ \A i \in 1..(b - a + 1) : p[i] = s[a + i - 1]
  BY <1>3, <1>4, SubSeqProperties DEF p
<1>7. Len(p) = n /\ \A k \in 1..n : p[k] = s[f + k]
  BY <1>1, <1>5, <1>6
<1>8. Len(g) = Len(p) /\ \A k \in 1..Len(g) : g[k] = p[k]
  BY <1>2, <1>7 DEF n
<1>9. g = p
  BY <1>2, <1>6, <1>8, SeqEqual
<1> QED  BY <1>9 DEF p, n, a, b

LEMMA HubInvSound == HubInv => HubSound
<1> SUFFICES ASSUME HubInv PROVE HubSound
  OBVIOUS
<1>1. /\ sent \in [Scopes -> Seq(SentEvent)] /\ conn \in [Clients -> Connection]
      /\ sending \in Seq(Pending) /\ events \in 0..MaxEvents /\ MaxEvents \in Nat
      /\ \A d \in Clients : Forwarded(d)
  BY HubAssumption DEF HubInv, ChannelInv, ConnectionInv
<1>2. \A c \in Clients : /\ conn[c].ch \in Scopes /\ conn[c].from \in Nat /\ conn[c].got \in Seq(SentEvent)
  BY <1>1 DEF Connection
<1>3. HubTypeOK
  <2>1. ASSUME NEW s \in Scopes PROVE Len(sent[s]) <= 2 * MaxEvents
    <3> DEFINE l == Len(sent[s])
               t == Times(sending, PendingOn(s))
    <3>1. l \in Nat /\ t \in Nat /\ l + t <= 2 * events
      BY <1>1, TimesOf DEF HubInv, ChannelInv
    <3> HIDE DEF l, t
    <3>2. l <= 2 * MaxEvents
      BY <1>1, <3>1
    <3> QED  BY <3>2 DEF l
  <2> QED  BY <1>1, <1>2, <2>1 DEF HubTypeOK, Forwarded
<1>4. NoGaps
  <2> SUFFICES ASSUME NEW c \in Clients
               PROVE  conn[c].got = SubSeq(sent[conn[c].ch], conn[c].from + 1, conn[c].from + Len(conn[c].got))
    BY DEF NoGaps, Position
  <2>1. sent[conn[c].ch] \in Seq(SentEvent)
    BY <1>1, <1>2
  <2>2. /\ conn[c].from + Len(conn[c].got) <= Len(sent[conn[c].ch])
        /\ \A k \in 1..Len(conn[c].got) : conn[c].got[k] = sent[conn[c].ch][conn[c].from + k]
    BY <1>1 DEF Forwarded, Position
  <2>3. PICK s \in Seq(SentEvent), g \in Seq(SentEvent), f \in Nat :
            s = sent[conn[c].ch] /\ g = conn[c].got /\ f = conn[c].from
    BY <1>2, <2>1
  <2>4. f + Len(g) <= Len(s) /\ \A k \in 1..Len(g) : g[k] = s[f + k]
    BY <2>2, <2>3
  <2>5. s \in Seq(SentEvent) /\ g \in Seq(SentEvent) /\ f \in Nat
    OBVIOUS
  <2>6. g = SubSeq(s, f + 1, f + Len(g))
    BY <2>4, <2>5, Stretch, Zenon
  <2> QED  BY <2>3, <2>6
<1>5. ReachesAncestors
  <2> SUFFICES ASSUME sending = <<>>, NEW ch \in Scopes \ {<<>>}, NEW e \in 1..events, Simulated(e, ch)
               PROVE  Copies(e, ch) = 1 /\ \A n \in 0..Len(ch) : Copies(e, SubSeq(ch, 1, n)) = 1
    BY DEF ReachesAncestors
  <2>1. ASSUME NEW d \in Scopes PROVE Copies(e, d) = Times(sent[d], CopiesOf(e))
    <3>1. \A i \in DOMAIN sent[d] : sent[d][i] \in SentEvent
      BY <1>1
    <3>2. {i \in DOMAIN sent[d] : sent[d][i].ev = e} = Places(sent[d], CopiesOf(e))
      BY <3>1 DEF Places, CopiesOf
    <3> QED  BY <3>2 DEF Copies, Times
  <2>2. PICK s \in Scopes : Announced(e, s)
    BY DEF HubInv, ChannelInv, Noticed
  <2>3. ASSUME NEW d \in Scopes PROVE Times(sent[d], CopiesOf(e)) = Times(BroadcastEvent(s), {d})
    <3>1. Times(sending, {[ch |-> d, ev |-> e]}) = 0
      BY <1>1, TimesOf
    <3>2. Times(sent[d], CopiesOf(e)) \in Nat
      BY <1>1, TimesOf
    <3>3. Times(sent[d], CopiesOf(e)) + Times(sending, {[ch |-> d, ev |-> e]}) = Times(BroadcastEvent(s), {d})
      BY <2>2 DEF Announced
    <3> QED  BY <3>1, <3>2, <3>3
  <2>4. Times(sent[ch], CopiesOf(e)) # 0
    <3>1. PICK i \in DOMAIN sent[ch] : sent[ch][i] = [ev |-> e, by |-> "simulation"]
      BY DEF Simulated
    <3>2. sent[ch][i] \in SentEvent /\ sent[ch][i].ev = e
      BY <1>1, <3>1
    <3>3. i \in Places(sent[ch], CopiesOf(e))
      BY <3>1, <3>2 DEF Places, CopiesOf
    <3>4. Times(sent[ch], CopiesOf(e)) >= 1 /\ Times(sent[ch], CopiesOf(e)) \in Nat
      BY <1>1, <3>3, TimesOf
    <3> QED  BY <3>4
  <2>5. /\ Times(BroadcastEvent(s), {ch}) = 1
        /\ \A n \in 0..Len(ch) : SubSeq(ch, 1, n) \in Scopes /\ Times(BroadcastEvent(s), {SubSeq(ch, 1, n)}) = 1
    BY <2>3, <2>4, BroadcastTimes
  <2>6. Copies(e, ch) = 1
    BY <2>1, <2>3, <2>5
  <2>7. ASSUME NEW n \in 0..Len(ch) PROVE Copies(e, SubSeq(ch, 1, n)) = 1
    BY <2>1, <2>3, <2>5
  <2> QED  BY <2>6, <2>7
<1> QED  BY <1>3, <1>4, <1>5 DEF HubSound

\* A connection forwards what its channel carried since it subscribed, without a gap, and an
\* announced event is once on every scope around the one it is about, however the single
\* sends of broadcast_event, the notices of transfers and the connections interleave.
THEOREM HubIsSound == Spec => []HubSound
<1>1. Init => HubInv
  BY HubInitially DEF Init
<1>2. Spec => []HubInv
  BY <1>1, NextKeepsHub, PTL DEF Spec
<1> QED  BY <1>2, HubInvSound, PTL

-----------------------------------------------------------------------------
(* The transfer endpoints. *)

TransferRecord ==
    {t \in [from : Entities, to : Entities, amount : Nat, fee : Nat, federation : LedgerFeds,
            timestamp : Nat, call : Nat] : t.amount > 0 /\ t.fee <= t.amount}

ChannelEvents == [channel : Entities, balance : Nat, age : Nat]
HandlerStates == {"idle", "ready", "notify", "prepared", "batch", "report"}

ApiTypes ==
    /\ balances \in [Entities -> Nat] /\ received \in [Entities -> Nat] /\ paid \in [Entities -> Nat]
    /\ transfers \in Seq(TransferRecord)
    /\ federation_stats \in [StatsFeds -> Nat]
    /\ writer \in Callers \cup {None}
    /\ pc \in [Callers -> HandlerStates]
    /\ todo \in [Callers -> SUBSET TransferRecord]
    /\ notices \in [Callers -> SUBSET ChannelEvents]
    /\ done \in [Callers -> Seq(TransferRecord)]
    /\ told \in [Callers -> Nat]
    /\ shown \in [Entities -> [balance : Nat \cup {None}, age : Nat, newest : Nat]]
    /\ clock \in 0..MaxRequests

\* What a handler has in hand at each of its awaits; the lock is a batch's from its
\* first transfer to its answer.
HandlerInv ==
    \A c \in Callers :
        /\ writer = c <=> pc[c] \in {"batch", "report"}
        /\ pc[c] \in {"idle", "notify", "report"} => todo[c] = {}
        /\ pc[c] \in {"idle", "ready", "prepared", "batch"} => notices[c] = {}
        /\ pc[c] \in {"idle", "ready", "prepared"} => done[c] = <<>>

NewestInv == \A e \in Entities : shown[e].age <= shown[e].newest

\* The fee is a part of the amount.
LEMMA FeeBounds ==
    ASSUME NEW n \in Nat, NEW a \in Entities, NEW b \in Entities
    PROVE  CalculateFee(n, a, b) \in Nat /\ CalculateFee(n, a, b) <= n
<1>1. RatePpm(a, b) \in {500, 1000, 1500, 2000, 3000}
  BY DEF RatePpm
<1>2. \A r \in {500, 1000, 1500, 2000, 3000} :
          (n * r) \div 1000000 \in Nat /\ (n * r) \div 1000000 <= n
  <2>1. (n * 500) \div 1000000 \in Nat /\ (n * 500) \div 1000000 <= n
    OBVIOUS
  <2>2. (n * 1000) \div 1000000 \in Nat /\ (n * 1000) \div 1000000 <= n
    OBVIOUS
  <2>3. (n * 1500) \div 1000000 \in Nat /\ (n * 1500) \div 1000000 <= n
    OBVIOUS
  <2>4. (n * 2000) \div 1000000 \in Nat /\ (n * 2000) \div 1000000 <= n
    OBVIOUS
  <2>5. (n * 3000) \div 1000000 \in Nat /\ (n * 3000) \div 1000000 <= n
    OBVIOUS
  <2> QED  BY <2>1, <2>2, <2>3, <2>4, <2>5
<1> QED  BY <1>1, <1>2 DEF CalculateFee

\* What is prepared of an accepted request.
LEMMA Prepares ==
    ASSUME NEW r \in TransferRequest, NEW claims, NEW f \in LedgerFeds, Accepted(claims, f, r),
           NEW time \in Nat, NEW id \in Nat
    PROVE  /\ CreateTransfer(r, f, time, id) \in TransferRecord
           /\ CreateTransfer(r, f, time, id).call = id
<1>1. r.from \in Entities /\ r.to \in Entities /\ r.amount \in Nat /\ r.amount > 0
  BY DEF TransferRequest, Accepted
<1> DEFINE fee == CalculateFee(r.amount, r.from, r.to)
<1>2. fee \in Nat /\ fee <= r.amount
  BY <1>1, FeeBounds
<1> HIDE DEF fee
<1>3. CreateTransfer(r, f, time, id) =
          [from |-> r.from, to |-> r.to, amount |-> r.amount, fee |-> fee,
           federation |-> f, timestamp |-> time, call |-> id]
  BY DEF CreateTransfer, fee
<1> QED  BY <1>1, <1>2, <1>3 DEF TransferRecord

\* What one transfer does to the ledger.
LEMMA Processed ==
    ASSUME ApiTypes, NEW t \in TransferRecord, ProcessTransfer(t)
    PROVE  /\ balances' \in [Entities -> Nat] /\ received' \in [Entities -> Nat]
           /\ paid' \in [Entities -> Nat]
           /\ \A e \in Entities : e \notin {t.from, t.to} => balances'[e] = balances[e]
           /\ transfers' \in Seq(TransferRecord)
           /\ Len(transfers) \in Nat /\ Len(transfers') = Len(transfers) + 1
           /\ DOMAIN transfers = 1..Len(transfers) /\ DOMAIN transfers' = 1..(Len(transfers) + 1)
           /\ transfers'[Len(transfers) + 1] = t
           /\ \A i \in DOMAIN transfers : transfers'[i] = transfers[i]
           /\ federation_stats' \in [StatsFeds -> Nat]
<1>1. /\ t.from \in Entities /\ t.to \in Entities /\ t.amount \in Nat /\ t.fee \in Nat
      /\ Total(t) \in Nat
  BY DEF TransferRecord, Total
<1>2. /\ balances \in [Entities -> Nat] /\ received \in [Entities -> Nat]
      /\ paid \in [Entities -> Nat] /\ transfers \in Seq(TransferRecord)
      /\ federation_stats \in [StatsFeds -> Nat]
  BY DEF ApiTypes
<1>3. balances[t.from] >= Total(t)
  BY DEF ProcessTransfer, Apply, CanApply
<1> DEFINE debited == [balances EXCEPT ![t.from] = @ - Total(t)]
<1>4. /\ balances' = [debited EXCEPT ![t.to] = @ + t.amount]
      /\ received' = [received EXCEPT ![t.to] = @ + t.amount]
      /\ paid' = [paid EXCEPT ![t.from] = @ + Total(t)]
      /\ transfers' = Append(transfers, t)
      /\ federation_stats' = [f \in StatsFeds |-> federation_stats[f] +
                                 IF f = t.federation THEN t.fee ELSE 0]
  BY DEF ProcessTransfer, Apply, Moved
<1>5. /\ debited \in [Entities -> Nat]
      /\ \A e \in Entities : e # t.from => debited[e] = balances[e]
  <2>1. balances[t.from] - Total(t) \in Nat
    BY <1>1, <1>2, <1>3
  <2> QED  BY <1>1, <1>2, <2>1
<1> HIDE DEF debited
<1>6. /\ balances' \in [Entities -> Nat]
      /\ \A e \in Entities : e \notin {t.from, t.to} => balances'[e] = balances[e]
  <2>1. debited[t.to] + t.amount \in Nat
    BY <1>1, <1>5
  <2> QED  BY <1>1, <1>4, <1>5, <2>1
<1>7. received' \in [Entities -> Nat]
  <2>1. received[t.to] + t.amount \in Nat
    BY <1>1, <1>2
  <2> QED  BY <1>1, <1>2, <1>4, <2>1
<1>8. paid' \in [Entities -> Nat]
  <2>1. paid[t.from] + Total(t) \in Nat
    BY <1>1, <1>2
  <2> QED  BY <1>1, <1>2, <1>4, <2>1
<1>9. /\ transfers' \in Seq(TransferRecord)
      /\ Len(transfers) \in Nat /\ Len(transfers') = Len(transfers) + 1
      /\ DOMAIN transfers = 1..Len(transfers) /\ DOMAIN transfers' = 1..(Len(transfers) + 1)
      /\ transfers'[Len(transfers) + 1] = t
      /\ \A i \in DOMAIN transfers : transfers'[i] = transfers[i]
  BY <1>2, <1>4
<1>10. federation_stats' \in [StatsFeds -> Nat]
  <2>1. \A f \in StatsFeds : federation_stats[f] + (IF f = t.federation THEN t.fee ELSE 0) \in Nat
    BY <1>1, <1>2
  <2> QED  BY <1>4, <2>1
<1> QED  BY <1>6, <1>7, <1>8, <1>9, <1>10

\* The events of a transfer are about its two sides.
LEMMA EventFacts ==
    ASSUME NEW t \in TransferRecord, NEW b \in [Entities -> Nat], NEW n \in Nat
    PROVE  /\ EventsOf(t, b, n) \subseteq ChannelEvents
           /\ \A ev \in EventsOf(t, b, n) : ev.balance = b[ev.channel] /\ ev.age = n
           /\ \A e \in {t.from, t.to} : \E ev \in EventsOf(t, b, n) : ev.channel = e /\ ev.age = n
<1>1. t.from \in Entities /\ t.to \in Entities
  BY DEF TransferRecord
<1>2. \A ev \in EventsOf(t, b, n) :
          \E e \in {t.from, t.to} : ev = [channel |-> e, balance |-> b[e], age |-> n]
  BY DEF EventsOf
<1>3. \A e \in {t.from, t.to} :
          /\ [channel |-> e, balance |-> b[e], age |-> n] \in ChannelEvents
          /\ [channel |-> e, balance |-> b[e], age |-> n] \in EventsOf(t, b, n)
  BY <1>1 DEF EventsOf, ChannelEvents
<1>4. EventsOf(t, b, n) \subseteq ChannelEvents
  BY <1>2, <1>3
<1>5. \A ev \in EventsOf(t, b, n) : ev.balance = b[ev.channel] /\ ev.age = n
  BY <1>2
<1>6. \A e \in {t.from, t.to} : \E ev \in EventsOf(t, b, n) : ev.channel = e /\ ev.age = n
  <2> TAKE e \in {t.from, t.to}
  <2> DEFINE ev == [channel |-> e, balance |-> b[e], age |-> n]
  <2>1. ev \in EventsOf(t, b, n) /\ ev.channel = e /\ ev.age = n
    BY <1>3
  <2> QED  BY <2>1
<1> QED  BY <1>4, <1>5, <1>6

LEMMA AmountsAreNumbers ==
    ASSUME NEW s \in Seq(TransferRecord) PROVE AmountsIn(s) \in Nat
<1> DEFINE f == [i \in DOMAIN s |-> s[i].amount]
<1>1. IsFiniteSet(DOMAIN s)
  <2>1. DOMAIN s = 1..Len(s) /\ Len(s) \in Nat
    OBVIOUS
  <2> QED  BY <2>1, FS_Interval
<1>2. \A i \in DOMAIN s : f[i] \in Nat
  BY DEF TransferRecord
<1>3. DOMAIN f = DOMAIN s /\ DOMAIN s \in SUBSET DOMAIN s
  OBVIOUS
<1>4. AmountsIn(s) = SumFunctionOnSet(f, DOMAIN s)
  BY <1>3 DEF AmountsIn, Sum
<1> HIDE DEF f
<1> QED  BY <1>1, <1>2, <1>3, <1>4, SumStep

LEMMA NextKeepsTypes == ApiTypes /\ [ApiNext]_apiVars => ApiTypes'
<1> SUFFICES ASSUME ApiTypes, [ApiNext]_apiVars PROVE ApiTypes'
  OBVIOUS
<1> USE DEF HandlerStates
<1>1. ASSUME NEW c \in Callers, NEW k \in Claims, NEW f \in LedgerFeds, NEW r \in Requests,
             Request(c, k, f, r)
      PROVE  ApiTypes'
  <2>1. r \in TransferRequest /\ clock \in Nat /\ Accepted(k, f, r)
    BY <1>1, ApiAssumption DEF Request, ApiTypes
  <2>2. CreateTransfer(r, f, clock, clock) \in TransferRecord
    BY <2>1, Prepares
  <2>3. todo' \in [Callers -> SUBSET TransferRecord]
    BY <1>1, <2>2 DEF Request, ApiTypes
  <2>4. pc' \in [Callers -> HandlerStates] /\ clock' \in 0..MaxRequests
    BY <1>1, ApiAssumption DEF Request, ApiTypes
  <2> QED  BY <1>1, <2>3, <2>4 DEF Request, ApiTypes, ledger, bookVars
<1>2. ASSUME NEW c \in Callers, NEW k \in Claims, NEW f \in LedgerFeds, NEW b \in BatchBodies,
             Batch(c, k, f, b)
      PROVE  ApiTypes'
  <2>1. b \in Seq(TransferRequest) /\ clock \in Nat /\ Len(b) \in Nat /\ DOMAIN b = 1..Len(b)
    BY ApiAssumption DEF ApiTypes
  <2>2. ASSUME NEW i \in DOMAIN b, Accepted(k, f, b[i])
        PROVE  CreateTransfer(b[i], f, clock + i - 1, clock) \in TransferRecord
    <3>1. b[i] \in TransferRequest /\ clock + i - 1 \in Nat
      BY <2>1
    <3> QED  BY <2>1, <2>2, <3>1, Prepares
  <2>3. todo' \in [Callers -> SUBSET TransferRecord]
    BY <1>2, <2>2 DEF Batch, ApiTypes
  <2>4. pc' \in [Callers -> HandlerStates]
    BY <1>2 DEF Batch, ApiTypes
  <2>5. clock' \in 0..MaxRequests
    BY <1>2, <2>1, ApiAssumption DEF Batch
  <2> QED  BY <1>2, <2>3, <2>4, <2>5 DEF Batch, ApiTypes, ledger, bookVars
<1>3. ASSUME NEW c \in Callers, Transfer(c) PROVE ApiTypes'
  <2>1. PICK t \in todo[c] : 
          /\ ProcessTransfer(t)
          /\ notices' = [notices EXCEPT ![c] = EventsOf(t, balances', Len(transfers'))]
          /\ done' = [done EXCEPT ![c] = <<t>>]
          /\ todo' = [todo EXCEPT ![c] = {}]
          /\ pc' = [pc EXCEPT ![c] = "notify"]
          /\ UNCHANGED <<writer, told, shown, clock>>
    BY <1>3 DEF Transfer
  <2>2. t \in TransferRecord
    BY DEF ApiTypes
  <2>3. /\ balances' \in [Entities -> Nat] /\ Len(transfers') \in Nat
        /\ received' \in [Entities -> Nat] /\ paid' \in [Entities -> Nat]
        /\ transfers' \in Seq(TransferRecord) /\ federation_stats' \in [StatsFeds -> Nat]
    BY <2>1, <2>2, Processed
  <2>4. EventsOf(t, balances', Len(transfers')) \subseteq ChannelEvents
    BY <2>2, <2>3, EventFacts
  <2>5. notices' \in [Callers -> SUBSET ChannelEvents]
    BY <2>1, <2>4 DEF ApiTypes
  <2>6. /\ done' \in [Callers -> Seq(TransferRecord)]
        /\ todo' \in [Callers -> SUBSET TransferRecord]
        /\ pc' \in [Callers -> HandlerStates]
    BY <2>1, <2>2 DEF ApiTypes
  <2> QED  BY <2>1, <2>3, <2>5, <2>6 DEF ApiTypes
<1>4. ASSUME NEW c \in Callers, TransferFails(c) PROVE ApiTypes'
  BY <1>4 DEF TransferFails, ApiTypes, ledger, bookVars
<1>5. ASSUME NEW c \in Callers, BatchLock(c) PROVE ApiTypes'
  BY <1>5 DEF BatchLock, ApiTypes, ledger, bookVars
<1>6. ASSUME NEW c \in Callers, BatchTransfer(c) PROVE ApiTypes'
  <2>1. PICK t \in Foremost(todo[c]) :
          /\ \/ ProcessTransfer(t) /\ done' = [done EXCEPT ![c] = Append(@, t)]
             \/ ~CanApply(t) /\ UNCHANGED <<ledger, done>>
          /\ todo' = [todo EXCEPT ![c] = @ \ {t}]
          /\ UNCHANGED <<writer, pc, notices, told, shown, clock>>
    BY <1>6 DEF BatchTransfer
  <2>2. t \in TransferRecord
    BY DEF ApiTypes, Foremost
  <2>3. todo' \in [Callers -> SUBSET TransferRecord]
    BY <2>1 DEF ApiTypes
  <2>4. CASE ProcessTransfer(t) /\ done' = [done EXCEPT ![c] = Append(@, t)]
    <3>1. /\ balances' \in [Entities -> Nat]
          /\ received' \in [Entities -> Nat] /\ paid' \in [Entities -> Nat]
          /\ transfers' \in Seq(TransferRecord) /\ federation_stats' \in [StatsFeds -> Nat]
      BY <2>2, <2>4, Processed
    <3>2. done' \in [Callers -> Seq(TransferRecord)]
      BY <2>2, <2>4 DEF ApiTypes
    <3> QED  BY <2>1, <2>3, <3>1, <3>2 DEF ApiTypes
  <2>5. CASE UNCHANGED <<ledger, done>>
    BY <2>1, <2>3, <2>5 DEF ApiTypes, ledger, bookVars
  <2> QED  BY <2>1, <2>4, <2>5
<1>7. ASSUME NEW c \in Callers, BatchDone(c) PROVE ApiTypes'
  <2>1. ASSUME NEW i \in DOMAIN done[c]
        PROVE  EventsOf(done[c][i], balances, Len(transfers)) \subseteq ChannelEvents
    <3>1. done[c][i] \in TransferRecord /\ balances \in [Entities -> Nat] /\ Len(transfers) \in Nat
      BY DEF ApiTypes
    <3> QED  BY <3>1, EventFacts
  <2>2. notices' \in [Callers -> SUBSET ChannelEvents]
    BY <1>7, <2>1 DEF BatchDone, ApiTypes
  <2> QED  BY <1>7, <2>2 DEF BatchDone, ApiTypes, ledger, bookVars
<1>8. ASSUME NEW c \in Callers, SendEvent(c) PROVE ApiTypes'
  <2>1. PICK ev \in notices[c] :
          /\ shown' = [shown EXCEPT ![ev.channel] =
                        [balance |-> ev.balance, age |-> ev.age,
                         newest |-> IF ev.age > @.newest THEN ev.age ELSE @.newest]]
          /\ notices' = [notices EXCEPT ![c] = @ \ {ev}]
          /\ UNCHANGED <<ledger, writer, pc, todo, done, told, clock>>
    BY <1>8 DEF SendEvent
  <2>2. ev \in ChannelEvents
    BY DEF ApiTypes
  <2>3. ev.channel \in Entities /\ ev.balance \in Nat /\ ev.age \in Nat
    BY <2>2 DEF ChannelEvents
  <2>4. shown' \in [Entities -> [balance : Nat \cup {None}, age : Nat, newest : Nat]]
    BY <2>1, <2>3 DEF ApiTypes
  <2>5. notices' \in [Callers -> SUBSET ChannelEvents]
    BY <2>1 DEF ApiTypes
  <2> QED  BY <2>1, <2>4, <2>5 DEF ApiTypes, ledger, bookVars
<1>9. ASSUME NEW c \in Callers, Respond(c) PROVE ApiTypes'
  <2>1. AmountsIn(done[c]) \in Nat
    BY AmountsAreNumbers DEF ApiTypes
  <2>2. told' \in [Callers -> Nat]
    BY <1>9, <2>1 DEF Respond, ApiTypes
  <2>3. done' \in [Callers -> Seq(TransferRecord)] /\ pc' \in [Callers -> HandlerStates]
    BY <1>9 DEF Respond, ApiTypes
  <2>4. writer' \in Callers \cup {None}
    BY <1>9 DEF Respond, ApiTypes
  <2> QED  BY <1>9, <2>2, <2>3, <2>4 DEF Respond, ApiTypes, ledger, bookVars
<1>10. CASE UNCHANGED apiVars
  BY <1>10 DEF ApiTypes, apiVars, ledger, bookVars
<1> QED  BY <1>1, <1>2, <1>3, <1>4, <1>5, <1>6, <1>7, <1>8, <1>9, <1>10 DEF ApiNext

LEMMA NextKeepsHandlers ==
    ApiTypes /\ HandlerInv /\ NewestInv /\ [ApiNext]_apiVars => HandlerInv' /\ NewestInv'
<1> SUFFICES ASSUME ApiTypes, HandlerInv, NewestInv, [ApiNext]_apiVars
             PROVE  HandlerInv' /\ NewestInv'
  OBVIOUS
<1>0. None \notin Callers
  BY ApiAssumption
<1> USE DEF HandlerStates
<1>1. ASSUME NEW c \in Callers, NEW k \in Claims, NEW f \in LedgerFeds,
             (\E r \in Requests : Request(c, k, f, r)) \/ (\E b \in BatchBodies : Batch(c, k, f, b))
      PROVE  HandlerInv' /\ NewestInv'
  <2>1. /\ pc[c] = "idle" /\ pc' \in {[pc EXCEPT ![c] = "ready"], [pc EXCEPT ![c] = "prepared"]}
        /\ \A d \in Callers : d # c => todo'[d] = todo[d]
        /\ UNCHANGED <<writer, notices, done, shown>>
    BY <1>1 DEF Request, Batch, ApiTypes
  <2> QED  BY <2>1 DEF HandlerInv, NewestInv, ApiTypes
<1>3. ASSUME NEW c \in Callers, Transfer(c) PROVE HandlerInv' /\ NewestInv'
  <2>1. /\ pc[c] = "ready" /\ pc' = [pc EXCEPT ![c] = "notify"] /\ todo' = [todo EXCEPT ![c] = {}]
        /\ \A d \in Callers : d # c => notices'[d] = notices[d] /\ done'[d] = done[d]
        /\ UNCHANGED <<writer, shown>>
    BY <1>3 DEF Transfer, ApiTypes
  <2> QED  BY <2>1 DEF HandlerInv, NewestInv, ApiTypes
<1>4. ASSUME NEW c \in Callers, TransferFails(c) PROVE HandlerInv' /\ NewestInv'
  BY <1>4 DEF TransferFails, HandlerInv, NewestInv, ApiTypes
<1>5. ASSUME NEW c \in Callers, BatchLock(c) PROVE HandlerInv' /\ NewestInv'
  BY <1>0, <1>5 DEF BatchLock, HandlerInv, NewestInv, ApiTypes
<1>6. ASSUME NEW c \in Callers, BatchTransfer(c) PROVE HandlerInv' /\ NewestInv'
  <2>1. /\ pc[c] = "batch"
        /\ \A d \in Callers : d # c => todo'[d] = todo[d] /\ done'[d] = done[d]
        /\ UNCHANGED <<writer, pc, notices, shown>>
    BY <1>6 DEF BatchTransfer, ApiTypes
  <2> QED  BY <2>1 DEF HandlerInv, NewestInv
<1>7. ASSUME NEW c \in Callers, BatchDone(c) PROVE HandlerInv' /\ NewestInv'
  <2>1. /\ pc[c] = "batch" /\ todo[c] = {} /\ pc' = [pc EXCEPT ![c] = "report"]
        /\ \A d \in Callers : d # c => notices'[d] = notices[d]
        /\ UNCHANGED <<writer, todo, done, shown>>
    BY <1>7 DEF BatchDone, ApiTypes
  <2> QED  BY <2>1 DEF HandlerInv, NewestInv, ApiTypes
<1>8. ASSUME NEW c \in Callers, SendEvent(c) PROVE HandlerInv' /\ NewestInv'
  <2>1. PICK ev \in notices[c] :
          /\ shown' = [shown EXCEPT ![ev.channel] =
                        [balance |-> ev.balance, age |-> ev.age,
                         newest |-> IF ev.age > @.newest THEN ev.age ELSE @.newest]]
          /\ notices' = [notices EXCEPT ![c] = @ \ {ev}]
          /\ UNCHANGED <<writer, pc, todo, done>>
    BY <1>8 DEF SendEvent
  <2>2. ev.channel \in Entities /\ ev.age \in Nat
    BY DEF ApiTypes, ChannelEvents
  <2>3. HandlerInv'
    BY <2>1 DEF HandlerInv, ApiTypes
  <2>4. NewestInv'
    BY <2>1, <2>2 DEF NewestInv, ApiTypes
  <2> QED  BY <2>3, <2>4
<1>9. ASSUME NEW c \in Callers, Respond(c) PROVE HandlerInv' /\ NewestInv'
  <2>1. /\ pc[c] \in {"notify", "report"} /\ notices[c] = {}
        /\ done' = [done EXCEPT ![c] = <<>>] /\ pc' = [pc EXCEPT ![c] = "idle"]
        /\ writer' = IF writer = c THEN None ELSE writer
        /\ UNCHANGED <<todo, notices, shown>>
    BY <1>9 DEF Respond
  <2> QED  BY <1>0, <2>1 DEF HandlerInv, NewestInv, ApiTypes
<1>10. CASE UNCHANGED apiVars
  BY <1>10 DEF HandlerInv, NewestInv, apiVars
<1> QED  BY <1>1, <1>3, <1>4, <1>5, <1>6, <1>7, <1>8, <1>9, <1>10 DEF ApiNext

\* The amounts of a sequence with one transfer more.
LEMMA AmountsAppend ==
    ASSUME NEW s \in Seq(TransferRecord), NEW t \in TransferRecord
    PROVE  AmountsIn(Append(s, t)) = AmountsIn(s) + t.amount
<1> DEFINE n == Len(s)
           u == Append(s, t)
           f == [i \in DOMAIN s |-> s[i].amount]
           g == [i \in DOMAIN u |-> u[i].amount]
<1>1. /\ n \in Nat /\ DOMAIN s = 1..n /\ DOMAIN u = 1..(n + 1)
      /\ u[n + 1] = t /\ \A i \in 1..n : u[i] = s[i] /\ s[i] \in TransferRecord
  OBVIOUS
<1> HIDE DEF n, u
<1>2. 1..(n + 1) = (1..n) \cup {n + 1} /\ n + 1 \notin 1..n
  BY <1>1
<1>3. /\ \A i \in 1..n : f[i] \in Nat
      /\ \A i \in 1..n : g[i] = f[i]
      /\ g[n + 1] = t.amount /\ g[n + 1] \in Nat
  BY <1>1, <1>2 DEF TransferRecord
<1>4. AmountsIn(s) = SumFunctionOnSet(f, 1..n) /\ AmountsIn(u) = SumFunctionOnSet(g, 1..(n + 1))
  BY <1>1 DEF AmountsIn, Sum
<1>5. IsFiniteSet(1..n)
  BY <1>1, FS_Interval
<1> HIDE DEF f, g
<1>6. SumFunctionOnSet(g, (1..n) \cup {n + 1}) = SumFunctionOnSet(f, 1..n) + g[n + 1]
  <2> DEFINE S == 1..n
             z == n + 1
  <2>1. /\ IsFiniteSet(S) /\ z \notin S /\ g[z] \in Nat
        /\ \A x \in S : f[x] \in Nat
        /\ \A x \in S : g[x] = f[x]
    BY <1>2, <1>3, <1>5
  <2> HIDE DEF S, z
  <2>2. SumFunctionOnSet(g, S \cup {z}) = SumFunctionOnSet(f, S) + g[z]
    BY <2>1, SumExtended
  <2> QED  BY <2>2 DEF S, z
<1> QED  BY <1>2, <1>3, <1>4, <1>6 DEF u

LEMMA NoAmounts == AmountsIn(<<>>) = 0
<1> DEFINE f == [i \in DOMAIN <<>> |-> <<>>[i].amount]
<1>1. DOMAIN f = {} /\ AmountsIn(<<>>) = SumFunctionOnSet(f, DOMAIN f)
  BY DEF AmountsIn, Sum
<1> HIDE DEF f
<1> QED  BY <1>1, SumOfZeros, FS_EmptySet

\* The recorded transfers and their fees, of one federation or of all.
FeesAt(S) == SumFunctionOnSet([i \in S |-> transfers[i].fee], S)
PositionsOf(f) == {i \in DOMAIN transfers : transfers[i].federation = f}

LEMMA FeesAccountedMeans ==
    FeesAccounted <=> /\ Sum(balances) + FeesAt(DOMAIN transfers) = Opened
                      /\ \A f \in StatsFeds : federation_stats[f] = Opened + FeesAt(PositionsOf(f))
<1>1. \A S : DOMAIN [i \in S |-> transfers[i].fee] = S
  OBVIOUS
<1> QED  BY <1>1 DEF FeesAccounted, GetFederationStats, FeesAt, PositionsOf, Sum

LEMMA FeesAccountedMeansNext ==
    FeesAccounted' <=> /\ Sum(balances') + FeesAt(DOMAIN transfers)' = Opened
                       /\ \A f \in StatsFeds : federation_stats'[f] = Opened + FeesAt(PositionsOf(f))'
<1>1. \A S : DOMAIN [i \in S |-> transfers'[i].fee] = S
  OBVIOUS
<1> QED  BY <1>1 DEF FeesAccounted, GetFederationStats, FeesAt, PositionsOf, Sum, Opened

\* What one transfer adds to the fees.
LEMMA ProcessedFees ==
    ASSUME ApiTypes, NEW t \in TransferRecord, ProcessTransfer(t)
    PROVE  /\ FeesAt(DOMAIN transfers) \in Nat
           /\ FeesAt(DOMAIN transfers)' = FeesAt(DOMAIN transfers) + t.fee
           /\ \A f \in StatsFeds :
                 /\ FeesAt(PositionsOf(f)) \in Nat
                 /\ FeesAt(PositionsOf(f))' =
                        FeesAt(PositionsOf(f)) + IF f = t.federation THEN t.fee ELSE 0
<1>1. /\ Len(transfers) \in Nat
      /\ DOMAIN transfers = 1..Len(transfers) /\ DOMAIN transfers' = 1..(Len(transfers) + 1)
      /\ transfers'[Len(transfers) + 1] = t
      /\ \A i \in DOMAIN transfers : transfers'[i] = transfers[i]
  BY Processed
<1>2. PICK n \in Nat : n = Len(transfers)
  BY <1>1
<1>3. PICK old, new : old = transfers /\ new = transfers'
  OBVIOUS
<1>4. /\ DOMAIN old = 1..n /\ DOMAIN new = 1..(n + 1) /\ new[n + 1] = t
      /\ \A i \in 1..n : new[i] = old[i] /\ old[i].fee \in Nat
  <2>1. transfers \in Seq(TransferRecord)
    BY DEF ApiTypes
  <2>2. \A i \in DOMAIN transfers : transfers[i] \in TransferRecord
    BY <2>1
  <2>3. \A i \in DOMAIN transfers : transfers[i].fee \in Nat
    BY <2>2 DEF TransferRecord
  <2> QED  BY <1>1, <1>2, <1>3, <2>3
<1>5. t.fee \in Nat
  BY DEF TransferRecord
<1> DEFINE before(S) == SumFunctionOnSet([i \in S |-> old[i].fee], S)
           after(S) == SumFunctionOnSet([i \in S |-> new[i].fee], S)
<1>6. ASSUME NEW S \in SUBSET (1..n)
      PROVE  /\ before(S) \in Nat
             /\ after(S) = before(S)
             /\ after(S \cup {n + 1}) = before(S) + t.fee
  <2> DEFINE f == [i \in S |-> old[i].fee]
             g == [i \in S |-> new[i].fee]
             h == [i \in S \cup {n + 1} |-> new[i].fee]
  <2>1. IsFiniteSet(S)
    <3>1. IsFiniteSet(1..n)
      BY FS_Interval
    <3> QED  BY <3>1, FS_Subset
  <2>2. n + 1 \notin S /\ S \in SUBSET S
    OBVIOUS
  <2>3. /\ \A i \in S : f[i] \in Nat
        /\ \A i \in S : g[i] = f[i]
        /\ \A i \in S : h[i] = f[i]
        /\ h[n + 1] = t.fee /\ h[n + 1] \in Nat
    BY <1>4, <1>5
  <2> HIDE DEF f, g, h
  <2>4. SumFunctionOnSet(f, S) \in Nat
    BY <2>1, <2>2, <2>3, SumStep
  <2>5. SumFunctionOnSet(g, S) = SumFunctionOnSet(f, S)
    BY <2>1, <2>3, SumSame
  <2>6. SumFunctionOnSet(h, S \cup {n + 1}) = SumFunctionOnSet(f, S) + h[n + 1]
    <3> DEFINE z == n + 1
               R == S
    <3>1. /\ IsFiniteSet(R) /\ z \notin R /\ h[z] \in Nat
          /\ \A x \in R : f[x] \in Nat
          /\ \A x \in R : h[x] = f[x]
      BY <2>1, <2>2, <2>3
    <3> HIDE DEF z, R
    <3>2. SumFunctionOnSet(h, R \cup {z}) = SumFunctionOnSet(f, R) + h[z]
      BY <3>1, SumExtended
    <3> QED  BY <3>2 DEF z, R
  <2>7. h[n + 1] = t.fee
    BY <2>3
  <2> QED  BY <2>4, <2>5, <2>6, <2>7 DEF f, g, h
<1>7. 1..(n + 1) = (1..n) \cup {n + 1} /\ 1..n \in SUBSET (1..n)
  OBVIOUS
<1>8. /\ FeesAt(DOMAIN transfers) = before(1..n)
      /\ FeesAt(DOMAIN transfers)' = after(1..(n + 1))
  BY <1>3, <1>4 DEF FeesAt
<1>9. ASSUME NEW f \in StatsFeds
      PROVE  /\ FeesAt(PositionsOf(f)) \in Nat
             /\ FeesAt(PositionsOf(f))' =
                    FeesAt(PositionsOf(f)) + IF f = t.federation THEN t.fee ELSE 0
  <2> DEFINE P == {i \in 1..n : old[i].federation = f}
             Q == {i \in 1..(n + 1) : new[i].federation = f}
  <2>1. /\ P \in SUBSET (1..n)
        /\ Q = IF f = t.federation THEN P \cup {n + 1} ELSE P
    BY <1>4, <1>7
  <2>2. FeesAt(PositionsOf(f)) = before(P) /\ FeesAt(PositionsOf(f))' = after(Q)
    BY <1>3, <1>4 DEF FeesAt, PositionsOf
  <2> HIDE DEF P, Q, before, after
  <2>3. before(P) \in Nat /\ after(P) = before(P) /\ after(P \cup {n + 1}) = before(P) + t.fee
    BY <1>6, <2>1
  <2> QED  BY <2>1, <2>2, <2>3
<1> HIDE DEF before, after
<1>10. /\ FeesAt(DOMAIN transfers) \in Nat
       /\ FeesAt(DOMAIN transfers)' = FeesAt(DOMAIN transfers) + t.fee
  BY <1>6, <1>7, <1>8
<1> QED  BY <1>9, <1>10

\* One transfer keeps the books.
LEMMA ProcessedSums ==
    ASSUME ApiTypes, Explained, FeesAccounted, NEW t \in TransferRecord, ProcessTransfer(t)
    PROVE  /\ Explained' /\ FeesAccounted'
           /\ Sum(received) \in Nat /\ Sum(received') = Sum(received) + t.amount
<1>1. /\ t.from \in Entities /\ t.to \in Entities /\ t.amount \in Nat /\ t.fee \in Nat
      /\ Total(t) = t.amount + t.fee
  BY DEF TransferRecord, Total
<1>2. /\ balances \in [Entities -> Nat] /\ received \in [Entities -> Nat]
      /\ paid \in [Entities -> Nat] /\ federation_stats \in [StatsFeds -> Nat]
  BY DEF ApiTypes
<1>3. balances[t.from] >= Total(t)
  BY DEF ProcessTransfer, Apply, CanApply
<1>4. IsFiniteSet(Entities) /\ Opening \in [Entities -> Nat] /\ Entities \in SUBSET Entities
  BY ApiAssumption, BookAssumption
<1>5. PICK a, b, n, d : a = t.from /\ b = t.to /\ n = t.amount /\ d = Total(t)
  OBVIOUS
<1>6. a \in Entities /\ b \in Entities /\ n \in Nat /\ d \in Nat /\ d = n + t.fee
  BY <1>1, <1>5
<1>7. PICK debited : debited = [balances EXCEPT ![a] = @ - d]
  OBVIOUS
<1>8. PICK bal, rec, out : bal = balances' /\ rec = received' /\ out = paid'
  OBVIOUS
<1>9. /\ bal = [debited EXCEPT ![b] = @ + n]
      /\ rec = [received EXCEPT ![b] = @ + n]
      /\ out = [paid EXCEPT ![a] = @ + d]
  BY <1>5, <1>7, <1>8 DEF ProcessTransfer, Apply, Moved
<1>10. /\ debited \in [Entities -> Nat] /\ debited[a] = balances[a] - d
       /\ \A e \in Entities : e # a => debited[e] = balances[e]
  <2>1. balances[a] - d \in Nat
    BY <1>2, <1>3, <1>5, <1>6
  <2> QED  BY <1>2, <1>6, <1>7, <2>1
<1>11. /\ bal \in [Entities -> Nat] /\ rec \in [Entities -> Nat] /\ out \in [Entities -> Nat]
  BY <1>8, Processed
<1>12. /\ bal[b] = debited[b] + n /\ \A e \in Entities : e # b => bal[e] = debited[e]
       /\ rec[b] = received[b] + n /\ \A e \in Entities : e # b => rec[e] = received[e]
       /\ out[a] = paid[a] + d /\ \A e \in Entities : e # a => out[e] = paid[e]
  BY <1>2, <1>6, <1>9, <1>10
<1>13. Explained'
  <2>1. ASSUME NEW e \in Entities PROVE bal[e] \in Nat /\ bal[e] + out[e] = Opening[e] + rec[e]
    <3>1. /\ balances[e] + paid[e] = Opening[e] + received[e]
          /\ balances[e] \in Nat /\ paid[e] \in Nat /\ Opening[e] \in Nat /\ received[e] \in Nat
          /\ debited[e] \in Nat /\ bal[e] \in Nat
      BY <1>2, <1>4, <1>10, <1>11 DEF Explained
    <3>2. debited[e] + out[e] = balances[e] + paid[e]
      BY <1>6, <1>10, <1>12, <3>1
    <3>3. PICK m \in Nat : bal[e] = debited[e] + m /\ rec[e] = received[e] + m
      <4>1. CASE e = b
        BY <1>6, <1>12, <4>1
      <4>2. CASE e # b
        <5>1. bal[e] = debited[e] + 0 /\ rec[e] = received[e] + 0
          BY <1>12, <3>1, <4>2
        <5> QED  BY <5>1
      <4> QED  BY <4>1, <4>2
    <3>4. out[e] \in Nat
      BY <1>11
    <3> QED  BY <3>1, <3>2, <3>3, <3>4
  <2> QED  BY <1>8, <2>1 DEF Explained
<1>14. Sum(debited) = Sum(balances) - balances[a] + debited[a]
  <2>1. (\A x \in Entities : balances[x] \in Nat) /\ (\A x \in Entities : debited[x] \in Nat)
    BY <1>2, <1>10
  <2>2. DOMAIN debited = Entities /\ DOMAIN balances = Entities
    BY <1>2, <1>10
  <2> QED  BY <1>4, <1>6, <1>10, <2>1, <2>2, SumUpdate DEF Sum
<1>15. Sum(bal) = Sum(debited) - debited[b] + bal[b]
  <2>1. (\A x \in Entities : bal[x] \in Nat) /\ (\A x \in Entities : debited[x] \in Nat)
    BY <1>10, <1>11
  <2>2. DOMAIN debited = Entities /\ DOMAIN bal = Entities
    BY <1>10, <1>11
  <2> QED  BY <1>4, <1>6, <1>12, <2>1, <2>2, SumUpdate DEF Sum
<1>16. Sum(rec) = Sum(received) - received[b] + rec[b]
  <2>1. (\A x \in Entities : rec[x] \in Nat) /\ (\A x \in Entities : received[x] \in Nat)
    BY <1>2, <1>11
  <2>2. DOMAIN rec = Entities /\ DOMAIN received = Entities
    BY <1>2, <1>11
  <2> QED  BY <1>4, <1>6, <1>12, <2>1, <2>2, SumUpdate DEF Sum
<1>17. Sum(balances) \in Nat /\ Sum(received) \in Nat /\ Opened \in Nat
  <2>1. /\ \A x \in Entities : balances[x] \in Nat
        /\ \A x \in Entities : received[x] \in Nat
        /\ \A x \in Entities : Opening[x] \in Nat
        /\ DOMAIN balances = Entities /\ DOMAIN received = Entities /\ DOMAIN Opening = Entities
    BY <1>2, <1>4
  <2> QED  BY <1>4, <2>1, SumStep DEF Sum, Opened
<1>18. Sum(bal) = Sum(balances) - d + n /\ Sum(rec) = Sum(received) + n
  <2>1. balances[a] \in Nat /\ debited[b] \in Nat /\ received[b] \in Nat
    BY <1>2, <1>6, <1>10
  <2>2. /\ debited[a] = balances[a] - d /\ bal[b] = debited[b] + n /\ rec[b] = received[b] + n
    BY <1>10, <1>12
  <2> QED  BY <1>6, <1>14, <1>15, <1>16, <1>17, <2>1, <2>2
<1>19. FeesAccounted'
  <2>1. /\ Sum(balances) + FeesAt(DOMAIN transfers) = Opened
        /\ \A f \in StatsFeds : federation_stats[f] = Opened + FeesAt(PositionsOf(f))
    BY FeesAccountedMeans
  <2>2. /\ FeesAt(DOMAIN transfers) \in Nat
        /\ FeesAt(DOMAIN transfers)' = FeesAt(DOMAIN transfers) + t.fee
        /\ \A f \in StatsFeds :
              /\ FeesAt(PositionsOf(f)) \in Nat
              /\ FeesAt(PositionsOf(f))' =
                     FeesAt(PositionsOf(f)) + IF f = t.federation THEN t.fee ELSE 0
    BY ProcessedFees
  <2>3. Sum(balances') + FeesAt(DOMAIN transfers)' = Opened
    <3>1. Sum(balances') = Sum(balances) - d + n
      BY <1>8, <1>18
    <3> QED  BY <1>1, <1>6, <1>17, <2>1, <2>2, <3>1
  <2>4. \A f \in StatsFeds : federation_stats'[f] = federation_stats[f] +
                                 IF f = t.federation THEN t.fee ELSE 0
    BY DEF ProcessTransfer
  <2>5. \A f \in StatsFeds : federation_stats'[f] = Opened + FeesAt(PositionsOf(f))'
    <3> TAKE f \in StatsFeds
    <3>1. PICK x \in Nat, y \in Nat, z \in Nat :
             x = FeesAt(PositionsOf(f)) /\ y = (IF f = t.federation THEN t.fee ELSE 0) /\ z = Opened
      BY <1>1, <1>17, <2>2
    <3>2. FeesAt(PositionsOf(f))' = x + y /\ federation_stats'[f] = (z + x) + y
      BY <2>1, <2>2, <2>4, <3>1
    <3> QED  BY <3>1, <3>2
  <2> QED  BY <2>3, <2>5, FeesAccountedMeansNext
<1> QED  BY <1>5, <1>8, <1>13, <1>17, <1>18, <1>19

\* What callers were or will be told of.
Answers == [c \in Callers |-> told[c] + AmountsIn(done[c])]

\* A caller that has a transfer more to report.
LEMMA OneMoreAnswer ==
    ASSUME ApiTypes, ApiTypes', NEW c \in Callers, NEW t \in TransferRecord,
           done' = [done EXCEPT ![c] = Append(done[c], t)], told' = told,
           AnswersMatch, Sum(received) \in Nat, Sum(received') = Sum(received) + t.amount
    PROVE  AnswersMatch'
<1>1. IsFiniteSet(Callers)
  BY ApiAssumption
<1>2. \A d \in Callers : AmountsIn(done[d]) \in Nat /\ told[d] \in Nat
  BY AmountsAreNumbers DEF ApiTypes
<1>3. PICK g, h : g = Answers /\ h = Answers'
  OBVIOUS
<1>4. AmountsIn(Append(done[c], t)) = AmountsIn(done[c]) + t.amount
  BY AmountsAppend DEF ApiTypes
<1>5. /\ done'[c] = Append(done[c], t)
      /\ \A d \in Callers : d # c => done'[d] = done[d]
  BY DEF ApiTypes
<1>6. t.amount \in Nat
  BY DEF TransferRecord
<1>7. /\ \A d \in Callers : g[d] \in Nat
      /\ \A d \in Callers : d # c => h[d] = g[d]
      /\ h[c] = g[c] + t.amount
      /\ DOMAIN g = Callers /\ DOMAIN h = Callers
  <2>1. /\ \A d \in Callers : g[d] = told[d] + AmountsIn(done[d]) /\ h[d] = told[d] + AmountsIn(done'[d])
        /\ DOMAIN g = Callers /\ DOMAIN h = Callers
    BY <1>3 DEF Answers
  <2>2. \A d \in Callers : g[d] \in Nat
    BY <1>2, <2>1
  <2>3. \A d \in Callers : d # c => h[d] = g[d]
    BY <1>5, <2>1
  <2>4. h[c] = told[c] + (AmountsIn(done[c]) + t.amount)
    BY <1>4, <1>5, <2>1
  <2> QED  BY <1>2, <1>6, <2>1, <2>2, <2>3, <2>4
<1>8. \A d \in Callers : h[d] \in Nat
  BY <1>6, <1>7
<1>9. SumFunctionOnSet(h, Callers) = SumFunctionOnSet(g, Callers) - g[c] + h[c]
  <2>1. (\A d \in Callers : g[d] \in Nat) /\ (\A d \in Callers : d # c => h[d] = g[d])
    BY <1>7
  <2> QED  BY <1>1, <1>8, <2>1, SumUpdate
<1>10. SumFunctionOnSet(g, Callers) = Sum(received)
  BY <1>3, <1>7 DEF AnswersMatch, Answers, Sum
<1>11. SumFunctionOnSet(h, Callers) = Sum(received')
  BY <1>6, <1>7, <1>9, <1>10
<1> QED  BY <1>3, <1>7, <1>11 DEF AnswersMatch, Answers, Sum

\* The books: what balances, statistics and answers add up to.
SumsInv == Explained /\ FeesAccounted /\ AnswersMatch

LEMMA NextKeepsSums ==
    ApiTypes /\ ApiTypes' /\ HandlerInv /\ SumsInv /\ [ApiNext]_apiVars => SumsInv'
<1> SUFFICES ASSUME ApiTypes, ApiTypes', HandlerInv, SumsInv, [ApiNext]_apiVars PROVE SumsInv'
  OBVIOUS
<1>1. ASSUME UNCHANGED <<ledger, done, told>> PROVE SumsInv'
  BY <1>1 DEF SumsInv, Explained, FeesAccounted, AnswersMatch, GetFederationStats, AmountsIn, Sum,
              ledger, bookVars
<1>2. ASSUME NEW c \in Callers, NEW t \in TransferRecord, ProcessTransfer(t),
             done' = [done EXCEPT ![c] = Append(done[c], t)], told' = told
      PROVE  SumsInv'
  <2>1. /\ Explained' /\ FeesAccounted'
        /\ Sum(received) \in Nat /\ Sum(received') = Sum(received) + t.amount
    BY <1>2, ProcessedSums DEF SumsInv
  <2>2. AnswersMatch'
    BY <1>2, <2>1, OneMoreAnswer DEF SumsInv
  <2> QED  BY <2>1, <2>2 DEF SumsInv
<1>3. ASSUME NEW c \in Callers, Transfer(c) PROVE SumsInv'
  <2>1. PICK t \in todo[c] : /\ pc[c] = "ready" /\ ProcessTransfer(t)
                             /\ done' = [done EXCEPT ![c] = <<t>>] /\ told' = told
    BY <1>3 DEF Transfer
  <2>2. t \in TransferRecord
    BY DEF ApiTypes
  <2>3. done[c] = <<>> /\ Append(<<>>, t) = <<t>>
    BY <2>1 DEF HandlerInv
  <2> QED  BY <1>2, <2>1, <2>2, <2>3
<1>4. ASSUME NEW c \in Callers, BatchTransfer(c) PROVE SumsInv'
  <2>1. PICK t \in Foremost(todo[c]) :
          /\ \/ ProcessTransfer(t) /\ done' = [done EXCEPT ![c] = Append(done[c], t)]
             \/ UNCHANGED <<ledger, done>>
          /\ told' = told
    BY <1>4 DEF BatchTransfer
  <2>2. t \in TransferRecord
    BY DEF ApiTypes, Foremost
  <2> QED  BY <1>1, <1>2, <2>1, <2>2
<1>5. ASSUME NEW c \in Callers, Respond(c) PROVE SumsInv'
  <2>1. /\ UNCHANGED ledger
        /\ told' = [told EXCEPT ![c] = @ + AmountsIn(done[c])]
        /\ done' = [done EXCEPT ![c] = <<>>]
    BY <1>5 DEF Respond
  <2>2. \A d \in Callers : AmountsIn(done[d]) \in Nat /\ told[d] \in Nat
    BY AmountsAreNumbers DEF ApiTypes
  <2>3. ASSUME NEW d \in Callers
        PROVE  told'[d] + AmountsIn(done'[d]) = told[d] + AmountsIn(done[d])
    <3>1. CASE d = c
      <4>1. told'[c] = told[c] + AmountsIn(done[c]) /\ done'[c] = <<>>
        BY <2>1 DEF ApiTypes
      <4> QED  BY <2>2, <3>1, <4>1, NoAmounts
    <3>2. CASE d # c
      BY <2>1, <3>2 DEF ApiTypes
    <3> QED  BY <3>1, <3>2
  <2>4. Answers' = Answers
    BY <2>3 DEF Answers
  <2>5. AnswersMatch'
    <3>1. AnswersMatch <=> Sum(Answers) = Sum(received)
      BY DEF AnswersMatch, Answers
    <3>2. AnswersMatch' <=> Sum(Answers') = Sum(received')
      BY DEF AnswersMatch, Answers, Sum
    <3> QED  BY <2>1, <2>4, <3>1, <3>2 DEF SumsInv, ledger, bookVars
  <2>6. Explained' /\ FeesAccounted'
    BY <2>1 DEF SumsInv, Explained, FeesAccounted, GetFederationStats, Sum, ledger, bookVars
  <2> QED  BY <2>5, <2>6 DEF SumsInv
<1>6. ASSUME NEW c \in Callers, NEW k \in Claims, NEW f \in LedgerFeds,
             (\E r \in Requests : Request(c, k, f, r)) \/ (\E b \in BatchBodies : Batch(c, k, f, b))
      PROVE  SumsInv'
  BY <1>1, <1>6 DEF Request, Batch
<1>7. ASSUME NEW c \in Callers, TransferFails(c) \/ BatchLock(c) \/ BatchDone(c) \/ SendEvent(c)
      PROVE  SumsInv'
  BY <1>1, <1>7 DEF TransferFails, BatchLock, BatchDone, SendEvent
<1>8. CASE UNCHANGED apiVars
  BY <1>1, <1>8 DEF apiVars
<1> QED  BY <1>3, <1>4, <1>5, <1>6, <1>7, <1>8 DEF ApiNext

\* Whose transfers are where: a request's transfers carry its number, no two requests
\* have the same, and what a batch at work has recorded comes last.
CallInv ==
    /\ \A c \in Callers : \A t \in todo[c] : t.call < clock
    /\ \A c \in Callers : \A t, x \in todo[c] : t.call = x.call
    /\ \A c, d \in Callers : c # d => \A t \in todo[c], x \in todo[d] : t.call # x.call
    /\ \A i \in DOMAIN transfers : transfers[i].call < clock
    /\ \A c \in Callers : pc[c] \in {"ready", "prepared"} =>
           \A t \in todo[c], i \in DOMAIN transfers : transfers[i].call # t.call
    /\ \A c \in Callers : pc[c] = "batch" =>
           \A t \in todo[c], i, j \in DOMAIN transfers :
               i < j /\ transfers[i].call = t.call => transfers[j].call = t.call
    /\ BatchesIsolated

\* A new request.
LEMMA RequestKeepsCalls ==
    ASSUME ApiTypes, HandlerInv, CallInv, NEW c \in Callers, pc[c] = "idle",
           NEW next \in {"ready", "prepared"}, pc' = [pc EXCEPT ![c] = next],
           NEW S, todo' = [todo EXCEPT ![c] = S],
           \A t \in S : t.call = clock /\ clock < clock', clock <= clock', clock' \in Nat,
           transfers' = transfers
    PROVE  CallInv'
<1>1. /\ clock \in Nat /\ transfers \in Seq(TransferRecord)
      /\ \A d \in Callers : todo[d] \subseteq TransferRecord
  BY DEF ApiTypes
<1>2. /\ \A d \in Callers : \A t \in todo[d] : t.call \in Nat
      /\ \A i \in DOMAIN transfers : transfers[i].call \in Nat
  <2>1. \A t \in TransferRecord : t.call \in Nat
    BY DEF TransferRecord
  <2> QED  BY <1>1, <2>1
<1>3. /\ todo'[c] = S /\ pc'[c] = next
      /\ \A d \in Callers : d # c => todo'[d] = todo[d] /\ pc'[d] = pc[d]
  BY DEF ApiTypes
<1>4. \A d \in Callers : \A t \in todo'[d] : t.call < clock'
  BY <1>1, <1>2, <1>3 DEF CallInv
<1>5. \A d \in Callers : \A t, x \in todo'[d] : t.call = x.call
  BY <1>3 DEF CallInv
<1>6. \A d, e \in Callers : d # e => \A t \in todo'[d], x \in todo'[e] : t.call # x.call
  <2>1. \A d \in Callers : d # c => \A t \in todo'[d], x \in S : t.call # x.call
    BY <1>1, <1>2, <1>3 DEF CallInv
  <2> QED  BY <1>3, <2>1 DEF CallInv
<1>7. \A i \in DOMAIN transfers : transfers[i].call < clock'
  BY <1>1, <1>2 DEF CallInv
<1>8. \A d \in Callers : pc'[d] \in {"ready", "prepared"} =>
           \A t \in todo'[d], i \in DOMAIN transfers : transfers[i].call # t.call
  <2>1. \A t \in S, i \in DOMAIN transfers : transfers[i].call # t.call
    BY <1>1, <1>2 DEF CallInv
  <2> QED  BY <1>3, <2>1 DEF CallInv
<1>9. \A d \in Callers : pc'[d] = "batch" =>
           \A t \in todo'[d], i, j \in DOMAIN transfers :
               i < j /\ transfers[i].call = t.call => transfers[j].call = t.call
  BY <1>3 DEF CallInv
<1> QED  BY <1>4, <1>5, <1>6, <1>7, <1>8, <1>9 DEF CallInv, BatchesIsolated

\* A transfer that is recorded: of a request that recorded none before, or of the batch
\* that has the lock.
LEMMA RecordKeepsCalls ==
    ASSUME ApiTypes, HandlerInv, CallInv, NEW c \in Callers, NEW t \in todo[c], ProcessTransfer(t),
           (pc[c] = "ready" /\ writer = None) \/ pc[c] = "batch",
           clock' = clock,
           NEW S \in SUBSET todo[c], todo' = [todo EXCEPT ![c] = S],
           pc[c] = "ready" => S = {},
           \A d \in Callers : d # c => pc'[d] = pc[d],
           pc[c] = "batch" => pc'[c] = "batch"
    PROVE  CallInv'
<1>1. /\ clock \in Nat /\ transfers \in Seq(TransferRecord)
      /\ \A d \in Callers : todo[d] \subseteq TransferRecord
      /\ t \in TransferRecord
  BY DEF ApiTypes
<1>2. /\ \A d \in Callers : \A x \in todo[d] : x.call \in Nat
      /\ \A i \in DOMAIN transfers : transfers[i].call \in Nat
      /\ t.call \in Nat
  <2>1. \A x \in TransferRecord : x.call \in Nat
    BY DEF TransferRecord
  <2> QED  BY <1>1, <2>1
<1>3. PICK n \in Nat : n = Len(transfers)
  BY <1>1
<1>4. PICK old, new : old = transfers /\ new = transfers'
  OBVIOUS
<1>5. /\ DOMAIN old = 1..n /\ DOMAIN new = 1..(n + 1) /\ new[n + 1] = t
      /\ \A i \in 1..n : new[i] = old[i]
  BY <1>1, <1>3, <1>4, Processed
<1>6. /\ todo'[c] = S
      /\ \A d \in Callers : d # c => todo'[d] = todo[d] /\ pc'[d] = pc[d]
  BY DEF ApiTypes
<1>7. \A d \in Callers : d # c => pc[d] # "batch"
  BY ApiAssumption DEF HandlerInv
<1>8. \A d \in Callers : todo'[d] \subseteq todo[d]
  BY <1>6
<1>9. /\ \A d \in Callers : \A x \in todo'[d] : x.call < clock'
      /\ \A d \in Callers : \A x, y \in todo'[d] : x.call = y.call
      /\ \A d, e \in Callers : d # e => \A x \in todo'[d], y \in todo'[e] : x.call # y.call
  BY <1>8 DEF CallInv
<1>10. \A i \in 1..(n + 1) : new[i].call < clock'
  <2>1. \A i \in 1..n : new[i].call < clock
    BY <1>4, <1>5 DEF CallInv
  <2>2. t.call < clock
    BY DEF CallInv
  <2> QED  BY <1>5, <2>1, <2>2
<1>11. \A d \in Callers : pc'[d] \in {"ready", "prepared"} =>
           \A x \in todo'[d], i \in 1..(n + 1) : new[i].call # x.call
  <2> SUFFICES ASSUME NEW d \in Callers, pc'[d] \in {"ready", "prepared"},
                      NEW x \in todo'[d], NEW i \in 1..(n + 1)
               PROVE  new[i].call # x.call
    OBVIOUS
  <2>1. d # c
    BY <1>6
  <2>2. pc[d] \in {"ready", "prepared"} /\ x \in todo[d]
    BY <1>6, <2>1
  <2>3. CASE i = n + 1
    BY <1>5, <2>1, <2>2, <2>3 DEF CallInv
  <2>4. CASE i # n + 1
    <3>1. i \in 1..n
      BY <2>4
    <3> QED  BY <1>4, <1>5, <2>2, <3>1 DEF CallInv
  <2> QED  BY <2>3, <2>4
<1>12. pc[c] = "batch" => \A i, j \in 1..n :
           i < j /\ old[i].call = t.call => old[j].call = t.call
  BY <1>4, <1>5 DEF CallInv
<1>13. pc[c] # "batch" => \A i \in 1..n : old[i].call # t.call
  BY <1>4, <1>5 DEF CallInv
<1>14. \A d \in Callers : pc'[d] = "batch" =>
           \A x \in todo'[d], i, j \in 1..(n + 1) :
               i < j /\ new[i].call = x.call => new[j].call = x.call
  <2> SUFFICES ASSUME NEW d \in Callers, pc'[d] = "batch", NEW x \in todo'[d],
                      NEW i \in 1..(n + 1), NEW j \in 1..(n + 1), i < j, new[i].call = x.call
               PROVE  new[j].call = x.call
    OBVIOUS
  <2>1. d = c
    BY <1>6, <1>7
  <2>2. x \in todo[c] /\ pc[c] = "batch"
    BY <1>6, <2>1
  <2>3. x.call = t.call
    BY <2>2 DEF CallInv
  <2>4. i \in 1..n
    OBVIOUS
  <2>5. CASE j = n + 1
    BY <1>5, <2>3, <2>5
  <2>6. CASE j # n + 1
    <3>1. j \in 1..n
      BY <2>6
    <3> QED  BY <1>5, <1>12, <2>2, <2>3, <2>4, <3>1
  <2> QED  BY <2>5, <2>6
<1>15. \A i, j, k \in 1..(n + 1) :
           i < j /\ j < k /\ new[i].call = new[k].call => new[j].call = new[i].call
  <2> SUFFICES ASSUME NEW i \in 1..(n + 1), NEW j \in 1..(n + 1), NEW k \in 1..(n + 1),
                      i < j, j < k, new[i].call = new[k].call
               PROVE  new[j].call = new[i].call
    OBVIOUS
  <2>1. i \in 1..n /\ j \in 1..n
    OBVIOUS
  <2>2. CASE k = n + 1
    <3>1. old[i].call = t.call
      BY <1>5, <2>1, <2>2
    <3> QED  BY <1>5, <1>12, <1>13, <2>1, <3>1
  <2>3. CASE k # n + 1
    <3>1. k \in 1..n
      BY <2>3
    <3> QED  BY <1>4, <1>5, <2>1, <3>1 DEF CallInv, BatchesIsolated
  <2> QED  BY <2>2, <2>3
<1> QED  BY <1>4, <1>5, <1>9, <1>10, <1>11, <1>14, <1>15 DEF CallInv, BatchesIsolated

LEMMA NextKeepsCalls == ApiTypes /\ HandlerInv /\ CallInv /\ [ApiNext]_apiVars => CallInv'
<1> SUFFICES ASSUME ApiTypes, HandlerInv, CallInv, [ApiNext]_apiVars PROVE CallInv'
  OBVIOUS
<1>1. ASSUME NEW c \in Callers, NEW k \in Claims, NEW f \in LedgerFeds, NEW r \in Requests,
             Request(c, k, f, r)
      PROVE  CallInv'
  <2> DEFINE S == {CreateTransfer(r, f, clock, clock)}
  <2>1. clock \in Nat /\ clock' = clock + 1
    BY <1>1 DEF Request, ApiTypes
  <2>2. \A t \in S : t.call = clock /\ clock < clock'
    BY <2>1 DEF CreateTransfer
  <2>3. /\ pc[c] = "idle" /\ pc' = [pc EXCEPT ![c] = "ready"] /\ todo' = [todo EXCEPT ![c] = S]
        /\ transfers' = transfers
    BY <1>1 DEF Request, ledger
  <2> HIDE DEF S
  <2>4. clock <= clock' /\ clock' \in Nat
    BY <2>1
  <2> QED  BY <2>2, <2>3, <2>4, RequestKeepsCalls
<1>2. ASSUME NEW c \in Callers, NEW k \in Claims, NEW f \in LedgerFeds, NEW b \in BatchBodies,
             Batch(c, k, f, b)
      PROVE  CallInv'
  <2> DEFINE S == {CreateTransfer(b[i], f, clock + i - 1, clock) :
                       i \in {m \in DOMAIN b : Accepted(k, f, b[m])}}
  <2>1. clock \in Nat /\ clock' = clock + Len(b) /\ Len(b) \in Nat /\ DOMAIN b = 1..Len(b)
    <3>1. b \in Seq(TransferRequest)
      BY ApiAssumption
    <3> QED  BY <1>2, <3>1 DEF Batch, ApiTypes
  <2>2. \A t \in S : t.call = clock /\ clock < clock'
    <3> SUFFICES ASSUME NEW i \in DOMAIN b
                 PROVE  CreateTransfer(b[i], f, clock + i - 1, clock).call = clock /\ clock < clock'
      OBVIOUS
    <3>1. Len(b) >= 1
      BY <2>1
    <3> QED  BY <2>1, <3>1 DEF CreateTransfer
  <2>3. /\ pc[c] = "idle" /\ pc' = [pc EXCEPT ![c] = "prepared"] /\ todo' = [todo EXCEPT ![c] = S]
        /\ transfers' = transfers
    BY <1>2 DEF Batch, ledger
  <2> HIDE DEF S
  <2>4. clock <= clock' /\ clock' \in Nat
    BY <2>1
  <2> QED  BY <2>2, <2>3, <2>4, RequestKeepsCalls
<1>3. ASSUME NEW c \in Callers, Transfer(c) PROVE CallInv'
  <2>1. PICK t \in todo[c] :
          /\ pc[c] = "ready" /\ writer = None /\ ProcessTransfer(t)
          /\ todo' = [todo EXCEPT ![c] = {}] /\ pc' = [pc EXCEPT ![c] = "notify"]
          /\ clock' = clock
    BY <1>3 DEF Transfer
  <2>2. \A d \in Callers : d # c => pc'[d] = pc[d]
    BY <2>1 DEF ApiTypes
  <2>3. {} \in SUBSET todo[c]
    OBVIOUS
  <2> QED  BY <2>1, <2>2, <2>3, RecordKeepsCalls
<1>4. ASSUME NEW c \in Callers, BatchTransfer(c) PROVE CallInv'
  <2>1. PICK t \in Foremost(todo[c]) :
          /\ pc[c] = "batch"
          /\ ProcessTransfer(t) \/ UNCHANGED ledger
          /\ todo' = [todo EXCEPT ![c] = todo[c] \ {t}]
          /\ UNCHANGED <<pc, clock>>
    BY <1>4 DEF BatchTransfer
  <2>2. t \in todo[c] /\ todo[c] \ {t} \in SUBSET todo[c]
    BY DEF Foremost
  <2>3. CASE ProcessTransfer(t)
    BY <2>1, <2>2, <2>3, RecordKeepsCalls
  <2>4. CASE UNCHANGED ledger
    <3>1. \A d \in Callers : todo'[d] \subseteq todo[d]
      BY <2>1 DEF ApiTypes
    <3> QED  BY <2>1, <2>4, <3>1 DEF CallInv, BatchesIsolated, ledger
  <2> QED  BY <2>1, <2>3, <2>4
<1>5. ASSUME NEW c \in Callers, TransferFails(c) PROVE CallInv'
  <2>1. /\ transfers' = transfers /\ clock' = clock
        /\ \A d \in Callers : todo'[d] \subseteq todo[d]
        /\ \A d \in Callers : d # c => pc'[d] = pc[d]
        /\ pc'[c] = "idle"
    BY <1>5 DEF TransferFails, ApiTypes, ledger
  <2> QED  BY <2>1 DEF CallInv, BatchesIsolated
<1>6. ASSUME NEW c \in Callers, BatchLock(c) PROVE CallInv'
  <2>1. /\ pc[c] = "prepared" /\ pc' = [pc EXCEPT ![c] = "batch"]
        /\ transfers' = transfers /\ clock' = clock /\ todo' = todo
    BY <1>6 DEF BatchLock, ledger
  <2>2. \A d \in Callers : d # c => pc'[d] = pc[d]
    BY <2>1 DEF ApiTypes
  <2>3. pc'[c] = "batch"
    BY <2>1 DEF ApiTypes
  <2>4. \A t \in todo[c], i \in DOMAIN transfers : transfers[i].call # t.call
    BY <2>1 DEF CallInv
  <2> QED  BY <2>1, <2>2, <2>3, <2>4 DEF CallInv, BatchesIsolated
<1>7. ASSUME NEW c \in Callers, BatchDone(c) \/ Respond(c) PROVE CallInv'
  <2>1. /\ transfers' = transfers /\ clock' = clock /\ todo' = todo
        /\ \A d \in Callers : d # c => pc'[d] = pc[d]
        /\ pc'[c] \in {"idle", "report"}
    BY <1>7 DEF BatchDone, Respond, ApiTypes, ledger
  <2> QED  BY <2>1 DEF CallInv, BatchesIsolated
<1>8. ASSUME NEW c \in Callers, SendEvent(c) PROVE CallInv'
  <2>1. UNCHANGED <<transfers, clock, todo, pc>>
    BY <1>8 DEF SendEvent, ledger
  <2> QED  BY <2>1 DEF CallInv, BatchesIsolated
<1>9. CASE UNCHANGED apiVars
  BY <1>9 DEF CallInv, BatchesIsolated, apiVars, ledger
<1> QED  BY <1>1, <1>2, <1>3, <1>4, <1>5, <1>6, <1>7, <1>8, <1>9 DEF ApiNext

\* The sides of a transfer, whose channels it is announced on.
Sides(t) == {t.from, t.to}

\* Nothing recorded after the first n transfers touches e.
Untouched(e, n) == \A k \in DOMAIN transfers : k > n => e \notin Sides(transfers[k])

\* A handler will still announce, or a listener was told, a balance that was read when
\* transfer k was already there.
IsTold(e, k) ==
    \/ shown[e].newest >= k
    \/ \E c \in Callers : \E ev \in notices[c] : ev.channel = e /\ ev.age >= k
    \/ \E c \in Callers : pc[c] = "batch" /\ \E i \in DOMAIN done[c] : e \in Sides(done[c][i])

\* Every event carries the balance its channel's entity had after the first `age'
\* transfers, and every transfer is announced on the channels of its sides.
EventInv ==
    /\ \A c \in Callers : \A ev \in notices[c] :
           /\ ev.age <= Len(transfers)
           /\ Untouched(ev.channel, ev.age) => ev.balance = balances[ev.channel]
    /\ \A e \in Entities : shown[e].balance # None =>
           /\ shown[e].age <= Len(transfers)
           /\ Untouched(e, shown[e].age) => shown[e].balance = balances[e]
    /\ \A k \in DOMAIN transfers : \A e \in Sides(transfers[k]) : IsTold(e, k)

\* A transfer that is recorded, to be announced at once or at the end of its batch.
LEMMA RecordKeepsEvents ==
    ASSUME ApiTypes, ApiTypes', HandlerInv, EventInv, NEW c \in Callers, NEW t \in TransferRecord,
           ProcessTransfer(t), shown' = shown,
           \A d \in Callers : d # c => notices'[d] = notices[d] /\ done'[d] = done[d] /\ pc'[d] = pc[d],
           notices[c] = {},
           \/ /\ notices'[c] = EventsOf(t, balances', Len(transfers'))
              /\ pc[c] # "batch"
           \/ /\ notices'[c] = {} /\ pc[c] = "batch" /\ pc'[c] = "batch"
              /\ done'[c] = Append(done[c], t)
    PROVE  EventInv'
<1>1. PICK n \in Nat : n = Len(transfers)
  BY DEF ApiTypes
<1>2. PICK old, new : old = transfers /\ new = transfers'
  OBVIOUS
<1>3. /\ DOMAIN old = 1..n /\ DOMAIN new = 1..(n + 1) /\ new[n + 1] = t
      /\ \A i \in 1..n : new[i] = old[i]
      /\ Len(transfers') = n + 1
      /\ \A e \in Entities : e \notin Sides(t) => balances'[e] = balances[e]
      /\ balances' \in [Entities -> Nat]
  BY <1>1, <1>2, Processed DEF Sides
<1>4. ASSUME NEW e \in Entities, NEW m \in Nat, m <= n, Untouched(e, m)'
      PROVE  Untouched(e, m) /\ balances'[e] = balances[e]
  <2>1. \A k \in 1..(n + 1) : k > m => e \notin Sides(new[k])
    BY <1>2, <1>3, <1>4 DEF Untouched, Sides
  <2>2. e \notin Sides(t)
    BY <1>3, <1>4, <2>1
  <2>3. \A k \in 1..n : k > m => e \notin Sides(old[k])
    <3> TAKE k \in 1..n
    <3>1. k \in 1..(n + 1) /\ new[k] = old[k]
      BY <1>3
    <3> QED  BY <2>1, <3>1
  <2> QED  BY <1>2, <1>3, <2>2, <2>3 DEF Untouched
<1>5. \A d \in Callers : \A ev \in notices'[d] :
           /\ ev.age <= n + 1
           /\ Untouched(ev.channel, ev.age)' => ev.balance = balances'[ev.channel]
  <2> SUFFICES ASSUME NEW d \in Callers, NEW ev \in notices'[d]
               PROVE  /\ ev.age <= n + 1
                      /\ Untouched(ev.channel, ev.age)' => ev.balance = balances'[ev.channel]
    OBVIOUS
  <2>1. CASE ev \in notices[d]
    <3>1. /\ ev.age <= n
          /\ Untouched(ev.channel, ev.age) => ev.balance = balances[ev.channel]
      BY <1>1, <2>1 DEF EventInv
    <3>2. ev.channel \in Entities /\ ev.age \in Nat
      <4>1. ev \in ChannelEvents
        BY <2>1 DEF ApiTypes
      <4> QED  BY <4>1 DEF ChannelEvents
    <3>3. ev.age <= n + 1
      BY <3>1, <3>2
    <3> QED  BY <1>4, <3>1, <3>2, <3>3
  <2>2. CASE ev \notin notices[d]
    <3>1. d = c
      BY <2>2
    <3>2. ev \in EventsOf(t, balances', n + 1)
      BY <1>3, <3>1
    <3>3. ev.balance = balances'[ev.channel] /\ ev.age = n + 1
      BY <1>3, <3>2, EventFacts
    <3> QED  BY <3>3
  <2> QED  BY <2>1, <2>2
<1>6. \A e \in Entities : shown'[e].balance # None =>
           /\ shown'[e].age <= n + 1
           /\ Untouched(e, shown[e].age)' => shown'[e].balance = balances'[e]
  <2> SUFFICES ASSUME NEW e \in Entities, shown[e].balance # None
               PROVE  /\ shown[e].age <= n + 1
                      /\ Untouched(e, shown[e].age)' => shown[e].balance = balances'[e]
    OBVIOUS
  <2>1. PICK m \in Nat : m = shown[e].age
    BY DEF ApiTypes
  <2>2. m <= n /\ (Untouched(e, m) => shown[e].balance = balances[e])
    BY <1>1, <2>1 DEF EventInv
  <2>3. Untouched(e, m)' => shown[e].balance = balances'[e]
    BY <1>4, <2>2
  <2>4. Untouched(e, shown[e].age)' <=> Untouched(e, m)'
    BY <2>1 DEF Untouched
  <2> QED  BY <2>1, <2>2, <2>3, <2>4
<1>7. \A k \in 1..(n + 1) : \A e \in Sides(new[k]) : IsTold(e, k)'
  <2> SUFFICES ASSUME NEW k \in 1..(n + 1), NEW e \in Sides(new[k]) PROVE IsTold(e, k)'
    OBVIOUS
  <2>1. CASE k = n + 1
    <3>1. e \in Sides(t)
      BY <1>3, <2>1
    <3>2. CASE notices'[c] = EventsOf(t, balances', Len(transfers'))
      <4>1. \E ev \in notices'[c] : ev.channel = e /\ ev.age = n + 1
        BY <1>3, <3>1, <3>2, EventFacts DEF Sides
      <4> QED  BY <2>1, <4>1 DEF IsTold
    <3>3. CASE pc'[c] = "batch" /\ done'[c] = Append(done[c], t)
      <4>1. done[c] \in Seq(TransferRecord)
        BY DEF ApiTypes
      <4>2. Len(done[c]) + 1 \in DOMAIN done'[c] /\ done'[c][Len(done[c]) + 1] = t
        BY <3>3, <4>1
      <4> QED  BY <3>1, <3>3, <4>2 DEF IsTold
    <3> QED  BY <3>2, <3>3
  <2>2. CASE k # n + 1
    <3>1. k \in 1..n
      BY <2>2
    <3>2. IsTold(e, k)
      BY <1>2, <1>3, <3>1 DEF EventInv
    <3>3. CASE shown[e].newest >= k
      BY <3>3 DEF IsTold
    <3>4. CASE \E d \in Callers : \E ev \in notices[d] : ev.channel = e /\ ev.age >= k
      BY <3>4 DEF IsTold
    <3>5. CASE \E d \in Callers : pc[d] = "batch" /\ \E i \in DOMAIN done[d] : e \in Sides(done[d][i])
      <4>1. PICK d \in Callers : pc[d] = "batch" /\ \E i \in DOMAIN done[d] : e \in Sides(done[d][i])
        BY <3>5
      <4>2. PICK i \in DOMAIN done[d] : e \in Sides(done[d][i])
        BY <4>1
      <4>3. CASE d # c
        <5>1. pc'[d] = "batch" /\ i \in DOMAIN done'[d] /\ e \in Sides(done'[d][i])
          BY <4>1, <4>2, <4>3
        <5> QED  BY <5>1 DEF IsTold
      <4>4. CASE d = c
        <5>1. pc'[c] = "batch" /\ done'[c] = Append(done[c], t)
          BY <4>1, <4>4
        <5>2. done[c] \in Seq(TransferRecord)
          BY DEF ApiTypes
        <5>3. i \in DOMAIN done'[c] /\ done'[c][i] = done[c][i]
          BY <4>2, <4>4, <5>1, <5>2
        <5> QED  BY <4>2, <4>4, <5>1, <5>3 DEF IsTold
      <4> QED  BY <4>3, <4>4
    <3> QED  BY <3>2, <3>3, <3>4, <3>5 DEF IsTold
  <2> QED  BY <2>1, <2>2
<1>8. \A e \in Entities : shown'[e].balance # None =>
           /\ shown'[e].age <= n + 1
           /\ Untouched(e, shown[e].age)' => shown'[e].balance = balances'[e]
  BY <1>6
<1> QED  BY <1>2, <1>3, <1>5, <1>8, <1>7 DEF EventInv

LEMMA NextKeepsEvents ==
    ApiTypes /\ ApiTypes' /\ HandlerInv /\ EventInv /\ [ApiNext]_apiVars => EventInv'
<1> SUFFICES ASSUME ApiTypes, ApiTypes', HandlerInv, EventInv, [ApiNext]_apiVars PROVE EventInv'
  OBVIOUS
<1>0. /\ \A d \in Callers : \A ev \in notices[d] :
            ev.channel \in Entities /\ ev.age \in Nat /\ ev.balance \in Nat
      /\ \A e \in Entities : shown[e].newest \in Nat /\ shown[e].age \in Nat
      /\ \A k \in DOMAIN transfers : k \in Nat /\ k <= Len(transfers) /\ Sides(transfers[k]) \subseteq Entities
      /\ Len(transfers) \in Nat
  <2>1. \A d \in Callers : \A ev \in notices[d] :
            ev.channel \in Entities /\ ev.age \in Nat /\ ev.balance \in Nat
    <3>1. \A d \in Callers : notices[d] \subseteq ChannelEvents
      BY DEF ApiTypes
    <3>2. \A ev \in ChannelEvents : ev.channel \in Entities /\ ev.age \in Nat /\ ev.balance \in Nat
      BY DEF ChannelEvents
    <3> QED  BY <3>1, <3>2
  <2>2. \A e \in Entities : shown[e].newest \in Nat /\ shown[e].age \in Nat
    BY DEF ApiTypes
  <2>3. \A x \in TransferRecord : Sides(x) \subseteq Entities
    BY DEF TransferRecord, Sides
  <2>4. transfers \in Seq(TransferRecord)
    BY DEF ApiTypes
  <2> QED  BY <2>1, <2>2, <2>3, <2>4
\* Steps of a handler that is not at its events, and after which it is not in a batch
\* unless it was.
<1>1. ASSUME UNCHANGED <<ledger, notices, shown>>,
             \A d \in Callers : pc[d] = "batch" => pc'[d] = "batch" /\ done'[d] = done[d]
      PROVE  EventInv'
  <2>1. ASSUME NEW e, NEW k, IsTold(e, k) PROVE IsTold(e, k)'
    BY <1>1, <2>1 DEF IsTold
  <2>2. \A e, m : Untouched(e, m)' <=> Untouched(e, m)
    BY <1>1 DEF Untouched, ledger
  <2> QED  BY <1>1, <2>1, <2>2 DEF EventInv, ledger, bookVars
<1>2. ASSUME NEW c \in Callers, Transfer(c) PROVE EventInv'
  <2>1. PICK t \in todo[c] :
          /\ pc[c] = "ready" /\ ProcessTransfer(t)
          /\ notices' = [notices EXCEPT ![c] = EventsOf(t, balances', Len(transfers'))]
          /\ done' = [done EXCEPT ![c] = <<t>>]
          /\ pc' = [pc EXCEPT ![c] = "notify"]
          /\ shown' = shown
    BY <1>2 DEF Transfer
  <2>2. t \in TransferRecord /\ notices[c] = {}
    BY <2>1 DEF ApiTypes, HandlerInv
  <2>3. /\ \A d \in Callers : d # c => notices'[d] = notices[d] /\ done'[d] = done[d] /\ pc'[d] = pc[d]
        /\ notices'[c] = EventsOf(t, balances', Len(transfers'))
    BY <2>1 DEF ApiTypes
  <2> QED  BY <2>1, <2>2, <2>3, RecordKeepsEvents
<1>3. ASSUME NEW c \in Callers, BatchTransfer(c) PROVE EventInv'
  <2>1. PICK t \in Foremost(todo[c]) :
          /\ pc[c] = "batch"
          /\ \/ ProcessTransfer(t) /\ done' = [done EXCEPT ![c] = Append(done[c], t)]
             \/ UNCHANGED <<ledger, done>>
          /\ UNCHANGED <<pc, notices, shown>>
    BY <1>3 DEF BatchTransfer
  <2>2. t \in TransferRecord /\ notices[c] = {}
    BY <2>1 DEF ApiTypes, HandlerInv, Foremost
  <2>3. CASE ProcessTransfer(t) /\ done' = [done EXCEPT ![c] = Append(done[c], t)]
    <3>1. /\ \A d \in Callers : d # c => notices'[d] = notices[d] /\ done'[d] = done[d] /\ pc'[d] = pc[d]
          /\ notices'[c] = {} /\ pc'[c] = "batch" /\ done'[c] = Append(done[c], t)
      BY <2>1, <2>2, <2>3 DEF ApiTypes
    <3> QED  BY <2>1, <2>2, <2>3, <3>1, RecordKeepsEvents
  <2>4. CASE UNCHANGED <<ledger, done>>
    BY <1>1, <2>1, <2>4
  <2> QED  BY <2>1, <2>3, <2>4
<1>4. ASSUME NEW c \in Callers, BatchDone(c) PROVE EventInv'
  <2>1. PICK n \in Nat : n = Len(transfers)
    BY <1>0
  <2>2. /\ pc[c] = "batch" /\ UNCHANGED <<ledger, done, shown>>
        /\ pc' = [pc EXCEPT ![c] = "report"]
        /\ notices' = [notices EXCEPT ![c] =
                          UNION {EventsOf(done[c][i], balances, n) : i \in DOMAIN done[c]}]
    BY <1>4, <2>1 DEF BatchDone
  <2>3. /\ notices'[c] = UNION {EventsOf(done[c][i], balances, n) : i \in DOMAIN done[c]}
        /\ \A d \in Callers : d # c => notices'[d] = notices[d] /\ pc'[d] = pc[d]
        /\ notices[c] = {}
    BY <2>2 DEF ApiTypes, HandlerInv
  <2>4. \A i \in DOMAIN done[c] : done[c][i] \in TransferRecord
    BY DEF ApiTypes
  <2>5. balances \in [Entities -> Nat]
    BY DEF ApiTypes
  <2>6. \A i \in DOMAIN done[c] :
            /\ \A ev \in EventsOf(done[c][i], balances, n) : ev.balance = balances[ev.channel] /\ ev.age = n
            /\ \A e \in Sides(done[c][i]) :
                   \E ev \in EventsOf(done[c][i], balances, n) : ev.channel = e /\ ev.age = n
    BY <2>4, <2>5, EventFacts DEF Sides
  <2>7. ASSUME NEW k \in DOMAIN transfers, NEW e \in Sides(transfers[k]) PROVE IsTold(e, k)'
    <3>1. IsTold(e, k) /\ k <= n /\ k \in Nat
      BY <1>0, <2>1 DEF EventInv
    <3>2. CASE shown[e].newest >= k
      BY <2>2, <3>2 DEF IsTold
    <3>3. CASE \E d \in Callers : \E ev \in notices[d] : ev.channel = e /\ ev.age >= k
      <4>1. PICK d \in Callers : \E ev \in notices[d] : ev.channel = e /\ ev.age >= k
        BY <3>3
      <4>2. notices'[d] = notices[d]
        BY <2>3, <4>1
      <4> QED  BY <4>1, <4>2 DEF IsTold
    <3>4. CASE \E d \in Callers : pc[d] = "batch" /\ \E i \in DOMAIN done[d] : e \in Sides(done[d][i])
      <4>1. PICK d \in Callers : pc[d] = "batch" /\ \E i \in DOMAIN done[d] : e \in Sides(done[d][i])
        BY <3>4
      <4>2. CASE d = c
        <5>1. PICK i \in DOMAIN done[c] : e \in Sides(done[c][i])
          BY <4>1, <4>2
        <5>2. PICK ev \in EventsOf(done[c][i], balances, n) : ev.channel = e /\ ev.age = n
          BY <2>6, <5>1
        <5>3. ev \in notices'[c] /\ ev.age >= k
          BY <2>3, <3>1, <5>2
        <5> QED  BY <5>2, <5>3 DEF IsTold
      <4>3. CASE d # c
        BY <2>2, <2>3, <4>1, <4>3 DEF IsTold
      <4> QED  BY <4>2, <4>3
    <3> QED  BY <3>1, <3>2, <3>3, <3>4 DEF IsTold
  <2>8. \A d \in Callers : \A ev \in notices'[d] :
           /\ ev.age <= n
           /\ Untouched(ev.channel, ev.age)' => ev.balance = balances[ev.channel]
    <3> SUFFICES ASSUME NEW d \in Callers, NEW ev \in notices'[d]
                 PROVE  /\ ev.age <= n
                        /\ Untouched(ev.channel, ev.age)' => ev.balance = balances[ev.channel]
      OBVIOUS
    <3>1. CASE d = c
      BY <2>3, <2>6, <3>1
    <3>2. CASE d # c
      <4>1. ev \in notices[d]
        BY <2>3, <3>2
      <4>2. Untouched(ev.channel, ev.age)' <=> Untouched(ev.channel, ev.age)
        BY <2>2 DEF Untouched, ledger
      <4> QED  BY <2>1, <4>1, <4>2 DEF EventInv
    <3> QED  BY <3>1, <3>2
  <2>9. \A e, m : Untouched(e, m)' <=> Untouched(e, m)
    BY <2>2 DEF Untouched, ledger
  <2> QED  BY <2>1, <2>2, <2>7, <2>8, <2>9 DEF EventInv, ledger, bookVars
<1>5. ASSUME NEW c \in Callers, SendEvent(c) PROVE EventInv'
  <2>1. PICK ev \in notices[c] :
          /\ shown' = [shown EXCEPT ![ev.channel] =
                        [balance |-> ev.balance, age |-> ev.age,
                         newest |-> IF ev.age > @.newest THEN ev.age ELSE @.newest]]
          /\ notices' = [notices EXCEPT ![c] = @ \ {ev}]
          /\ UNCHANGED <<ledger, pc, done>>
    BY <1>5 DEF SendEvent
  <2>2. PICK e \in Entities : e = ev.channel
    BY <1>0, <2>1
  <2>3. /\ shown'[e].balance = ev.balance /\ shown'[e].age = ev.age
        /\ shown'[e].newest = IF ev.age > shown[e].newest THEN ev.age ELSE shown[e].newest
        /\ \A x \in Entities : x # e => shown'[x] = shown[x]
    BY <2>1, <2>2 DEF ApiTypes
  <2>4. /\ notices'[c] = notices[c] \ {ev}
        /\ \A d \in Callers : d # c => notices'[d] = notices[d]
    BY <2>1 DEF ApiTypes
  <2>5. \A x, m : Untouched(x, m)' <=> Untouched(x, m)
    BY <2>1 DEF Untouched, ledger
  <2>6. balances' = balances /\ transfers' = transfers
    BY <2>1 DEF ledger, bookVars
  <2>7. /\ ev.age <= Len(transfers) /\ (Untouched(e, ev.age) => ev.balance = balances[e])
        /\ ev.age \in Nat
    BY <1>0, <2>2 DEF EventInv
  <2>8. ASSUME NEW k \in DOMAIN transfers, NEW x \in Sides(transfers[k]) PROVE IsTold(x, k)'
    <3>1. /\ IsTold(x, k) /\ k \in Nat /\ x \in Entities
          /\ shown[x].newest \in Nat
      BY <1>0 DEF EventInv
    <3>2. shown'[x].newest >= shown[x].newest /\ shown'[x].newest \in Nat
      BY <1>0, <2>3, <2>7, <3>1
    <3>3. CASE shown[x].newest >= k
      <4>1. shown'[x].newest >= k
        BY <3>1, <3>2, <3>3
      <4> QED  BY <4>1 DEF IsTold
    <3>4. CASE \E d \in Callers : \E y \in notices[d] : y.channel = x /\ y.age >= k
      <4>1. PICK d \in Callers : \E y \in notices[d] : y.channel = x /\ y.age >= k
        BY <3>4
      <4>2. PICK y \in notices[d] : y.channel = x /\ y.age >= k
        BY <4>1
      <4>3. CASE y = ev
        <5>1. shown'[x].newest >= ev.age
          BY <1>0, <2>2, <2>3, <2>7, <4>2, <4>3
        <5>2. shown'[x].newest >= k
          BY <2>7, <3>1, <3>2, <4>2, <4>3, <5>1
        <5> QED  BY <5>2 DEF IsTold
      <4>4. CASE y # ev
        <5>1. y \in notices'[d]
          BY <2>4, <4>4
        <5> QED  BY <4>2, <5>1 DEF IsTold
      <4> QED  BY <4>3, <4>4
    <3>5. CASE \E d \in Callers : pc[d] = "batch" /\ \E i \in DOMAIN done[d] : x \in Sides(done[d][i])
      BY <2>1, <3>5 DEF IsTold
    <3> QED  BY <3>1, <3>3, <3>4, <3>5 DEF IsTold
  <2>9. \A x \in Entities : shown'[x].balance # None =>
           /\ shown'[x].age <= Len(transfers)
           /\ Untouched(x, shown'[x].age) => shown'[x].balance = balances[x]
    <3> TAKE x \in Entities
    <3>1. CASE x = e
      BY <2>3, <2>7, <3>1
    <3>2. CASE x # e
      BY <2>3, <3>2 DEF EventInv
    <3> QED  BY <3>1, <3>2
  <2>10. \A d \in Callers : \A y \in notices'[d] :
           /\ y.age <= Len(transfers)
           /\ Untouched(y.channel, y.age) => y.balance = balances[y.channel]
    <3>1. \A d \in Callers : notices'[d] \subseteq notices[d]
      BY <2>4
    <3> QED  BY <3>1 DEF EventInv
  <2>11. \A x \in Entities : Untouched(x, shown[x].age)' <=> Untouched(x, shown'[x].age)
    BY <2>6 DEF Untouched
  <2> QED  BY <2>5, <2>6, <2>8, <2>9, <2>10, <2>11 DEF EventInv
<1>6. ASSUME NEW c \in Callers, Respond(c) PROVE EventInv'
  <2>1. /\ pc[c] \in {"notify", "report"} /\ UNCHANGED <<ledger, notices, shown>>
        /\ \A d \in Callers : d # c => pc'[d] = pc[d] /\ done'[d] = done[d]
    BY <1>6 DEF Respond, ApiTypes
  <2> QED  BY <1>1, <2>1
<1>7. ASSUME NEW c \in Callers, NEW k \in Claims, NEW f \in LedgerFeds,
             (\E r \in Requests : Request(c, k, f, r)) \/ (\E b \in BatchBodies : Batch(c, k, f, b))
      PROVE  EventInv'
  <2>1. /\ pc[c] = "idle" /\ UNCHANGED <<ledger, notices, shown, done>>
        /\ \A d \in Callers : d # c => pc'[d] = pc[d]
    BY <1>7 DEF Request, Batch, ApiTypes
  <2> QED  BY <1>1, <2>1
<1>8. ASSUME NEW c \in Callers, TransferFails(c) \/ BatchLock(c) PROVE EventInv'
  <2>1. /\ pc[c] \in {"ready", "prepared"} /\ UNCHANGED <<ledger, notices, shown, done>>
        /\ \A d \in Callers : d # c => pc'[d] = pc[d]
    BY <1>8 DEF TransferFails, BatchLock, ApiTypes
  <2> QED  BY <1>1, <2>1
<1>9. CASE UNCHANGED apiVars
  BY <1>1, <1>9 DEF apiVars
<1> QED  BY <1>2, <1>3, <1>4, <1>5, <1>6, <1>7, <1>8, <1>9 DEF ApiNext

ApiInv == ApiTypes /\ HandlerInv /\ NewestInv /\ SumsInv /\ CallInv /\ EventInv

LEMMA ApiInitially == ApiInit => ApiInv
<1> SUFFICES ASSUME ApiInit PROVE ApiInv
  OBVIOUS
<1>1. /\ balances = Opening /\ Opening \in [Entities -> Nat] /\ IsFiniteSet(Entities)
      /\ received = [e \in Entities |-> 0] /\ paid = [e \in Entities |-> 0]
      /\ transfers = <<>> /\ None \notin Callers /\ IsFiniteSet(Callers) /\ MaxRequests \in Nat
  BY ApiAssumption, BookAssumption DEF ApiInit, BookInit
<1>2. Opened \in Nat
  <2>1. /\ \A x \in Entities : Opening[x] \in Nat
        /\ DOMAIN Opening = Entities /\ Entities \in SUBSET Entities
    BY <1>1
  <2> QED  BY <1>1, <2>1, SumStep DEF Opened, Sum
<1>3. ApiTypes
  <2>1. clock \in 0..MaxRequests
    BY <1>1 DEF ApiInit
  <2>2. federation_stats \in [StatsFeds -> Nat]
    BY <1>2 DEF ApiInit
  <2>3. shown \in [Entities -> [balance : Nat \cup {None}, age : Nat, newest : Nat]]
    BY DEF ApiInit
  <2>4. /\ pc \in [Callers -> HandlerStates] /\ told \in [Callers -> Nat]
        /\ todo \in [Callers -> SUBSET TransferRecord] /\ notices \in [Callers -> SUBSET ChannelEvents]
        /\ writer \in Callers \cup {None}
    BY DEF ApiInit, HandlerStates
  <2>5. done \in [Callers -> Seq(TransferRecord)] /\ transfers \in Seq(TransferRecord)
    BY DEF ApiInit
  <2>6. /\ balances \in [Entities -> Nat] /\ received \in [Entities -> Nat] /\ paid \in [Entities -> Nat]
    BY <1>1
  <2> QED  BY <2>1, <2>2, <2>3, <2>4, <2>5, <2>6 DEF ApiTypes
<1>4. HandlerInv /\ NewestInv
  BY <1>1 DEF ApiInit, HandlerInv, NewestInv
<1>5. Explained
  BY <1>1 DEF Explained
<1>6. FeesAccounted
  <2>1. DOMAIN transfers = {}
    BY <1>1
  <2>2. \A f : PositionsOf(f) = {}
    BY <2>1 DEF PositionsOf
  <2>3. FeesAt({}) = 0
    <3> DEFINE g == [i \in {} |-> transfers[i].fee]
    <3>1. FeesAt({}) = SumFunctionOnSet(g, {})
      BY DEF FeesAt
    <3> HIDE DEF g
    <3> QED  BY <3>1, SumOfZeros, FS_EmptySet
  <2>4. Sum(balances) = Opened
    BY <1>1 DEF Opened
  <2>5. Sum(balances) + FeesAt(DOMAIN transfers) = Opened
    BY <1>2, <2>1, <2>3, <2>4
  <2>6. \A f \in StatsFeds : federation_stats[f] = Opened + FeesAt(PositionsOf(f))
    <3> TAKE f \in StatsFeds
    <3>1. federation_stats[f] = Opened
      BY DEF ApiInit
    <3>2. FeesAt(PositionsOf(f)) = 0
      BY <2>2, <2>3
    <3> QED  BY <1>2, <3>1, <3>2
  <2> QED  BY <2>5, <2>6, FeesAccountedMeans
<1>7. AnswersMatch
  <2>1. \A c \in Callers : told[c] = 0 /\ done[c] = <<>>
    BY DEF ApiInit
  <2>2. \A c \in Callers : Answers[c] = 0
    BY <2>1, NoAmounts DEF Answers
  <2>3. DOMAIN Answers = Callers
    BY DEF Answers
  <2>4. Sum(Answers) = 0
    BY <1>1, <2>2, <2>3, SumOfZeros DEF Sum
  <2>5. \A e \in Entities : received[e] = 0
    BY <1>1
  <2>6. DOMAIN received = Entities
    BY <1>1
  <2>7. Sum(received) = 0
    BY <1>1, <2>5, <2>6, SumOfZeros DEF Sum
  <2> QED  BY <2>4, <2>7 DEF AnswersMatch, Answers
<1>8. CallInv
  BY <1>1 DEF ApiInit, CallInv, BatchesIsolated
<1>9. EventInv
  BY <1>1 DEF ApiInit, EventInv
<1> QED  BY <1>3, <1>4, <1>5, <1>6, <1>7, <1>8, <1>9 DEF ApiInv, SumsInv

LEMMA ApiInvariance == ApiSpec => []ApiInv
<1>1. ApiInv /\ [ApiNext]_apiVars => ApiInv'
  BY NextKeepsTypes, NextKeepsHandlers, NextKeepsSums, NextKeepsCalls, NextKeepsEvents DEF ApiInv
<1> QED  BY <1>1, ApiInitially, PTL DEF ApiSpec

\* The books of the transfer service add up at every instant, for any number of entities,
\* callers and requests: every balance is explained by the transfers, transfers to oneself
\* included, what is missing from the balances is the recorded fees, and each entry of
\* federation_stats has drifted by exactly its own (Ledger::process_transfer behind the
\* lock of process_entity_transfer and process_batch_transfers).
THEOREM BooksAreBalanced == ApiSpec => []BooksBalance
<1>1. ApiInv => BooksBalance
  <2> SUFFICES ASSUME ApiInv PROVE BooksBalance
    OBVIOUS
  <2>1. ApiTypes /\ HandlerInv /\ NewestInv /\ Explained /\ FeesAccounted
    BY DEF ApiInv, SumsInv
  <2>2. \A t \in TransferRecord : t.amount > 0 /\ t.fee \in 0..t.amount
    BY DEF TransferRecord
  <2>3. Prepared \subseteq TransferRecord /\ Range(transfers) \subseteq TransferRecord
    BY <2>1 DEF ApiTypes, Prepared, Range
  <2>4. \A t \in Prepared \cup Range(transfers) : t.amount > 0 /\ t.fee \in 0..t.amount
    BY <2>2, <2>3
  <2>5. \A c \in Callers : /\ pc[c] \in {"idle", "ready", "notify", "prepared", "batch", "report"}
                           /\ writer = c <=> pc[c] \in {"batch", "report"}
                           /\ pc[c] = "idle" => todo[c] = {} /\ notices[c] = {}
    BY <2>1 DEF ApiTypes, HandlerInv, HandlerStates
  <2>6. \A e \in Entities : shown[e].balance \in Nat \cup {None} /\ shown[e].age <= shown[e].newest
    BY <2>1 DEF ApiTypes, NewestInv
  <2>7. ApiTypeOK
    BY <2>1, <2>4, <2>5, <2>6 DEF ApiTypeOK, ApiTypes
  <2> QED  BY <2>1, <2>7 DEF BooksBalance
<1> QED  BY <1>1, ApiInvariance, PTL

\* Batches are recorded without anything of another request in between, and what callers
\* are told was transferred is what entities were credited, for any number of callers
\* (the scope of the write lock in process_batch_transfers).
THEOREM RequestsAreIsolated == ApiSpec => []RequestsIsolated
<1>1. ApiInv => RequestsIsolated
  BY DEF ApiInv, SumsInv, CallInv, RequestsIsolated
<1> QED  BY <1>1, ApiInvariance, PTL

\* When every caller has its answer, a channel on which no event was overtaken shows the
\* balance of the ledger: no transfer goes unannounced, and none is announced with a
\* balance that another one made stale (send_event_to_channel after the lock is gone).
THEOREM LastEventsAreTrue == ApiSpec => []LastEventTrue
<1>1. ApiInv => LastEventTrue
  <2> SUFFICES ASSUME ApiInv, AllAnswered, NEW e \in Entities,
                      shown[e].balance # None, shown[e].age = shown[e].newest
               PROVE  shown[e].balance = balances[e]
    BY DEF LastEventTrue
  <2>1. ApiTypes /\ HandlerInv /\ EventInv
    BY DEF ApiInv
  <2>2. \A c \in Callers : pc[c] = "idle" /\ notices[c] = {}
    BY <2>1 DEF AllAnswered, HandlerInv
  <2>3. Untouched(e, shown[e].age)
    <3> SUFFICES ASSUME NEW k \in DOMAIN transfers, k > shown[e].age, e \in Sides(transfers[k])
                 PROVE  FALSE
      BY DEF Untouched
    <3>1. IsTold(e, k)
      BY <2>1 DEF EventInv
    <3>2. shown[e].newest >= k
      BY <2>2, <3>1 DEF IsTold
    <3>3. k \in Nat /\ shown[e].newest \in Nat
      BY <2>1 DEF ApiTypes
    <3> QED  BY <3>2, <3>3
  <2> QED  BY <2>1, <2>3 DEF EventInv
<1> QED  BY <1>1, ApiInvariance, PTL

-----------------------------------------------------------------------------
(* Pages of a query.                                                        *)

\* Timestamps tell all transfers apart, the recorded ones and the prepared ones.
StampInv ==
    /\ \A c \in Callers : \A t \in todo[c] : t.timestamp < clock
    /\ \A c \in Callers : \A t, x \in todo[c] : t.timestamp = x.timestamp => t = x
    /\ \A c, d \in Callers : c # d => \A t \in todo[c], x \in todo[d] : t.timestamp # x.timestamp
    /\ \A i \in DOMAIN transfers : transfers[i].timestamp < clock
    /\ \A c \in Callers : \A t \in todo[c], i \in DOMAIN transfers :
           transfers[i].timestamp # t.timestamp
    /\ \A i, j \in DOMAIN transfers : transfers[i].timestamp = transfers[j].timestamp => i = j

\* The types of the stamps.
LEMMA StampTypes ==
    ASSUME ApiTypes
    PROVE  /\ clock \in Nat /\ Len(transfers) \in Nat /\ DOMAIN transfers = 1..Len(transfers)
           /\ \A c \in Callers : \A t \in todo[c] : t \in TransferRecord /\ t.timestamp \in Nat
           /\ \A i \in DOMAIN transfers : transfers[i] \in TransferRecord /\ transfers[i].timestamp \in Nat
<1>1. \A t \in TransferRecord : t.timestamp \in Nat
  BY DEF TransferRecord
<1>2. clock \in Nat /\ transfers \in Seq(TransferRecord) /\ todo \in [Callers -> SUBSET TransferRecord]
  BY ApiAssumption DEF ApiTypes
<1> QED  BY <1>1, <1>2

\* A new request takes its stamps from the clock.
LEMMA RequestKeepsStamps ==
    ASSUME ApiTypes, StampInv, NEW c \in Callers, NEW S, todo' = [todo EXCEPT ![c] = S],
           \A t \in S : t.timestamp \in Nat /\ clock <= t.timestamp /\ t.timestamp < clock',
           \A t, x \in S : t.timestamp = x.timestamp => t = x,
           clock' \in Nat, clock <= clock', transfers' = transfers
    PROVE  StampInv'
<1>1. todo'[c] = S /\ \A d \in Callers : d # c => todo'[d] = todo[d]
  BY DEF ApiTypes
<1>2. \A d \in Callers : \A t \in todo'[d] : t.timestamp < clock'
  BY <1>1, StampTypes DEF StampInv
<1>3. \A d \in Callers : \A t, x \in todo'[d] : t.timestamp = x.timestamp => t = x
  BY <1>1 DEF StampInv
<1>4. \A d \in Callers : d # c => \A t \in todo[d], x \in S : t.timestamp # x.timestamp
  BY StampTypes DEF StampInv
<1>5. \A d, e \in Callers : d # e => \A t \in todo'[d], x \in todo'[e] : t.timestamp # x.timestamp
  BY <1>1, <1>4 DEF StampInv
<1>6. \A i \in DOMAIN transfers : transfers[i].timestamp < clock'
  BY StampTypes DEF StampInv
<1>7. \A t \in S, i \in DOMAIN transfers : transfers[i].timestamp # t.timestamp
  BY StampTypes DEF StampInv
<1>8. \A d \in Callers : \A t \in todo'[d], i \in DOMAIN transfers :
          transfers[i].timestamp # t.timestamp
  BY <1>1, <1>7 DEF StampInv
<1>9. \A i, j \in DOMAIN transfers : transfers[i].timestamp = transfers[j].timestamp => i = j
  BY DEF StampInv
<1> QED  BY <1>2, <1>3, <1>5, <1>6, <1>8, <1>9 DEF StampInv

\* A prepared transfer is recorded and prepared no longer.
LEMMA RecordKeepsStamps ==
    ASSUME ApiTypes, StampInv, NEW c \in Callers, NEW t \in todo[c], ProcessTransfer(t),
           NEW S, S \subseteq todo[c] \ {t}, todo' = [todo EXCEPT ![c] = S], clock' = clock
    PROVE  StampInv'
<1>1. todo'[c] = S /\ \A d \in Callers : d # c => todo'[d] = todo[d]
  BY DEF ApiTypes
<1>2. \A d \in Callers : todo'[d] \subseteq todo[d]
  BY <1>1
<1>3. t \in TransferRecord
  BY StampTypes
<1>4. PICK n \in Nat : n = Len(transfers)
  BY StampTypes
<1>5. PICK old, new : old = transfers /\ new = transfers'
  OBVIOUS
<1>6. /\ DOMAIN old = 1..n /\ DOMAIN new = 1..(n + 1) /\ new[n + 1] = t
      /\ \A i \in 1..n : new[i] = old[i]
  BY <1>3, <1>4, <1>5, Processed
<1>7. /\ \A d \in Callers : \A x \in todo'[d] : x.timestamp < clock'
      /\ \A d \in Callers : \A x, y \in todo'[d] : x.timestamp = y.timestamp => x = y
      /\ \A d, e \in Callers : d # e => \A x \in todo'[d], y \in todo'[e] : x.timestamp # y.timestamp
  BY <1>2 DEF StampInv
<1>8. \A i \in 1..(n + 1) : i \in 1..n \/ i = n + 1
  OBVIOUS
<1>9. \A i \in 1..n : old[i].timestamp < clock /\ old[i].timestamp # t.timestamp
  BY <1>5, <1>6 DEF StampInv
<1>10. \A i \in 1..(n + 1) : new[i].timestamp < clock'
  BY <1>6, <1>8, <1>9 DEF StampInv
<1>11. \A d \in Callers : \A x \in todo'[d] : x.timestamp # t.timestamp
  BY <1>1 DEF StampInv
<1>12. \A d \in Callers : \A x \in todo'[d], i \in 1..(n + 1) : new[i].timestamp # x.timestamp
  <2>1. \A d \in Callers : \A x \in todo'[d], i \in 1..n : old[i].timestamp # x.timestamp
    BY <1>2, <1>5, <1>6 DEF StampInv
  <2> QED  BY <1>6, <1>8, <1>11, <2>1
<1>13. \A i, j \in 1..(n + 1) : new[i].timestamp = new[j].timestamp => i = j
  <2>1. \A i, j \in 1..n : old[i].timestamp = old[j].timestamp => i = j
    BY <1>5, <1>6 DEF StampInv
  <2> QED  BY <1>6, <1>8, <1>9, <2>1
<1> QED  BY <1>5, <1>6, <1>7, <1>10, <1>12, <1>13 DEF StampInv

\* Handlers that neither prepare nor record.
LEMMA OthersKeepStamps ==
    ASSUME StampInv, transfers' = transfers, clock' = clock,
           \A d \in Callers : todo'[d] \subseteq todo[d]
    PROVE  StampInv'
BY DEF StampInv

LEMMA NextKeepsStamps == ApiTypes /\ StampInv /\ [ApiNext]_apiVars => StampInv'
<1> SUFFICES ASSUME ApiTypes, StampInv, [ApiNext]_apiVars PROVE StampInv'
  OBVIOUS
<1>1. ASSUME NEW c \in Callers, NEW k \in Claims, NEW f \in LedgerFeds, NEW r \in Requests,
             Request(c, k, f, r)
      PROVE  StampInv'
  <2> DEFINE t == CreateTransfer(r, f, clock, clock)
  <2>1. t.timestamp = clock
    BY DEF CreateTransfer
  <2>2. todo' = [todo EXCEPT ![c] = {t}] /\ clock' = clock + 1 /\ transfers' = transfers
    BY <1>1 DEF Request, ledger
  <2> HIDE DEF t
  <2>3. clock \in Nat
    BY StampTypes
  <2>4. \A x \in {t} : x.timestamp \in Nat /\ clock <= x.timestamp /\ x.timestamp < clock'
    BY <2>1, <2>2, <2>3
  <2>5. \A x, y \in {t} : x.timestamp = y.timestamp => x = y
    OBVIOUS
  <2>6. clock' \in Nat /\ clock <= clock'
    BY <2>2, <2>3
  <2> QED  BY <2>2, <2>4, <2>5, <2>6, RequestKeepsStamps
<1>2. ASSUME NEW c \in Callers, NEW k \in Claims, NEW f \in LedgerFeds, NEW b \in BatchBodies,
             Batch(c, k, f, b)
      PROVE  StampInv'
  <2> DEFINE T(i) == CreateTransfer(b[i], f, clock + i - 1, clock)
             D == {i \in DOMAIN b : Accepted(k, f, b[i])}
             S == {T(i) : i \in D}
  <2>1. \A i : T(i).timestamp = clock + i - 1
    BY DEF CreateTransfer
  <2>2. todo' = [todo EXCEPT ![c] = S] /\ clock' = clock + Len(b) /\ transfers' = transfers
    BY <1>2 DEF Batch, ledger
  <2> HIDE DEF T
  <2>3. clock \in Nat
    BY StampTypes
  <2>4. Len(b) \in Nat /\ D \subseteq 1..Len(b)
    BY ApiAssumption
  <2> HIDE DEF D
  <2>5. \A x \in S : x.timestamp \in Nat /\ clock <= x.timestamp /\ x.timestamp < clock'
    <3> SUFFICES ASSUME NEW i \in D
                 PROVE  /\ T(i).timestamp \in Nat /\ clock <= T(i).timestamp
                        /\ T(i).timestamp < clock'
      OBVIOUS
    <3> QED  BY <2>1, <2>2, <2>3, <2>4
  <2>6. \A x, y \in S : x.timestamp = y.timestamp => x = y
    <3> SUFFICES ASSUME NEW i \in D, NEW j \in D, T(i).timestamp = T(j).timestamp
                 PROVE  T(i) = T(j)
      OBVIOUS
    <3>1. i = j
      BY <2>1, <2>3, <2>4
    <3> QED  BY <3>1
  <2>7. clock' \in Nat /\ clock <= clock'
    BY <2>2, <2>3, <2>4
  <2> HIDE DEF S
  <2> QED  BY <2>2, <2>5, <2>6, <2>7, RequestKeepsStamps
<1>3. ASSUME NEW c \in Callers, Transfer(c) PROVE StampInv'
  <2>1. PICK t \in todo[c] : /\ ProcessTransfer(t) /\ todo' = [todo EXCEPT ![c] = {}]
                             /\ clock' = clock
    BY <1>3 DEF Transfer
  <2>2. {} \subseteq todo[c] \ {t}
    OBVIOUS
  <2> QED  BY <2>1, <2>2, RecordKeepsStamps
<1>4. ASSUME NEW c \in Callers, BatchTransfer(c) PROVE StampInv'
  <2>1. PICK t \in todo[c] :
            /\ ProcessTransfer(t) \/ transfers' = transfers
            /\ todo' = [todo EXCEPT ![c] = todo[c] \ {t}] /\ clock' = clock
    BY <1>4 DEF BatchTransfer, Foremost, ledger
  <2>2. CASE ProcessTransfer(t)
    <3> DEFINE S == todo[c] \ {t}
    <3>1. S \subseteq todo[c] \ {t} /\ todo' = [todo EXCEPT ![c] = S]
      BY <2>1
    <3> HIDE DEF S
    <3> QED  BY <2>1, <2>2, <3>1, RecordKeepsStamps
  <2>3. CASE transfers' = transfers
    <3>1. \A d \in Callers : todo'[d] \subseteq todo[d]
      BY <2>1 DEF ApiTypes
    <3> QED  BY <2>1, <2>3, <3>1, OthersKeepStamps
  <2> QED  BY <2>1, <2>2, <2>3
<1>5. ASSUME NEW c \in Callers,
             TransferFails(c) \/ BatchLock(c) \/ BatchDone(c) \/ SendEvent(c) \/ Respond(c)
      PROVE  StampInv'
  <2>1. transfers' = transfers /\ clock' = clock
    BY <1>5 DEF TransferFails, BatchLock, BatchDone, SendEvent, Respond, ledger
  <2>2. todo' = todo \/ todo' = [todo EXCEPT ![c] = {}]
    BY <1>5 DEF TransferFails, BatchLock, BatchDone, SendEvent, Respond
  <2>3. \A d \in Callers : todo'[d] \subseteq todo[d]
    BY <2>2 DEF ApiTypes
  <2> QED  BY <2>1, <2>3, OthersKeepStamps
<1>6. CASE UNCHANGED apiVars
  <2>1. transfers' = transfers /\ clock' = clock /\ todo' = todo
    BY <1>6 DEF apiVars, ledger
  <2> QED  BY <2>1, OthersKeepStamps
<1> QED  BY <1>1, <1>2, <1>3, <1>4, <1>5, <1>6 DEF ApiNext

\* The found transfers that come before the i-th, itself included.
Ahead(found, i) ==
    {k \in found : \/ transfers[k].timestamp > transfers[i].timestamp
                   \/ transfers[k].timestamp = transfers[i].timestamp /\ k <= i}

\* Every found transfer has a rank of its own, and the newer ones have the lower.
LEMMA RanksOrder ==
    ASSUME ApiTypes, StampInv, NEW found \in SUBSET (DOMAIN transfers)
    PROVE  /\ IsFiniteSet(found) /\ Cardinality(found) \in 0..Len(transfers)
           /\ \A i \in found : Rank(found, i) \in 1..Cardinality(found)
           /\ \A i, k \in found :
                 transfers[i].timestamp > transfers[k].timestamp => Rank(found, i) < Rank(found, k)
           /\ \A i, k \in found : Rank(found, i) = Rank(found, k) => i = k
<1>1. DOMAIN transfers = 1..Len(transfers) /\ Len(transfers) \in Nat
  BY StampTypes
<1>2. \A i \in found : transfers[i].timestamp \in Nat /\ i \in Nat
  BY <1>1, StampTypes
<1>3. IsFiniteSet(DOMAIN transfers) /\ Cardinality(DOMAIN transfers) = Len(transfers)
  <2> DEFINE n == Len(transfers)
  <2>1. n \in Nat
    BY <1>1
  <2> HIDE DEF n
  <2>2. IsFiniteSet(1..n) /\ Cardinality(1..n) = IF 1 > n THEN 0 ELSE n - 1 + 1
    BY <2>1, FS_Interval
  <2>3. Cardinality(1..n) = n
    BY <2>1, <2>2
  <2> QED  BY <1>1, <2>2, <2>3 DEF n
<1>4. IsFiniteSet(found) /\ Cardinality(found) \in Nat /\ Cardinality(found) <= Len(transfers)
  BY <1>3, FS_Subset, FS_CardinalityType
<1>5. ASSUME NEW i \in found
      PROVE  /\ Rank(found, i) = Cardinality(Ahead(found, i)) /\ i \in Ahead(found, i)
             /\ IsFiniteSet(Ahead(found, i)) /\ Rank(found, i) \in 1..Cardinality(found)
  <2>1. Rank(found, i) = Cardinality(Ahead(found, i))
    BY DEF Rank, Ahead
  <2>2. Ahead(found, i) \subseteq found /\ i \in Ahead(found, i)
    BY <1>2 DEF Ahead
  <2>3. IsFiniteSet(Ahead(found, i)) /\ Cardinality(Ahead(found, i)) <= Cardinality(found)
    BY <1>4, <2>2, FS_Subset
  <2>4. Cardinality(Ahead(found, i)) \in Nat /\ Cardinality(Ahead(found, i)) # 0
    BY <2>2, <2>3, FS_CardinalityType, FS_EmptySet
  <2> QED  BY <1>4, <2>1, <2>2, <2>3, <2>4
<1>6. ASSUME NEW i \in found, NEW k \in found, transfers[i].timestamp > transfers[k].timestamp
      PROVE  Rank(found, i) < Rank(found, k)
  <2>1. k \notin Ahead(found, i)
    BY <1>2, <1>6 DEF Ahead
  <2>2. Ahead(found, i) \subseteq Ahead(found, k)
    BY <1>2, <1>6 DEF Ahead
  <2>3. k \in Ahead(found, k) /\ IsFiniteSet(Ahead(found, k))
    BY <1>5
  <2>4. Ahead(found, i) # Ahead(found, k)
    BY <2>1, <2>3
  <2>5. /\ Cardinality(Ahead(found, i)) <= Cardinality(Ahead(found, k))
        /\ Cardinality(Ahead(found, i)) # Cardinality(Ahead(found, k))
    BY <2>2, <2>3, <2>4, FS_Subset
  <2>6. Rank(found, i) \in Nat /\ Rank(found, k) \in Nat
    BY <1>4, <1>5
  <2> QED  BY <1>5, <2>5, <2>6
<1>7. ASSUME NEW i \in found, NEW k \in found, Rank(found, i) = Rank(found, k) PROVE i = k
  <2>1. Rank(found, i) \in Nat /\ Rank(found, k) \in Nat
    BY <1>4, <1>5
  <2>2. /\ ~(transfers[i].timestamp > transfers[k].timestamp)
        /\ ~(transfers[k].timestamp > transfers[i].timestamp)
    BY <1>6, <1>7, <2>1
  <2>3. transfers[i].timestamp = transfers[k].timestamp
    BY <1>2, <2>2
  <2> QED  BY <2>3 DEF StampInv
<1> QED  BY <1>1, <1>4, <1>5, <1>6, <1>7

\* Sorting shows the found transfers, all of them, newest first.
LEMMA NewestFirstSorts ==
    ASSUME ApiTypes, StampInv, NEW found \in SUBSET (DOMAIN transfers)
    PROVE  /\ NewestFirst(found) \in Seq(TransferRecord)
           /\ Len(NewestFirst(found)) = Cardinality(found)
           /\ \A r \in 1..Cardinality(found) : \E i \in found : NewestFirst(found)[r] = transfers[i]
           /\ \A i \in found : \E r \in 1..Cardinality(found) : NewestFirst(found)[r] = transfers[i]
           /\ \A r, z \in 1..Cardinality(found) :
                 r < z => NewestFirst(found)[r].timestamp > NewestFirst(found)[z].timestamp
<1> DEFINE f == [i \in found |-> Rank(found, i)]
           D == 1..Cardinality(found)
           R == {f[i] : i \in found}
           g == [r \in D |-> CHOOSE i \in found : Rank(found, i) = r]
<1>1. /\ IsFiniteSet(found) /\ Cardinality(found) \in Nat
      /\ IsFiniteSet(D) /\ Cardinality(D) = Cardinality(found)
  <2> DEFINE n == Cardinality(found)
  <2>1. IsFiniteSet(found) /\ n \in Nat
    BY RanksOrder, StampTypes
  <2> HIDE DEF n
  <2>2. IsFiniteSet(1..n) /\ Cardinality(1..n) = IF 1 > n THEN 0 ELSE n - 1 + 1
    BY <2>1, FS_Interval
  <2>3. Cardinality(1..n) = n
    BY <2>1, <2>2
  <2> QED  BY <2>1, <2>2, <2>3 DEF n
<1>2. R = D
  <2>1. \A i \in found : f[i] \in D
    BY RanksOrder
  <2>2. \A i, k \in found : f[i] = f[k] => i = k
    BY RanksOrder
  <2>3. Cardinality(R) = Cardinality(found)
    <3> HIDE DEF f
    <3> QED  BY <1>1, <2>2, DistinctValues
  <2>4. R \subseteq D
    BY <2>1
  <2> HIDE DEF R, D
  <2> QED  BY <1>1, <2>3, <2>4, FS_Subset
<1>3. ASSUME NEW r \in D PROVE g[r] \in found /\ Rank(found, g[r]) = r
  <2>1. r \in R
    BY <1>2
  <2>2. \E i \in found : Rank(found, i) = r
    BY <2>1
  <2> QED  BY <2>2
<1>4. PICK q : q = NewestFirst(found) /\ q = [r \in D |-> transfers[g[r]]]
  <2>1. NewestFirst(found) = [r \in D |-> transfers[g[r]]]
    BY DEF NewestFirst
  <2> QED  BY <2>1
<1>5. ASSUME NEW r \in D PROVE q[r] = transfers[g[r]] /\ q[r] \in TransferRecord
  <2>1. q[r] = transfers[g[r]]
    BY <1>4
  <2> HIDE DEF g
  <2> QED  BY <1>3, <2>1, StampTypes
<1>6. q \in Seq(TransferRecord) /\ Len(q) = Cardinality(found)
  <2>1. q \in [D -> TransferRecord]
    <3> HIDE DEF g, D
    <3> QED  BY <1>4, <1>5
  <2>2. \A n \in Nat : \A z \in [1..n -> TransferRecord] : z \in Seq(TransferRecord) /\ Len(z) = n
    OBVIOUS
  <2> QED  BY <1>1, <2>1, <2>2
<1>7. ASSUME NEW i \in found PROVE \E r \in D : q[r] = transfers[i]
  <2>1. PICK r \in D : r = Rank(found, i)
    BY RanksOrder
  <2>2. g[r] = i
    <3> HIDE DEF g, D
    <3> QED  BY <1>3, <2>1, RanksOrder
  <2> HIDE DEF g, D
  <2> QED  BY <1>5, <2>1, <2>2
<1>8. ASSUME NEW r \in D, NEW z \in D, r < z PROVE q[r].timestamp > q[z].timestamp
  <2>1. PICK i \in found, k \in found :
            /\ q[r] = transfers[i] /\ Rank(found, i) = r
            /\ q[z] = transfers[k] /\ Rank(found, k) = z
    <3> HIDE DEF g, D
    <3> QED  BY <1>3, <1>5
  <2>2. transfers[i].timestamp \in Nat /\ transfers[k].timestamp \in Nat
    BY <2>1, StampTypes
  <2>3. i # k
    BY <1>1, <1>8, <2>1
  <2>4. transfers[i].timestamp # transfers[k].timestamp
    BY <2>1, <2>3 DEF StampInv
  <2>5. ~(transfers[k].timestamp > transfers[i].timestamp)
    <3>1. ~(Rank(found, k) < Rank(found, i))
      BY <1>1, <1>8, <2>1
    <3> QED  BY <2>1, <3>1, RanksOrder
  <2> QED  BY <2>1, <2>2, <2>4, <2>5
<1>9. \A r \in D : \E i \in found : q[r] = transfers[i]
  <2> HIDE DEF g, D
  <2> QED  BY <1>3, <1>5
<1> QED  BY <1>4, <1>6, <1>7, <1>8, <1>9

\* A page is a window of the sorted answer.
LEMMA PageIsWindow ==
    ASSUME NEW s \in Seq(TransferRecord), NEW offset \in Nat, NEW limit \in Nat \ {0}
    PROVE  /\ DOMAIN Truncated(Skipped(s, offset), limit) = {a \in 1..limit : offset + a <= Len(s)}
           /\ \A a \in 1..limit : offset + a <= Len(s) =>
                 Truncated(Skipped(s, offset), limit)[a] = s[offset + a]
<1>1. PICK n \in Nat : n = Len(s) /\ DOMAIN s = 1..n
  OBVIOUS
<1>2. PICK w : w = Skipped(s, offset)
  OBVIOUS
<1>3. /\ w \in Seq(TransferRecord)
      /\ Len(w) = IF offset < n THEN n - offset ELSE 0
      /\ \A a \in 1..Len(w) : w[a] = s[offset + a]
  <2>1. CASE offset < n
    <3>1. w = SubSeq(s, offset + 1, n)
      BY <1>1, <1>2, <2>1 DEF Skipped
    <3>2. w \in Seq(TransferRecord) /\ Len(w) = n - offset /\ \A a \in 1..Len(w) : w[a] = s[offset + a]
      BY <1>1, <2>1, <3>1
    <3> QED  BY <2>1, <3>2
  <2>2. CASE ~(offset < n)
    <3>1. w = <<>>
      BY <1>1, <1>2, <2>2 DEF Skipped
    <3> QED  BY <2>2, <3>1
  <2> QED  BY <2>1, <2>2
<1>4. PICK m \in Nat : m = Len(w)
  <2>1. Len(w) \in Nat
    BY <1>3
  <2> QED  BY <2>1
<1>5. PICK p : p = Truncated(w, limit)
  OBVIOUS
<1>6. /\ DOMAIN p = 1..(IF m > limit THEN limit ELSE m)
      /\ \A a \in DOMAIN p : p[a] = w[a]
  <2>1. CASE m > limit
    <3>1. p = SubSeq(w, 1, limit)
      BY <1>4, <1>5, <2>1 DEF Truncated
    <3>2. DOMAIN p = 1..limit /\ \A a \in 1..limit : p[a] = w[a]
      BY <1>3, <1>4, <2>1, <3>1
    <3> QED  BY <2>1, <3>2
  <2>2. CASE ~(m > limit)
    <3>1. p = w
      BY <1>4, <1>5, <2>2 DEF Truncated
    <3> QED  BY <1>3, <1>4, <2>2, <3>1
  <2> QED  BY <2>1, <2>2
<1>7. \A a \in 1..limit : offset + a <= n <=> a \in DOMAIN p
  BY <1>1, <1>3, <1>4, <1>6
<1>8. DOMAIN p \subseteq 1..limit
  BY <1>4, <1>6
<1>9. \A a \in DOMAIN p : p[a] = s[offset + a]
  BY <1>3, <1>4, <1>6
<1> QED  BY <1>1, <1>2, <1>5, <1>7, <1>8, <1>9

\* Every number is in one of the windows of a given size.
LEMMA Windows ==
    ASSUME NEW limit \in Nat \ {0}
    PROVE  \A k \in Nat : \E i \in 0..k, a \in 1..limit : k + 1 = limit * i + a
<1> DEFINE T == {k \in Nat : \E i \in 0..k, a \in 1..limit : k + 1 = limit * i + a}
<1>1. 0 \in T
  <2>1. 0 \in 0..0 /\ 1 \in 1..limit /\ 0 + 1 = limit * 0 + 1
    OBVIOUS
  <2> QED  BY <2>1
<1>2. ASSUME NEW k \in Nat, k \in T PROVE k + 1 \in T
  <2>1. PICK i \in 0..k, a \in 1..limit : k + 1 = limit * i + a
    BY <1>2
  <2>2. PICK y \in Int : y = limit * i
    BY <2>1
  <2>3. CASE a < limit
    <3>1. a + 1 \in 1..limit /\ i \in 0..(k + 1)
      BY <2>1, <2>3
    <3>2. (k + 1) + 1 = limit * i + (a + 1)
      BY <2>1, <2>2, <3>1
    <3> QED  BY <3>1, <3>2
  <2>4. CASE a = limit
    <3>1. i + 1 \in 0..(k + 1) /\ 1 \in 1..limit
      BY <2>1
    <3>2. limit * (i + 1) = y + limit
      BY <2>1, <2>2
    <3>3. (k + 1) + 1 = limit * (i + 1) + 1
      BY <2>1, <2>2, <2>4, <3>2
    <3>4. PICK j \in 0..(k + 1), b \in 1..limit : (k + 1) + 1 = limit * j + b
      BY <3>1, <3>3
    <3> QED  BY <3>4
  <2> QED  BY <2>1, <2>3, <2>4
<1>3. Nat \subseteq T
  <2> HIDE DEF T
  <2> QED  BY <1>1, <1>2, NumberInduction
<1> QED  BY <1>3

\* A later window begins where an earlier one has ended.
LEMMA WindowsApart ==
    ASSUME NEW limit \in Nat \ {0}, NEW i \in Nat, NEW j \in Nat, i < j
    PROVE  limit * i + limit <= limit * j
<1>1. PICK d \in Nat : j = i + 1 + d
  <2>1. j - i - 1 \in Nat /\ j = i + 1 + (j - i - 1)
    OBVIOUS
  <2> QED  BY <2>1
<1>2. limit * d \in Nat
  OBVIOUS
<1>3. limit * (i + 1 + d) = limit * i + limit + limit * d
  OBVIOUS
<1> QED  BY <1>1, <1>2, <1>3

\* The pages of one query.
LEMMA PagesOfQuery ==
    ASSUME ApiTypes, StampInv, NEW q, NEW limit \in Nat \ {0}
    PROVE  LET shownAt == UNION {PageOf(q, limit, i) : i \in 0..Len(transfers)}
           IN  /\ {e.transfer : e \in shownAt} = {transfers[i] : i \in Found(q)}
               /\ \A e, x \in shownAt :
                      e.page < x.page \/ (e.page = x.page /\ e.place < x.place) =>
                          e.transfer.timestamp > x.transfer.timestamp
<1>1. PICK n \in Nat : n = Len(transfers)
  BY StampTypes
<1>2. PICK F \in SUBSET (DOMAIN transfers) : F = Found(q)
  BY DEF Found
<1>3. PICK m \in 0..n : m = Cardinality(F)
  BY <1>1, <1>2, RanksOrder
<1>4. PICK s \in Seq(TransferRecord) :
          /\ s = NewestFirst(F) /\ Len(s) = m
          /\ \A r \in 1..m : \E i \in F : s[r] = transfers[i]
          /\ \A i \in F : \E r \in 1..m : s[r] = transfers[i]
          /\ \A r, z \in 1..m : r < z => s[r].timestamp > s[z].timestamp
  <2>1. PICK z : z = NewestFirst(F)
    OBVIOUS
  <2>2. /\ z \in Seq(TransferRecord) /\ Len(z) = Cardinality(F)
        /\ \A r \in 1..Cardinality(F) : \E i \in F : z[r] = transfers[i]
        /\ \A i \in F : \E r \in 1..Cardinality(F) : z[r] = transfers[i]
        /\ \A r, y \in 1..Cardinality(F) : r < y => z[r].timestamp > z[y].timestamp
    BY <1>2, <2>1, NewestFirstSorts
  <2> QED  BY <1>3, <2>1, <2>2
<1> DEFINE Entry(i, a) == [page |-> i, place |-> a, transfer |-> s[limit * i + a]]
           shownAt == UNION {PageOf(q, limit, i) : i \in 0..Len(transfers)}
<1>5. ASSUME NEW i \in 0..n
      PROVE  PageOf(q, limit, i) = {Entry(i, a) : a \in {b \in 1..limit : limit * i + b <= m}}
  <2>1. PICK o \in Nat : o = limit * i
    BY <1>1
  <2>2. PICK p : p = QueryTransfers(q, limit * i, limit)
    OBVIOUS
  <2>3. p = Truncated(Skipped(s, o), limit)
    BY <1>2, <1>4, <2>1, <2>2 DEF QueryTransfers
  <2>4. /\ DOMAIN p = {a \in 1..limit : o + a <= m}
        /\ \A a \in 1..limit : o + a <= m => p[a] = s[o + a]
    <3>1. /\ DOMAIN Truncated(Skipped(s, o), limit) = {a \in 1..limit : o + a <= Len(s)}
          /\ \A a \in 1..limit : o + a <= Len(s) =>
                Truncated(Skipped(s, o), limit)[a] = s[o + a]
      BY <1>4, <2>1, PageIsWindow
    <3> QED  BY <1>4, <2>3, <3>1
  <2>5. PageOf(q, limit, i) = {[page |-> i, place |-> a, transfer |-> p[a]] : a \in DOMAIN p}
    BY <2>2 DEF PageOf
  <2>6. \A a \in DOMAIN p : [page |-> i, place |-> a, transfer |-> p[a]] = Entry(i, a)
    BY <2>1, <2>4
  <2>7. DOMAIN p = {b \in 1..limit : limit * i + b <= m}
    BY <2>1, <2>4
  <2> HIDE DEF Entry
  <2> QED  BY <2>5, <2>6, <2>7
<1>6. ASSUME NEW e \in shownAt
      PROVE  \E i \in 0..n, a \in 1..limit : limit * i + a <= m /\ e = Entry(i, a)
  <2>1. PICK i \in 0..n : e \in PageOf(q, limit, i)
    BY <1>1
  <2> HIDE DEF Entry, shownAt
  <2> QED  BY <1>5, <2>1
<1>7. ASSUME NEW i \in 0..n, NEW a \in 1..limit, limit * i + a <= m
      PROVE  Entry(i, a) \in shownAt
  <2>1. Entry(i, a) \in PageOf(q, limit, i)
    <3> HIDE DEF Entry
    <3> QED  BY <1>5, <1>7
  <2> QED  BY <1>1, <2>1
<1>8. ASSUME NEW e \in shownAt PROVE \E i \in F : e.transfer = transfers[i]
  <2>1. PICK i \in 0..n, a \in 1..limit : limit * i + a <= m /\ e = Entry(i, a)
    <3> HIDE DEF Entry, shownAt
    <3> QED  BY <1>6
  <2>2. PICK r \in Nat : r = limit * i + a /\ r >= 1
    <3>1. limit * i \in Nat
      BY <2>1
    <3> QED  BY <2>1, <3>1
  <2>3. r \in 1..m /\ e.transfer = s[r]
    BY <2>1, <2>2, <1>3
  <2> QED  BY <1>4, <2>3
<1>9. ASSUME NEW i \in F PROVE \E e \in shownAt : e.transfer = transfers[i]
  <2>1. PICK r \in 1..m : s[r] = transfers[i]
    BY <1>4
  <2>2. r - 1 \in Nat /\ (r - 1) + 1 = r
    BY <2>1, <1>3
  <2>3. PICK j \in 0..(r - 1), a \in 1..limit : (r - 1) + 1 = limit * j + a
    <3> DEFINE k == r - 1
    <3>1. k \in Nat
      BY <2>2
    <3> HIDE DEF k
    <3>2. \E j \in 0..k, a \in 1..limit : k + 1 = limit * j + a
      BY <3>1, Windows
    <3> QED  BY <3>2 DEF k
  <2>4. j \in 0..n /\ r = limit * j + a /\ limit * j + a <= m
    BY <2>1, <2>2, <2>3, <1>3
  <2>5. Entry(j, a) \in shownAt
    <3> HIDE DEF Entry, shownAt
    <3> QED  BY <1>7, <2>3, <2>4
  <2>6. Entry(j, a).transfer = transfers[i]
    BY <2>1, <2>4
  <2> HIDE DEF Entry, shownAt
  <2> QED  BY <2>5, <2>6
<1>10. ASSUME NEW e \in shownAt, NEW x \in shownAt,
              e.page < x.page \/ (e.page = x.page /\ e.place < x.place)
       PROVE  e.transfer.timestamp > x.transfer.timestamp
  <2>1. PICK i \in 0..n, a \in 1..limit : limit * i + a <= m /\ e = Entry(i, a)
    <3> HIDE DEF Entry, shownAt
    <3> QED  BY <1>6
  <2>2. PICK j \in 0..n, b \in 1..limit : limit * j + b <= m /\ x = Entry(j, b)
    <3> HIDE DEF Entry, shownAt
    <3> QED  BY <1>6
  <2>3. i < j \/ (i = j /\ a < b)
    BY <1>10, <2>1, <2>2
  <2>4. PICK u \in Nat, v \in Nat : u = limit * i /\ v = limit * j
    BY <2>1, <2>2
  <2>5. u + a < v + b
    <3>1. CASE i < j
      <4>1. u + limit <= v
        BY <2>1, <2>2, <2>4, <3>1, WindowsApart
      <4>2. a \in Nat /\ b \in Nat /\ a <= limit /\ b >= 1
        BY <2>1, <2>2
      <4> QED  BY <2>4, <4>1, <4>2
    <3>2. CASE i = j /\ a < b
      BY <2>4, <3>2
    <3> QED  BY <2>3, <3>1, <3>2
  <2>6. u + a \in 1..m /\ v + b \in 1..m
    BY <2>1, <2>2, <2>4, <1>3
  <2>7. e.transfer = s[u + a] /\ x.transfer = s[v + b]
    BY <2>1, <2>2, <2>4
  <2> QED  BY <1>4, <2>5, <2>6, <2>7
<1>11. {e.transfer : e \in shownAt} = {transfers[i] : i \in Found(q)}
  <2> HIDE DEF shownAt
  <2> QED  BY <1>2, <1>8, <1>9
<1> QED
  <2> HIDE DEF Entry
  <2> QED  BY <1>10, <1>11

\* Whatever is asked for and in whatever pages, each transfer that matches is shown once,
\* newest first, for any ledger the endpoints can write (Ledger::query_transfers).
THEOREM PagesTileAlways == ApiSpec => []PagesTile
<1>1. ApiInit => StampInv
  BY DEF ApiInit, StampInv
<1>2. ApiInv => ApiTypes
  BY DEF ApiInv
<1>3. ApiSpec => []StampInv
  BY <1>1, <1>2, ApiInvariance, NextKeepsStamps, PTL DEF ApiSpec
<1>4. ApiInv /\ StampInv => PagesTile
  <2> SUFFICES ASSUME ApiTypes, StampInv PROVE PagesTile
    BY DEF ApiInv
  <2>1. \A limit \in PageSizes : limit \in Nat \ {0}
    BY ApiAssumption
  <2> QED  BY <2>1, PagesOfQuery DEF PagesTile
<1> QED  BY <1>3, <1>4, ApiInvariance, PTL

=============================================================================
