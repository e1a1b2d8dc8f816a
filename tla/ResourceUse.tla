----------------------------- MODULE ResourceUse -----------------------------
(***************************************************************************)
(* icn-economics: ResourcePolicyEnforcer over InMemoryResourceRepository      *)
(* (lib.rs) and the token ledger of Economics (economics.rs).                *)
(*                                                                         *)
(* A caller asks check_authorization and later, in another call, records the  *)
(* use: other callers and the clock run in between.  One resource type and    *)
(* scope is modelled; the repository keeps each apart.                       *)
(*                                                                         *)
(* Economics keeps usage per account behind a lock that every call takes      *)
(* once.  Tokens are what is left of an allowance: a transfer raises the      *)
(* sender's usage and lowers the recipient's.                               *)
(***************************************************************************)
EXTENDS Integers, Sequences, FiniteSets, FiniteSetsExt, Functions

CONSTANTS
    Callers,     \* tasks that use resources
    Users,       \* the DIDs they use them for
    Quantities,  \* amounts asked for
    Expiries,    \* expires_at of the tokens they ask with
    Policies,    \* [type, limit, period, permits]; type "None" where none is set
    TokenMax,    \* the allowance of an account
    MaxSecs,     \* bound on the clock
    MaxRecords,  \* bound on the records of all users
    MaxUsed      \* bound on the usage of an account

ASSUME UseAssumption ==
    /\ IsFiniteSet(Callers) /\ Callers # {}
    /\ IsFiniteSet(Users) /\ "none" \notin Users
    /\ IsFiniteSet(Quantities) /\ Quantities \subseteq Nat /\ Quantities # {}
    /\ \A p \in Policies : p.limit \in Nat /\ p.period \in Nat
    /\ {TokenMax, MaxSecs, MaxRecords, MaxUsed} \subseteq Nat

VARIABLES
    secs,        \* the wall clock
    policy,      \* the policy, set before the enforcer is shared
    usage,       \* user -> sequence of [ts, amount]
    call,        \* caller -> what it was authorised for, or NoCall
    raced,       \* history, per user: a use was recorded after another use was, or
                 \* the clock was set back, since it was checked
    tokens       \* user -> usage of tokens

useVars == <<secs, policy, usage, call, raced, tokens>>

NoCall == [user |-> "none", amount |-> 0, stale |-> FALSE]

-----------------------------------------------------------------------------
(* InMemoryResourceRepository                                               *)

\* The amounts of the records at some positions.
Total(records, positions) ==
    SumFunctionOnSet([i \in DOMAIN records |-> records[i].amount], positions)

get_usage(u) == Total(usage[u], DOMAIN usage[u])

\* Mutant: a record made when the period began no longer counts.
HistoryAfter(u, since) == {i \in DOMAIN usage[u] : usage[u][i].ts > since}

\* The positions of the records it returns.
get_usage_history(u, since) == {i \in DOMAIN usage[u] : usage[u][i].ts >= since}

-----------------------------------------------------------------------------
(* ResourcePolicyEnforcer                                                   *)

SaturatingSub(a, b) == IF a > b THEN a - b ELSE 0

\* No policy is a refusal.
PolicyAllows(u, amount) ==
    CASE policy.type = "AllowAll" -> TRUE
      [] policy.type = "Quota" -> get_usage(u) + amount <= policy.limit
      [] policy.type = "RateLimit" ->
            Total(usage[u], get_usage_history(u, SaturatingSub(secs, policy.period))) + amount
              <= policy.limit
      [] policy.type = "PermitList" -> u \in policy.permits
      [] OTHER -> FALSE

\* check_authorization; a refusal changes nothing.
CheckAuthorization(c, u, amount, expires) ==
    /\ call[c] = NoCall
    /\ secs <= expires
    /\ PolicyAllows(u, amount)
    /\ call' = [call EXCEPT ![c] = [user |-> u, amount |-> amount, stale |-> FALSE]]
    /\ UNCHANGED <<secs, policy, usage, raced, tokens>>

\* History: a call of one of the users is overtaken.
Overtaken(c, users) ==
    IF call[c].user \in users THEN [call[c] EXCEPT !.stale = TRUE] ELSE call[c]

RecordUse(c) ==
    /\ call[c] # NoCall
    /\ SumFunctionOnSet([v \in Users |-> Len(usage[v])], Users) < MaxRecords
    /\ LET u == call[c].user
       IN  /\ usage' = [usage EXCEPT ![u] =
                           Append(@, [ts |-> secs, amount |-> call[c].amount])]
           /\ raced' = [raced EXCEPT ![u] = @ \/ call[c].stale]
           /\ call' = [d \in Callers |-> IF d = c THEN NoCall ELSE Overtaken(d, {u})]
    /\ UNCHANGED <<secs, policy, tokens>>

\* The work fails, or the caller is dropped, before anything is recorded.
AbandonUse(c) ==
    /\ call[c] # NoCall
    /\ call' = [call EXCEPT ![c] = NoCall]
    /\ UNCHANGED <<secs, policy, usage, raced, tokens>>

SetSecs(t) ==
    /\ t # secs
    /\ secs' = t
    /\ call' = IF t < secs THEN [d \in Callers |-> Overtaken(d, Users)] ELSE call
    /\ UNCHANGED <<policy, usage, raced, tokens>>

-----------------------------------------------------------------------------
(* Economics                                                                *)

\* record adds without a look at any limit.
RecordTokens(u, amount) ==
    /\ tokens[u] + amount <= MaxUsed
    /\ tokens' = [tokens EXCEPT ![u] = @ + amount]
    /\ UNCHANGED <<secs, policy, usage, call, raced>>

\* mint lowers usage, at most to zero.
MintTokens(u, amount) ==
    /\ tokens' = [tokens EXCEPT ![u] = SaturatingSub(@, amount)]
    /\ UNCHANGED <<secs, policy, usage, call, raced>>

Left(used) == SaturatingSub(TokenMax, used)

\* Mutant: the recipient's usage is read before the sender's is written.
TransferFromCopies(from, to, amount) ==
    /\ Left(tokens[from]) >= amount
    /\ tokens[from] + amount <= MaxUsed
    /\ tokens' = [[tokens EXCEPT ![from] = @ + amount]
                    EXCEPT ![to] = SaturatingSub(tokens[to], amount)]
    /\ UNCHANGED <<secs, policy, usage, call, raced>>

\* What the recipient's allowance cannot take is lost.
TransferTokens(from, to, amount) ==
    /\ Left(tokens[from]) >= amount
    /\ tokens[from] + amount <= MaxUsed
    /\ tokens' = [[tokens EXCEPT ![from] = @ + amount]
                    EXCEPT ![to] = SaturatingSub(@, amount)]
    /\ UNCHANGED <<secs, policy, usage, call, raced>>

-----------------------------------------------------------------------------
UseInit ==
    /\ secs = 0
    /\ policy \in Policies
    /\ usage = [u \in Users |-> <<>>]
    /\ call = [c \in Callers |-> NoCall]
    /\ raced = [u \in Users |-> FALSE]
    /\ tokens = [u \in Users |-> 0]

EnforcerStep ==
    \/ \E c \in Callers :
         \/ \E u \in Users, a \in Quantities, e \in Expiries :
               CheckAuthorization(c, u, a, e)
         \/ RecordUse(c)
         \/ AbandonUse(c)
    \/ \E t \in 0..MaxSecs : SetSecs(t)

TokenStep ==
    \/ \E u \in Users, a \in Quantities : RecordTokens(u, a) \/ MintTokens(u, a)
    \/ \E from, to \in Users, a \in Quantities : TransferTokens(from, to, a)

-----------------------------------------------------------------------------
(* Properties.                                                              *)

UseTypeOK ==
    /\ secs \in 0..MaxSecs
    /\ \A u \in Users : \A i \in DOMAIN usage[u] : usage[u][i].amount \in Quantities
    /\ \A c \in Callers : call[c] # NoCall => call[c].user \in Users
    /\ raced \in [Users -> BOOLEAN]
    /\ tokens \in [Users -> 0..MaxUsed]

\* A user stays within the quota as long as no use is recorded between the
\* check of another and its record (check_authorization and record_usage are
\* two calls).
QuotaHeld ==
    \A u \in Users : policy.type = "Quota" /\ ~raced[u] => get_usage(u) <= policy.limit

\* What callers are authorised to use for a user and have not recorded.
Promised(u) == SumFunctionOnSet([c \in Callers |-> IF call[c].user = u THEN call[c].amount ELSE 0],
                                Callers)

\* With such races the quota is passed by at most one use of every other caller,
\* uses that are authorised and not yet recorded included.
OvershootBounded ==
    policy.type = "Quota" =>
        \A u \in Users : get_usage(u) + Promised(u)
            <= policy.limit + (Cardinality(Callers) - 1) * Max(Quantities)

\* A rate limit holds for every period, wherever it begins and both ends
\* included, as long as no use is recorded and the clock is not set back between
\* a check and its record; between calls it may be.
RateHeld ==
    \A u \in Users : policy.type = "RateLimit" /\ ~raced[u] =>
        \A from \in 0..MaxSecs :
            LET within == {i \in DOMAIN usage[u] : usage[u][i].ts \in from..(from + policy.period)}
            IN  Total(usage[u], within) <= policy.limit

AllLeft == SumFunctionOnSet([u \in Users |-> Left(tokens[u])], Users)

\* A transfer creates no tokens, not even one to oneself: what all accounts
\* together have left never grows by it.
TokensNotCreated ==
    [][\A f, t \in Users, a \in Quantities :
          TransferTokens(f, t, a) => AllLeft' <= AllLeft]_tokens

\* The limits of a policy hold without races, and with them by a known margin
\* (ResourcePolicyEnforcer::check_authorization, record_usage).
LimitsHeld == UseTypeOK /\ QuotaHeld /\ OvershootBounded /\ RateHeld

=============================================================================
