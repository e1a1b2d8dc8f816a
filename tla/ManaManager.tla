------------------------------ MODULE ManaManager ------------------------------
(***************************************************************************)
(* Mana pools and their manager, icn-economics/src/mana.rs.                 *)
(*                                                                         *)
(* A pool regenerates lazily: every operation first tops the pool up for   *)
(* the whole seconds that passed since the pool was last touched, and only *)
(* then spends, credits or reports.  The manager keeps one pool per scope  *)
(* and hands every change of a balance to a metrics hook.                  *)
(*                                                                         *)
(* The wall clock is read with SystemTime::now and is not monotonic: it    *)
(* may be set back between two operations.                                 *)
(***************************************************************************)
EXTENDS Integers

CONSTANTS
    Scopes,      \* scope keys (individual, cooperative, community, federation)
    Amounts,     \* amounts asked for by callers, and maxima given to pools
    Rates,       \* regeneration rates given to pools, per second
    MaxTime,     \* bound on the wall clock, for model checking
    MaxSpent     \* bound on the history of spending, for model checking

ASSUME AmountsAssumption == Amounts \subseteq Nat
ASSUME RatesAssumption == Rates \subseteq Nat
ASSUME BoundsAssumption == MaxTime \in Nat /\ MaxSpent \in Nat

VARIABLES
    clock,       \* now_secs()
    pools,       \* HashMap<ScopeKey, ManaPool>, with what the hook was last told
    spent,       \* history: mana taken out of a pool by spend and transfer
    received,    \* history: mana offered to a pool by credit
    born         \* history: when the pool was created

vars == <<clock, pools, spent, received, born>>

(* `shown` is the balance last passed to ManaMetricsHook::update_balance.  *)
Pool == [current : Nat, max : Nat, regen : Nat, last : Nat, shown : Nat]

Lesser(a, b) == IF a <= b THEN a ELSE b

-----------------------------------------------------------------------------
(* Operations on one pool.                                                  *)

\* ManaPool::new, reported to the hook by ensure_pool's or_insert_with.
NewPool(max, regen, now) ==
    [current |-> max, max |-> max, regen |-> regen, last |-> now, shown |-> max]

\* Mutant: a clock set back moves last_updated back, and the seconds that
\* follow are paid for again.
RewoundRegeneration(p, now) ==
    [p EXCEPT !.current = IF now > p.last
                          THEN Lesser(p.current + (now - p.last) * p.regen, p.max)
                          ELSE p.current,
              !.last = now]

ApplyRegeneration(p, now) ==
    IF now > p.last
    THEN [p EXCEPT !.current = Lesser(p.current + (now - p.last) * p.regen, p.max),
                   !.last = now]
    ELSE p

\* Only a change of the balance is passed to the hook.
Available(p, now) ==
    LET q == ApplyRegeneration(p, now)
    IN  IF q.current # p.current THEN [q EXCEPT !.shown = q.current] ELSE q

CanConsume(p, amount, now) == Available(p, now).current >= amount

\* A refused request still regenerates the pool.
Consume(p, amount, now) ==
    LET q == Available(p, now)
    IN  IF q.current >= amount
        THEN [q EXCEPT !.current = q.current - amount, !.shown = q.current - amount]
        ELSE q

\* What does not fit under the maximum is lost.
Credit(p, amount, now) ==
    LET q == Available(p, now)
        c == Lesser(q.current + amount, q.max)
    IN  IF c # q.current THEN [q EXCEPT !.current = c, !.shown = c] ELSE q

-----------------------------------------------------------------------------
(* Operations on the map of pools.                                          *)

Put(f, key, value) ==
    [k \in DOMAIN f \cup {key} |-> IF k = key THEN value ELSE f[k]]

Ensured(ps, key, max, regen, now) ==
    LET p == IF key \in DOMAIN ps THEN ps[key] ELSE NewPool(max, regen, now)
        q == Available(p, now)
    IN  Put(ps, key, [q EXCEPT !.shown = q.current])

CanSpend(ps, key, amount, now) ==
    key \in DOMAIN ps /\ CanConsume(ps[key], amount, now)

\* A scope without a pool has nothing to spend and gets no pool.
AfterSpend(ps, key, amount, now) ==
    IF key \in DOMAIN ps
    THEN Put(ps, key, Consume(ps[key], amount, now))
    ELSE ps

\* Mutant: the destination is created, full, before the source has paid.
EagerTransfer(ps, from, to, amount, now) ==
    LET ready   == Ensured(ps, to, amount, 1, now)
        debited == AfterSpend(ready, from, amount, now)
    IN  IF CanSpend(ps, from, amount, now)
        THEN Put(debited, to, Credit(debited[to], amount, now))
        ELSE debited

\* Spend, create the destination with the amount as its maximum, credit it.
AfterTransfer(ps, from, to, amount, now) ==
    LET debited == AfterSpend(ps, from, amount, now)
        ready   == Ensured(debited, to, amount, 1, now)
    IN  IF CanSpend(ps, from, amount, now)
        THEN Put(ready, to, Credit(ready[to], amount, now))
        ELSE debited

-----------------------------------------------------------------------------
Init ==
    /\ clock \in 0..MaxTime
    /\ pools = [k \in {} |-> 0]
    /\ spent = [k \in Scopes |-> 0]
    /\ received = [k \in Scopes |-> 0]
    /\ born = [k \in Scopes |-> 0]

BornWith(ps) ==
    [k \in Scopes |-> IF k \in DOMAIN ps \ DOMAIN pools THEN clock ELSE born[k]]

EnsurePool(key, max, regen) ==
    /\ pools' = Ensured(pools, key, max, regen, clock)
    /\ born' = BornWith(pools')
    /\ UNCHANGED <<clock, spent, received>>

\* balance(): reading a pool regenerates it.
Balance(key) ==
    /\ key \in DOMAIN pools
    /\ pools' = Put(pools, key, Available(pools[key], clock))
    /\ UNCHANGED <<clock, spent, received, born>>

Spend(key, amount) ==
    /\ spent[key] + amount <= MaxSpent
    /\ pools' = AfterSpend(pools, key, amount, clock)
    /\ spent' = IF CanSpend(pools, key, amount, clock)
                THEN [spent EXCEPT ![key] = @ + amount]
                ELSE spent
    /\ UNCHANGED <<clock, received, born>>

Transfer(from, to, amount) ==
    /\ spent[from] + amount <= MaxSpent
    /\ pools' = AfterTransfer(pools, from, to, amount, clock)
    /\ IF CanSpend(pools, from, amount, clock)
       THEN /\ spent' = [spent EXCEPT ![from] = @ + amount]
            /\ received' = [received EXCEPT ![to] = @ + amount]
       ELSE UNCHANGED <<spent, received>>
    /\ born' = BornWith(pools')
    /\ UNCHANGED clock

\* The wall clock moves, forwards or backwards.
SetClock(t) ==
    /\ t # clock
    /\ clock' = t
    /\ UNCHANGED <<pools, spent, received, born>>

Operation ==
    \/ \E k \in Scopes, m \in Amounts, r \in Rates : EnsurePool(k, m, r)
    \/ \E k \in Scopes : Balance(k)
    \/ \E k \in Scopes, a \in Amounts : Spend(k, a)
    \/ \E f, t \in Scopes, a \in Amounts : Transfer(f, t, a)

Next ==
    \/ Operation
    \/ \E t \in 0..MaxTime : SetClock(t)

Spec == Init /\ [][Next]_vars

-----------------------------------------------------------------------------
(* Properties.                                                              *)

TypeOK ==
    /\ clock \in Nat
    /\ DOMAIN pools \subseteq Scopes
    /\ pools \in [DOMAIN pools -> Pool]
    /\ spent \in [Scopes -> Nat]
    /\ received \in [Scopes -> Nat]
    /\ born \in [Scopes -> Nat]

\* No pool ever holds more than its maximum, whatever mix of regeneration,
\* credit and transfer it went through (the min() in apply_regeneration and
\* credit, and the maximum that transfer gives to a pool it creates).
WithinMax == \A k \in DOMAIN pools : pools[k].current <= pools[k].max

\* The metrics hook is told of every change: what it last heard of a scope is
\* the scope's balance, on the success and the refusal path of every operation
\* (update_balance in available, consume, credit and ensure_pool).
GaugeTracksBalance == \A k \in DOMAIN pools : pools[k].shown = pools[k].current

\* Lazy regeneration never pays for the same second twice: all that a scope has
\* spent and still holds was in its first endowment, was credited to it, or
\* accrued at its rate between its creation and the last time its pool was
\* touched, even when the wall clock is set back in between
\* (the guard and the last_updated assignment of apply_regeneration).
WithinBudget ==
    \A k \in DOMAIN pools :
        /\ born[k] <= pools[k].last
        /\ spent[k] + pools[k].current
              <= pools[k].max + received[k]
                   + (pools[k].last - born[k]) * pools[k].regen

\* The balance a scope would be told if it asked now.
Worth(ps, k, now) ==
    IF k \in DOMAIN ps THEN Available(ps[k], now).current ELSE 0

\* transfer is all or nothing ("Atomically transfer mana between scopes"): a
\* refused one changes what nobody could spend, an accepted one takes exactly
\* the amount from the source, gives the destination at most the amount, and
\* leaves every other scope alone.  In particular it never mints mana, not even
\* when it creates the destination pool full and then credits it.
AllOrNothing(from, to, amount) ==
    LET before(k) == Worth(pools, k, clock)
        after(k)  == Worth(pools', k, clock)
    IN  \/ \A k \in Scopes : after(k) = before(k)
        \/ /\ before(from) >= amount
           /\ \A k \in Scopes \ {from, to} : after(k) = before(k)
           /\ from # to => /\ after(from) = before(from) - amount
                           /\ after(to) <= before(to) + amount
           /\ from = to => after(from) <= before(from)

TransferAtomic ==
    [][\A f, t \in Scopes, a \in Amounts : Transfer(f, t, a) => AllOrNothing(f, t, a)]_vars

\* What the manager promises of its pools together: caps, the gauge, and no
\* mana from nothing, whatever the clock and the callers do (manager.rs).
PoolsSound == TypeOK /\ WithinMax /\ GaugeTracksBalance /\ WithinBudget

=============================================================================
