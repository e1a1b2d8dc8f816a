----------------------------- MODULE NodeProofs -----------------------------
(***************************************************************************)
(* The parts of a node, proved for every instance: the mana manager, the     *)
(* distribution worker that runs beside its reports and stores, and the      *)
(* runtime.  A state of one part is shared with no other, so each has an      *)
(* inductive invariant of its own.                                          *)
(*                                                                         *)
(* Mana manager (IInv): of each pool all that the properties say, and of a    *)
(* scope without a pool that it has spent nothing: that is what makes the     *)
(* first endowment of a new pool cover its history.                         *)
(*                                                                         *)
(* Worker (DInv): what a tick has already taken from the pool and not yet     *)
(* handed out is carried beside the pools, so that Sound survives between     *)
(* the steps of a tick.                                                     *)
(*                                                                         *)
(* Runtime (RuntimeInv): of the store and of its flushed copy that a          *)
(* proposal counts executions only when marked, of each call what it checked   *)
(* before it waited, and of each receipt kept anywhere that it verified.      *)
(***************************************************************************)
EXTENDS Distribution, Runtime, InductionTheorems

\* A pool that is well formed, capped, reported, and covered by its history.
Sound(p, b, s, r) ==
    /\ p \in Pool
    /\ p.current <= p.max
    /\ p.shown = p.current
    /\ b <= p.last
    /\ s + p.current <= p.max + r + (p.last - b) * p.regen

Histories == [Scopes -> Nat]

\* A map of pools that agrees with its history.
Books(ps, b, s, r) ==
    /\ DOMAIN ps \subseteq Scopes
    /\ ps \in [DOMAIN ps -> Pool]
    /\ \A k \in DOMAIN ps : Sound(ps[k], b[k], s[k], r[k])
    /\ \A k \in Scopes \ DOMAIN ps : s[k] = 0

IInv == TypeOK /\ Books(pools, born, spent, received)

-----------------------------------------------------------------------------
(* Arithmetic and maps.                                                     *)

\* Natural numbers are closed under product, and product distributes over sum:
\* the two facts about `elapsed * regen_rate` that apply_regeneration needs.
LEMMA Products ==
    \A a, b, c \in Nat : a * c \in Nat /\ (a + b) * c = a * c + b * c
  OBVIOUS

\* Inserting a pool under a scope leaves a map of pools.
LEMMA PutType ==
    ASSUME NEW f, NEW scope \in Scopes, NEW value \in Pool,
           DOMAIN f \subseteq Scopes, f \in [DOMAIN f -> Pool]
    PROVE  /\ DOMAIN Put(f, scope, value) \subseteq Scopes
           /\ Put(f, scope, value) \in [DOMAIN Put(f, scope, value) -> Pool]
  BY DEF Put

-----------------------------------------------------------------------------
(* One pool.                                                                *)

\* ApplyRegeneration moves last_updated forward only, keeps the cap, and adds
\* no more than the rate times the seconds it moved.
LEMMA RegenerationFacts ==
    ASSUME NEW p \in Pool, p.current <= p.max, NEW now \in Nat
    PROVE  LET q == ApplyRegeneration(p, now)
           IN  /\ q \in Pool
               /\ q.max = p.max /\ q.regen = p.regen /\ q.shown = p.shown
               /\ p.last <= q.last /\ now <= q.last
               /\ p.current <= q.current /\ q.current <= q.max
               /\ q.current <= p.current + (q.last - p.last) * p.regen
  <1>1. CASE now > p.last
    <2>1. now - p.last \in Nat /\ (now - p.last) * p.regen \in Nat
      BY <1>1, Products DEF Pool
    <2> DEFINE gain == (now - p.last) * p.regen
    <2>2. gain \in Nat
      BY <2>1
    <2>3. ApplyRegeneration(p, now)
            = [p EXCEPT !.current = Lesser(p.current + gain, p.max), !.last = now]
      BY <1>1 DEF ApplyRegeneration
    <2> HIDE DEF gain
    <2>4. /\ Lesser(p.current + gain, p.max) \in Nat
          /\ p.current <= Lesser(p.current + gain, p.max)
          /\ Lesser(p.current + gain, p.max) <= p.max
          /\ Lesser(p.current + gain, p.max) <= p.current + gain
      BY <2>2 DEF Lesser, Pool
    <2>5. LET q == ApplyRegeneration(p, now)
          IN  /\ q \in Pool /\ q.last = now
              /\ q.max = p.max /\ q.regen = p.regen /\ q.shown = p.shown
              /\ q.current = Lesser(p.current + gain, p.max)
      BY <2>3, <2>4 DEF Pool
    <2> QED
      BY <1>1, <2>4, <2>5 DEF gain, Pool
  <1>2. CASE ~(now > p.last)
    <2>1. ApplyRegeneration(p, now) = p
      BY <1>2 DEF ApplyRegeneration
    <2>2. (p.last - p.last) * p.regen = 0
      BY DEF Pool
    <2> QED
      BY <1>2, <2>1, <2>2 DEF Pool
  <1> QED
    BY <1>1, <1>2

\* The same of Available; a pool that was reported stays reported, and asking
\* twice at the same time gives the same answer.
LEMMA AvailableFacts ==
    ASSUME NEW p \in Pool, p.current <= p.max, NEW now \in Nat
    PROVE  LET q == Available(p, now)
           IN  /\ q \in Pool
               /\ q.max = p.max /\ q.regen = p.regen
               /\ p.last <= q.last /\ now <= q.last
               /\ p.current <= q.current /\ q.current <= q.max
               /\ q.current <= p.current + (q.last - p.last) * p.regen
               /\ p.shown = p.current => q.shown = q.current
  <1> DEFINE r == ApplyRegeneration(p, now)
  <1>1. /\ r \in Pool
        /\ r.max = p.max /\ r.regen = p.regen /\ r.shown = p.shown
        /\ p.last <= r.last /\ now <= r.last
        /\ p.current <= r.current /\ r.current <= r.max
        /\ r.current <= p.current + (r.last - p.last) * p.regen
    BY RegenerationFacts
  <1>2. Available(p, now)
          = IF r.current # p.current THEN [r EXCEPT !.shown = r.current] ELSE r
    BY DEF Available
  <1> HIDE DEF r
  <1> QED
    BY <1>1, <1>2 DEF Pool

\* A pool already touched at `now` does not change when it is touched again.
LEMMA TouchedStays ==
    ASSUME NEW p \in Pool, NEW now \in Nat, now <= p.last
    PROVE  Available(p, now) = p
  BY DEF Available, ApplyRegeneration, Pool

\* Regeneration keeps a pool sound: what it adds is the rate times the time.
LEMMA AvailableSound ==
    ASSUME NEW p, NEW b \in Nat, NEW s \in Nat, NEW r \in Nat, NEW now \in Nat,
           Sound(p, b, s, r)
    PROVE  Sound(Available(p, now), b, s, r)
  <1> DEFINE q == Available(p, now)
  <1>1. /\ q \in Pool
        /\ q.max = p.max /\ q.regen = p.regen
        /\ p.last <= q.last
        /\ q.current <= q.max
        /\ q.current <= p.current + (q.last - p.last) * p.regen
        /\ q.shown = q.current
    BY AvailableFacts DEF Sound
  <1> HIDE DEF q
  <1>2. /\ q.last - p.last \in Nat /\ p.last - b \in Nat
        /\ q.last - b = (q.last - p.last) + (p.last - b)
    BY <1>1 DEF Sound, Pool
  <1>3. /\ (q.last - p.last) * p.regen \in Nat
        /\ (p.last - b) * p.regen \in Nat
        /\ (q.last - b) * p.regen
              = (q.last - p.last) * p.regen + (p.last - b) * p.regen
    BY <1>2, Products DEF Sound, Pool
  <1> DEFINE added == (q.last - p.last) * p.regen
             before == (p.last - b) * p.regen
             total == (q.last - b) * p.regen
  <1>4. /\ added \in Nat /\ before \in Nat /\ total = added + before
        /\ q.current <= p.current + added
        /\ s + p.current <= p.max + r + before
    BY <1>1, <1>3 DEF Sound
  <1> HIDE DEF added, before, total
  <1>5. s + q.current <= p.max + r + total
    BY <1>1, <1>4 DEF Sound, Pool
  <1>6. s + q.current <= q.max + r + (q.last - b) * q.regen
    BY <1>1, <1>5 DEF total
  <1>7. b <= q.last
    BY <1>1 DEF Sound, Pool
  <1> QED
    BY <1>1, <1>6, <1>7 DEF Sound, q

\* What a pool pays out by consume is added to its history.
LEMMA ConsumeSound ==
    ASSUME NEW p, NEW b \in Nat, NEW s \in Nat, NEW r \in Nat, NEW now \in Nat,
           NEW amount \in Nat, Sound(p, b, s, r)
    PROVE  Sound(Consume(p, amount, now), b,
                 IF CanConsume(p, amount, now) THEN s + amount ELSE s, r)
  <1> DEFINE q == Available(p, now)
  <1>1. Sound(q, b, s, r)
    BY AvailableSound
  <1>2. CASE q.current >= amount
    <2>1. /\ Consume(p, amount, now)
               = [q EXCEPT !.current = q.current - amount, !.shown = q.current - amount]
          /\ CanConsume(p, amount, now)
      BY <1>2 DEF Consume, CanConsume
    <2> HIDE DEF q
    <2> DEFINE c == [q EXCEPT !.current = q.current - amount, !.shown = q.current - amount]
               grown == (q.last - b) * q.regen
    <2>a. /\ q \in Pool /\ q.current <= q.max
      BY <1>1 DEF Sound
    <2>b. q.current - amount \in Nat /\ q.current - amount <= q.max
      BY <2>a, <1>2 DEF Pool
    <2>2. /\ c \in Pool /\ c.current = q.current - amount /\ c.shown = c.current
          /\ c.max = q.max /\ c.regen = q.regen /\ c.last = q.last
          /\ c.current <= c.max
      BY <2>a, <2>b DEF Pool
    <2>3. grown \in Nat /\ s + q.current <= q.max + r + grown
      BY <1>1, Products DEF Sound, Pool
    <2> HIDE DEF c, grown
    <2>4. s + amount + c.current <= c.max + r + grown
      BY <1>1, <2>2, <2>3 DEF Sound, Pool
    <2>5. s + amount + c.current <= c.max + r + (c.last - b) * c.regen
      BY <2>2, <2>4 DEF grown
    <2>6. Sound(c, b, s + amount, r)
      BY <1>1, <2>2, <2>5 DEF Sound
    <2> QED
      BY <2>1, <2>6 DEF c
  <1>3. CASE ~(q.current >= amount)
    BY <1>1, <1>3 DEF Consume, CanConsume
  <1> QED
    BY <1>2, <1>3

\* What a pool is offered by credit is added to its history, kept or not.
LEMMA CreditSound ==
    ASSUME NEW p, NEW b \in Nat, NEW s \in Nat, NEW r \in Nat, NEW now \in Nat,
           NEW amount \in Nat, Sound(p, b, s, r)
    PROVE  Sound(Credit(p, amount, now), b, s, r + amount)
  <1> DEFINE q == Available(p, now)
  <1>1. Sound(q, b, s, r)
    BY AvailableSound
  <1> DEFINE c == Credit(p, amount, now)
  <1>2. c = IF Lesser(q.current + amount, q.max) # q.current
            THEN [q EXCEPT !.current = Lesser(q.current + amount, q.max),
                           !.shown = Lesser(q.current + amount, q.max)]
            ELSE q
    BY DEF Credit
  <1> HIDE DEF q, c
  <1> DEFINE v == Lesser(q.current + amount, q.max)
  <1>a. q \in Pool /\ q.current <= q.max /\ q.shown = q.current
    BY <1>1 DEF Sound
  <1>b. v \in Nat /\ v <= q.max /\ v <= q.current + amount
    BY <1>a DEF Pool, Lesser
  <1> HIDE DEF v
  <1>3. /\ c \in Pool /\ c.shown = c.current
        /\ c.max = q.max /\ c.regen = q.regen /\ c.last = q.last
        /\ c.current <= c.max /\ c.current <= q.current + amount
    <2>1. c = IF v # q.current THEN [q EXCEPT !.current = v, !.shown = v] ELSE q
      BY <1>2 DEF v
    <2> QED
      BY <1>a, <1>b, <2>1 DEF Pool
  <1> DEFINE grown == (q.last - b) * q.regen
  <1>4. grown \in Nat /\ s + q.current <= q.max + r + grown
    BY <1>1, Products DEF Sound, Pool
  <1> HIDE DEF grown
  <1>5. s + c.current <= c.max + (r + amount) + grown
    BY <1>1, <1>3, <1>4 DEF Sound, Pool
  <1>6. s + c.current <= c.max + (r + amount) + (c.last - b) * c.regen
    BY <1>3, <1>5 DEF grown
  <1>7. Sound(c, b, s, r + amount)
    BY <1>1, <1>3, <1>6 DEF Sound
  <1> QED
    BY <1>7 DEF c

-----------------------------------------------------------------------------
(* The map of pools.                                                        *)

\* The times of creation once `scope` has a pool.
BornAt(b, ps, scope, now) ==
    [k \in Scopes |-> IF k \in {scope} \ DOMAIN ps THEN now ELSE b[k]]

\* Replacing the pool of one scope by a sound one keeps the books.
LEMMA PutBooks ==
    ASSUME NEW ps, NEW b, NEW s, NEW r, NEW b2, NEW s2, NEW r2,
           NEW scope \in Scopes, NEW p,
           Books(ps, b, s, r), Sound(p, b2[scope], s2[scope], r2[scope]),
           \A k \in Scopes \ {scope} : b2[k] = b[k] /\ s2[k] = s[k] /\ r2[k] = r[k]
    PROVE  Books(Put(ps, scope, p), b2, s2, r2)
  <1> DEFINE qs == Put(ps, scope, p)
  <1>1. /\ DOMAIN qs = DOMAIN ps \cup {scope}
        /\ qs[scope] = p
        /\ \A k \in DOMAIN ps : k # scope => qs[k] = ps[k]
    BY DEF Put
  <1>2. p \in Pool
    BY DEF Sound
  <1>3. DOMAIN qs \subseteq Scopes /\ qs \in [DOMAIN qs -> Pool]
    BY <1>2, PutType DEF Books
  <1> HIDE DEF qs
  <1>4. ASSUME NEW k \in DOMAIN qs PROVE Sound(qs[k], b2[k], s2[k], r2[k])
    <2>1. CASE k = scope
      BY <1>1, <2>1
    <2>2. CASE k # scope
      <3>1. k \in DOMAIN ps /\ k \in Scopes \ {scope} /\ qs[k] = ps[k]
        BY <1>1, <2>2 DEF Books
      <3>2. Sound(ps[k], b[k], s[k], r[k])
        BY <3>1 DEF Books
      <3> QED
        BY <3>1, <3>2
    <2> QED
      BY <2>1, <2>2
  <1>5. \A k \in Scopes \ DOMAIN qs : s2[k] = 0
    BY <1>1 DEF Books
  <1>6. Books(qs, b2, s2, r2)
    BY <1>3, <1>4, <1>5 DEF Books
  <1> QED
    BY <1>6 DEF qs

\* ensure_pool keeps the books: a new pool starts with its whole endowment, and
\* a scope that had none has spent nothing.
LEMMA EnsuredBooks ==
    ASSUME NEW ps, NEW b \in Histories, NEW s \in Histories, NEW r \in Histories,
           NEW scope \in Scopes, NEW max \in Nat, NEW regen \in Nat, NEW now \in Nat,
           Books(ps, b, s, r)
    PROVE  /\ Books(Ensured(ps, scope, max, regen, now), BornAt(b, ps, scope, now), s, r)
           /\ BornAt(b, ps, scope, now) \in Histories
  <1> DEFINE p == IF scope \in DOMAIN ps THEN ps[scope] ELSE NewPool(max, regen, now)
             b2 == BornAt(b, ps, scope, now)
             q == Available(p, now)
             t == [q EXCEPT !.shown = q.current]
  <1>1. Ensured(ps, scope, max, regen, now) = Put(ps, scope, t)
    BY DEF Ensured
  <1>2. /\ b2 \in Histories
        /\ b2[scope] = IF scope \in DOMAIN ps THEN b[scope] ELSE now
        /\ \A k \in Scopes \ {scope} : b2[k] = b[k]
    BY DEF BornAt, Histories
  <1>3. Sound(p, b2[scope], s[scope], r[scope])
    <2>1. CASE scope \in DOMAIN ps
      BY <1>2, <2>1 DEF Books
    <2>2. CASE scope \notin DOMAIN ps
      <3>1. s[scope] = 0 /\ b2[scope] = now /\ p = NewPool(max, regen, now)
        BY <1>2, <2>2 DEF Books
      <3>2. r[scope] \in Nat /\ (now - now) * regen = 0
        BY DEF Histories
      <3>3. /\ p \in Pool /\ p.current = max /\ p.max = max /\ p.shown = max
            /\ p.last = now /\ p.regen = regen
        BY <3>1 DEF NewPool, Pool
      <3> HIDE DEF p
      <3> QED
        BY <3>1, <3>2, <3>3 DEF Sound
    <2> QED
      BY <2>1, <2>2
  <1>4. Sound(q, b2[scope], s[scope], r[scope])
    BY <1>2, <1>3, AvailableSound DEF Histories
  <1> HIDE DEF p, q
  <1>5. t = q
    BY <1>4 DEF Sound, Pool
  <1> HIDE DEF t
  <1>6. Books(Put(ps, scope, t), b2, s, r)
    BY <1>2, <1>4, <1>5, PutBooks
  <1> QED
    BY <1>1, <1>2, <1>6 DEF Put

\* spend keeps the books, on both of its paths.
LEMMA SpendBooks ==
    ASSUME NEW ps, NEW b \in Histories, NEW s \in Histories, NEW r \in Histories,
           NEW scope \in Scopes, NEW amount \in Nat, NEW now \in Nat,
           Books(ps, b, s, r)
    PROVE  LET s2 == IF CanSpend(ps, scope, amount, now)
                     THEN [s EXCEPT ![scope] = @ + amount] ELSE s
           IN  /\ Books(AfterSpend(ps, scope, amount, now), b, s2, r)
               /\ s2 \in Histories
               /\ DOMAIN AfterSpend(ps, scope, amount, now) = DOMAIN ps
  <1> DEFINE s2 == IF CanSpend(ps, scope, amount, now)
                   THEN [s EXCEPT ![scope] = @ + amount] ELSE s
             p == ps[scope]
  <1>1. CASE scope \in DOMAIN ps
    <2>1. Sound(p, b[scope], s[scope], r[scope])
      BY <1>1 DEF Books
    <2>2. Sound(Consume(p, amount, now), b[scope],
                IF CanConsume(p, amount, now) THEN s[scope] + amount ELSE s[scope], r[scope])
      BY <2>1, ConsumeSound DEF Histories
    <2>3. /\ s2 \in Histories
          /\ s2[scope] = IF CanConsume(p, amount, now) THEN s[scope] + amount ELSE s[scope]
          /\ \A k \in Scopes \ {scope} : s2[k] = s[k]
      BY <1>1 DEF CanSpend, Histories
    <2>4. AfterSpend(ps, scope, amount, now) = Put(ps, scope, Consume(p, amount, now))
      BY <1>1 DEF AfterSpend
    <2> HIDE DEF s2, p
    <2>5. Books(Put(ps, scope, Consume(p, amount, now)), b, s2, r)
      BY <2>2, <2>3, PutBooks
    <2>6. DOMAIN Put(ps, scope, Consume(p, amount, now)) = DOMAIN ps
      BY <1>1 DEF Put
    <2> QED
      BY <2>3, <2>4, <2>5, <2>6 DEF s2
  <1>2. CASE scope \notin DOMAIN ps
    BY <1>2 DEF AfterSpend, CanSpend
  <1> QED
    BY <1>1, <1>2

\* transfer keeps the books: what the source paid is entered as spent, what the
\* destination was offered as received, and a created pool as born now.
LEMMA TransferBooks ==
    ASSUME NEW ps, NEW b \in Histories, NEW s \in Histories, NEW r \in Histories,
           NEW from \in Scopes, NEW to \in Scopes, NEW amount \in Nat, NEW now \in Nat,
           Books(ps, b, s, r), CanSpend(ps, from, amount, now)
    PROVE  LET s2 == [s EXCEPT ![from] = @ + amount]
               r2 == [r EXCEPT ![to] = @ + amount]
           IN  /\ Books(AfterTransfer(ps, from, to, amount, now),
                        BornAt(b, ps, to, now), s2, r2)
               /\ s2 \in Histories /\ r2 \in Histories
               /\ BornAt(b, ps, to, now) \in Histories
  <1> DEFINE debited == AfterSpend(ps, from, amount, now)
             ready == Ensured(debited, to, amount, 1, now)
             paid == Put(ready, to, Credit(ready[to], amount, now))
             s2 == [s EXCEPT ![from] = @ + amount]
             r2 == [r EXCEPT ![to] = @ + amount]
             b2 == BornAt(b, ps, to, now)
  <1>1. /\ Books(debited, b, s2, r) /\ s2 \in Histories
        /\ DOMAIN debited = DOMAIN ps
    BY SpendBooks
  <1>2. AfterTransfer(ps, from, to, amount, now) = paid
    BY DEF AfterTransfer
  <1> HIDE DEF debited, s2
  <1>3. BornAt(b, debited, to, now) = b2
    BY <1>1 DEF BornAt
  <1>4. /\ Books(ready, b2, s2, r) /\ b2 \in Histories
        /\ DOMAIN ready = DOMAIN ps \cup {to}
    <2>1. 1 \in Nat
      OBVIOUS
    <2>2. /\ Books(ready, BornAt(b, debited, to, now), s2, r)
          /\ BornAt(b, debited, to, now) \in Histories
      BY <1>1, <2>1, EnsuredBooks
    <2>3. DOMAIN ready = DOMAIN debited \cup {to}
      BY DEF Ensured, Put
    <2> QED
      BY <1>1, <1>3, <2>2, <2>3
  <1> HIDE DEF ready, b2
  <1>5. Sound(Credit(ready[to], amount, now), b2[to], s2[to], r[to] + amount)
    BY <1>1, <1>4, CreditSound DEF Books, Histories
  <1>6. /\ r2 \in Histories /\ r2[to] = r[to] + amount
        /\ \A k \in Scopes \ {to} : r2[k] = r[k]
    BY DEF Histories
  <1> HIDE DEF r2
  <1>7. Books(paid, b2, s2, r2)
    BY <1>4, <1>5, <1>6, PutBooks
  <1> QED
    BY <1>1, <1>2, <1>4, <1>6, <1>7 DEF s2, r2, b2

-----------------------------------------------------------------------------
(* The specification.                                                       *)

\* No pool, no history: a new ManaManager satisfies the invariant.
LEMMA InitIInv == Init => IInv
  <1> SUFFICES ASSUME Init PROVE IInv
    OBVIOUS
  <1>1. TypeOK
    BY BoundsAssumption DEF Init, TypeOK
  <1>2. Books(pools, born, spent, received)
    BY DEF Init, Books
  <1> QED
    BY <1>1, <1>2 DEF IInv

\* Every operation of the manager, and every move of the clock, keeps it.
\* A transfer of any amount, by a caller or by the distribution worker.
LEMMA TransferIInv ==
    ASSUME IInv, NEW f \in Scopes, NEW t \in Scopes, NEW a \in Nat, Transfer(f, t, a)
    PROVE  IInv'
  <1>a. /\ Books(pools, born, spent, received)
        /\ born \in Histories /\ spent \in Histories /\ received \in Histories
        /\ clock \in Nat
    BY DEF IInv, TypeOK, Histories
  <1>b. ASSUME Books(pools', born', spent', received'), clock' \in Nat,
               born' \in Histories, spent' \in Histories, received' \in Histories
        PROVE  IInv'
    BY <1>b DEF IInv, TypeOK, Books, Histories
  <1>2. /\ pools' = AfterTransfer(pools, f, t, a, clock)
        /\ clock' = clock
        /\ born' = BornWith(pools')
    BY DEF Transfer
  <1>3. CASE CanSpend(pools, f, a, clock)
    <2>1. /\ spent' = [spent EXCEPT ![f] = @ + a]
          /\ received' = [received EXCEPT ![t] = @ + a]
      BY <1>3 DEF Transfer
    <2>2. /\ Books(pools', BornAt(born, pools, t, clock), spent', received')
          /\ spent' \in Histories /\ received' \in Histories
          /\ BornAt(born, pools, t, clock) \in Histories
      BY <1>a, <1>2, <1>3, <2>1, TransferBooks
    <2>3. DOMAIN pools' = DOMAIN pools \cup {t}
      BY <1>2, <1>3 DEF AfterTransfer, AfterSpend, CanSpend, Ensured, Put
    <2>4. born' = BornAt(born, pools, t, clock)
      BY <1>2, <2>3 DEF BornWith, BornAt
    <2> QED
      BY <1>a, <1>b, <1>2, <2>2, <2>4
  <1>4. CASE ~CanSpend(pools, f, a, clock)
    <2>1. /\ spent' = spent /\ received' = received
          /\ pools' = AfterSpend(pools, f, a, clock)
      BY <1>2, <1>4 DEF Transfer, AfterTransfer
    <2>2. /\ Books(pools', born, spent, received)
          /\ DOMAIN pools' = DOMAIN pools
      <3>1. Books(AfterSpend(pools, f, a, clock), born,
                  IF CanSpend(pools, f, a, clock)
                  THEN [spent EXCEPT ![f] = @ + a] ELSE spent, received)
        BY <1>a, SpendBooks
      <3>2. DOMAIN pools' = DOMAIN pools
        BY <2>1 DEF AfterSpend, Put
      <3> QED
        BY <1>4, <2>1, <3>1, <3>2
    <2>3. born' = born
      BY <1>a, <1>2, <2>2 DEF BornWith, Histories
    <2> QED
      BY <1>a, <1>b, <1>2, <2>1, <2>2, <2>3
  <1> QED
    BY <1>3, <1>4

LEMMA NextIInv == IInv /\ [Next]_vars => IInv'
  <1> SUFFICES ASSUME IInv, [Next]_vars PROVE IInv'
    OBVIOUS
  <1> USE AmountsAssumption, RatesAssumption, BoundsAssumption
  <1>0. /\ Books(pools, born, spent, received)
        /\ born \in Histories /\ spent \in Histories /\ received \in Histories
        /\ clock \in Nat
    BY DEF IInv, TypeOK, Histories
  <1>t. ASSUME Books(pools', born', spent', received'), clock' \in Nat,
               born' \in Histories, spent' \in Histories, received' \in Histories
        PROVE  IInv'
    BY <1>t DEF IInv, TypeOK, Books, Histories
  <1>1. ASSUME NEW k \in Scopes, NEW m \in Amounts, NEW g \in Rates, EnsurePool(k, m, g)
        PROVE  IInv'
    <2>1. m \in Nat /\ g \in Nat
      OBVIOUS
    <2>2. pools' = Ensured(pools, k, m, g, clock)
      BY <1>1 DEF EnsurePool
    <2>3. DOMAIN pools' = DOMAIN pools \cup {k}
      BY <2>2 DEF Ensured, Put
    <2>4. born' = BornAt(born, pools, k, clock)
      BY <1>1, <2>3 DEF EnsurePool, BornWith, BornAt
    <2>5. Books(pools', born', spent, received) /\ born' \in Histories
      BY <1>0, <2>1, <2>2, <2>4, EnsuredBooks
    <2>6. spent' = spent /\ received' = received /\ clock' = clock
      BY <1>1 DEF EnsurePool
    <2> QED
      BY <1>0, <1>t, <2>5, <2>6
  <1>2. ASSUME NEW k \in Scopes, Balance(k)
        PROVE  IInv'
    <2>1. /\ k \in DOMAIN pools
          /\ pools' = Put(pools, k, Available(pools[k], clock))
          /\ spent' = spent /\ received' = received /\ clock' = clock /\ born' = born
      BY <1>2 DEF Balance
    <2>2. Sound(pools[k], born[k], spent[k], received[k])
      BY <1>0, <2>1 DEF Books
    <2>3. Sound(Available(pools[k], clock), born[k], spent[k], received[k])
      BY <1>0, <2>2, AvailableSound DEF Histories
    <2>4. Books(pools', born, spent, received)
      BY <1>0, <2>1, <2>3, PutBooks
    <2> QED
      BY <1>0, <1>t, <2>1, <2>4
  <1>3. ASSUME NEW k \in Scopes, NEW a \in Amounts, Spend(k, a)
        PROVE  IInv'
    <2>1. a \in Nat
      OBVIOUS
    <2>2. /\ pools' = AfterSpend(pools, k, a, clock)
          /\ spent' = IF CanSpend(pools, k, a, clock)
                      THEN [spent EXCEPT ![k] = @ + a] ELSE spent
          /\ received' = received /\ clock' = clock /\ born' = born
      BY <1>3 DEF Spend
    <2>3. Books(pools', born, spent', received) /\ spent' \in Histories
      BY <1>0, <2>1, <2>2, SpendBooks
    <2> QED
      BY <1>0, <1>t, <2>2, <2>3
  <1>4. ASSUME NEW f \in Scopes, NEW t \in Scopes, NEW a \in Amounts, Transfer(f, t, a)
        PROVE  IInv'
    <2>1. a \in Nat
      OBVIOUS
    <2> QED
      BY <1>4, <2>1, TransferIInv
  <1>5. ASSUME NEW t \in 0..MaxTime, SetClock(t)
        PROVE  IInv'
    <2>1. /\ pools' = pools /\ spent' = spent /\ received' = received /\ born' = born
          /\ clock' = t /\ t \in Nat
      BY <1>5 DEF SetClock
    <2> QED
      BY <1>0, <1>t, <2>1
  <1>6. ASSUME UNCHANGED vars
        PROVE  IInv'
    <2>1. /\ pools' = pools /\ spent' = spent /\ received' = received /\ born' = born
          /\ clock' = clock
      BY <1>6 DEF vars
    <2> QED
      BY <1>0, <1>t, <2>1
  <1> QED
    BY <1>1, <1>2, <1>3, <1>4, <1>5, <1>6 DEF Next, Operation

\* The state of the manager is always well typed (ManaPool, ManaManager).
THEOREM TypeCorrect == Spec => []TypeOK
  <1>1. IInv => TypeOK
    BY DEF IInv
  <1> QED
    BY <1>1, InitIInv, NextIInv, PTL DEF Spec

\* No pool ever holds more than its maximum (apply_regeneration, credit).
THEOREM NeverAboveMax == Spec => []WithinMax
  <1>1. IInv => WithinMax
    BY DEF IInv, Books, Sound, WithinMax
  <1> QED
    BY <1>1, InitIInv, NextIInv, PTL DEF Spec

\* The metrics hook always knows the balance (available, consume, credit).
THEOREM GaugeExact == Spec => []GaugeTracksBalance
  <1>1. IInv => GaugeTracksBalance
    BY DEF IInv, Books, Sound, GaugeTracksBalance
  <1> QED
    BY <1>1, InitIInv, NextIInv, PTL DEF Spec

\* No second is ever paid for twice, however the wall clock is moved
\* (apply_regeneration).
THEOREM NothingFromNothing == Spec => []WithinBudget
  <1>1. IInv => WithinBudget
    BY DEF IInv, Books, Sound, WithinBudget
  <1> QED
    BY <1>1, InitIInv, NextIInv, PTL DEF Spec

-----------------------------------------------------------------------------
(* Transfers.                                                               *)

\* A pool as ManaManager leaves it when an operation touches it at `now`.
Settled(p, now) == p \in Pool /\ p.current <= p.max /\ p.shown = p.current /\ now <= p.last

\* Regeneration settles a pool.
LEMMA AvailableSettles ==
    ASSUME NEW p \in Pool, p.current <= p.max, p.shown = p.current, NEW now \in Nat
    PROVE  Settled(Available(p, now), now)
  BY AvailableFacts DEF Settled

\* What credit does to a settled pool.
LEMMA CreditSettled ==
    ASSUME NEW p, NEW now \in Nat, NEW amount \in Nat, Settled(p, now)
    PROVE  /\ Settled(Credit(p, amount, now), now)
           /\ p.current <= Credit(p, amount, now).current
           /\ Credit(p, amount, now).current <= p.current + amount
           /\ Credit(p, amount, now).current <= p.max
  <1> DEFINE v == Lesser(p.current + amount, p.max)
  <1>1. Available(p, now) = p
    BY TouchedStays DEF Settled
  <1>2. Credit(p, amount, now)
          = IF v # p.current THEN [p EXCEPT !.current = v, !.shown = v] ELSE p
    BY <1>1 DEF Credit
  <1>3. v \in Nat /\ v <= p.max /\ v <= p.current + amount /\ p.current <= v
    BY DEF Settled, Pool, Lesser
  <1> HIDE DEF v
  <1> QED
    BY <1>2, <1>3 DEF Settled, Pool

\* What consume does to a pool that can pay.
LEMMA ConsumeSettles ==
    ASSUME NEW p \in Pool, p.current <= p.max, p.shown = p.current, NEW now \in Nat,
           NEW amount \in Nat, CanConsume(p, amount, now)
    PROVE  /\ Settled(Consume(p, amount, now), now)
           /\ Consume(p, amount, now).current = Available(p, now).current - amount
           /\ amount <= Available(p, now).current
  <1> DEFINE q == Available(p, now)
  <1>1. Settled(q, now)
    BY AvailableSettles
  <1>2. /\ q.current >= amount
        /\ Consume(p, amount, now)
             = [q EXCEPT !.current = q.current - amount, !.shown = q.current - amount]
    BY DEF CanConsume, Consume
  <1> HIDE DEF q
  <1>3. q.current - amount \in Nat /\ q.current - amount <= q.max
    BY <1>1, <1>2 DEF Settled, Pool
  <1>4. /\ Settled(Consume(p, amount, now), now)
        /\ Consume(p, amount, now).current = q.current - amount
        /\ amount <= q.current
    BY <1>1, <1>2, <1>3 DEF Settled, Pool
  <1> QED
    BY <1>4 DEF q

\* The worth of a settled pool is what it holds.
LEMMA SettledWorth ==
    ASSUME NEW ps, NEW k \in DOMAIN ps, NEW now \in Nat, Settled(ps[k], now)
    PROVE  Worth(ps, k, now) = ps[k].current
  <1>1. Available(ps[k], now) = ps[k]
    BY TouchedStays DEF Settled
  <1> QED
    BY <1>1 DEF Worth

\* What ensure_pool gives its caller: the pool of the scope brought up to date,
\* or a new one that is full.
LEMMA EnsuredSettles ==
    ASSUME NEW ps, NEW k \in Scopes, NEW max \in Nat, NEW regen \in Nat, NEW now \in Nat,
           k \in DOMAIN ps => ps[k] \in Pool /\ ps[k].current <= ps[k].max
    PROVE  LET e == Ensured(ps, k, max, regen, now)[k]
           IN  /\ Settled(e, now)
               /\ k \in DOMAIN ps => e.current = Available(ps[k], now).current
               /\ k \notin DOMAIN ps => e.max = max
  <1> DEFINE p == IF k \in DOMAIN ps THEN ps[k] ELSE NewPool(max, regen, now)
             q == Available(p, now)
             e == Ensured(ps, k, max, regen, now)[k]
  <1>1. e = [q EXCEPT !.shown = q.current]
    BY DEF Ensured, Put
  <1>2. p \in Pool /\ p.current <= p.max /\ (k \notin DOMAIN ps => p.max = max)
    BY DEF NewPool, Pool
  <1> HIDE DEF p, e
  <1>3. q \in Pool /\ q.current <= q.max /\ now <= q.last /\ q.max = p.max
    BY <1>2, AvailableFacts
  <1>4. k \in DOMAIN ps => q = Available(ps[k], now)
    BY DEF p
  <1> HIDE DEF q
  <1>5. /\ Settled(e, now) /\ e.current = q.current /\ e.max = q.max
    BY <1>1, <1>3 DEF Settled, Pool
  <1>6. k \in DOMAIN ps => e.current = Available(ps[k], now).current
    BY <1>4, <1>5
  <1>7. k \notin DOMAIN ps => e.max = max
    BY <1>2, <1>3, <1>5
  <1> QED
    BY <1>5, <1>6, <1>7 DEF e

\* A transfer from any state of the books is all or nothing.
LEMMA TransferStep ==
    ASSUME IInv, NEW from \in Scopes, NEW to \in Scopes, NEW amount \in Amounts,
           Transfer(from, to, amount)
    PROVE  AllOrNothing(from, to, amount)
  <1>0. clock \in Nat /\ amount \in Nat
    BY AmountsAssumption DEF IInv, TypeOK
  <1>1. \A k \in DOMAIN pools :
           k \in Scopes /\ pools[k] \in Pool /\ pools[k].current <= pools[k].max
             /\ pools[k].shown = pools[k].current
    BY DEF IInv, Books, Sound
  <1>2. pools' = AfterTransfer(pools, from, to, amount, clock)
    BY DEF Transfer
  <1>3. CASE ~CanSpend(pools, from, amount, clock)
    <2>1. pools' = AfterSpend(pools, from, amount, clock)
      BY <1>2, <1>3 DEF AfterTransfer
    <2>2. ASSUME NEW k \in Scopes
          PROVE  Worth(pools', k, clock) = Worth(pools, k, clock)
      <3>1. CASE from \notin DOMAIN pools
        BY <2>1, <3>1 DEF AfterSpend
      <3>2. CASE from \in DOMAIN pools
        <4>1. Consume(pools[from], amount, clock) = Available(pools[from], clock)
          BY <1>3, <3>2 DEF CanSpend, CanConsume, Consume
        <4>2. pools' = Put(pools, from, Available(pools[from], clock))
          BY <2>1, <3>2, <4>1 DEF AfterSpend
        <4>3. CASE k = from
          <5>1. Settled(Available(pools[from], clock), clock)
            BY <1>0, <1>1, <3>2, AvailableSettles
          <5>2. from \in DOMAIN pools' /\ pools'[from] = Available(pools[from], clock)
            BY <4>2 DEF Put
          <5>3. Worth(pools', from, clock) = pools'[from].current
            BY <1>0, <5>1, <5>2, SettledWorth
          <5> QED
            BY <3>2, <4>3, <5>2, <5>3 DEF Worth
        <4>4. CASE k # from
          BY <4>2, <4>4 DEF Worth, Put
        <4> QED
          BY <4>3, <4>4
      <3> QED
        BY <3>1, <3>2
    <2> QED
      BY <2>2 DEF AllOrNothing
  <1>4. CASE CanSpend(pools, from, amount, clock)
    <2> DEFINE less == Consume(pools[from], amount, clock)
               debited == Put(pools, from, less)
               ready == Ensured(debited, to, amount, 1, clock)
               given == Credit(ready[to], amount, clock)
    <2>1. from \in DOMAIN pools /\ CanConsume(pools[from], amount, clock)
      BY <1>4 DEF CanSpend
    <2>2. pools' = Put(ready, to, given)
      BY <1>2, <1>4, <2>1 DEF AfterTransfer, AfterSpend
    <2>3. /\ Settled(less, clock)
          /\ less.current = Worth(pools, from, clock) - amount
          /\ amount <= Worth(pools, from, clock)
      BY <1>0, <1>1, <2>1, ConsumeSettles DEF Worth
    <2> HIDE DEF less
    <2>4. /\ DOMAIN debited = DOMAIN pools
          /\ debited[from] = less
          /\ \A k \in DOMAIN pools : k # from => debited[k] = pools[k]
      BY <2>1 DEF Put
    <2> HIDE DEF debited
    <2>5. \A k \in DOMAIN debited : debited[k] \in Pool /\ debited[k].current <= debited[k].max
      BY <1>1, <2>3, <2>4 DEF Settled
    <2>6. /\ Settled(ready[to], clock)
          /\ to \in DOMAIN debited => ready[to].current = Available(debited[to], clock).current
          /\ to \notin DOMAIN debited => ready[to].max = amount
      <3>1. 1 \in Nat
        OBVIOUS
      <3> QED
        BY <1>0, <2>5, <3>1, EnsuredSettles
    <2>7. /\ DOMAIN ready = DOMAIN pools \cup {to}
          /\ \A k \in DOMAIN pools : k # to => ready[k] = debited[k]
      BY <2>4 DEF Ensured, Put
    <2> HIDE DEF ready
    <2>8. /\ Settled(given, clock)
          /\ given.current <= ready[to].current + amount
          /\ given.current <= ready[to].max
      BY <1>0, <2>6, CreditSettled
    <2> HIDE DEF given
    <2>9. /\ DOMAIN pools' = DOMAIN pools \cup {to}
          /\ pools'[to] = given
          /\ \A k \in DOMAIN pools : k # to => pools'[k] = debited[k]
      BY <2>2, <2>7 DEF Put
    <2>10. Worth(pools', to, clock) = given.current
      BY <1>0, <2>8, <2>9, SettledWorth
    <2>11. ASSUME NEW k \in Scopes \ {from, to}
           PROVE  Worth(pools', k, clock) = Worth(pools, k, clock)
      BY <2>4, <2>9 DEF Worth
    <2>12. CASE from # to
      <3>1. from \in DOMAIN pools' /\ pools'[from] = less
        BY <2>1, <2>4, <2>9, <2>12
      <3>2. Worth(pools', from, clock) = Worth(pools, from, clock) - amount
        BY <1>0, <2>3, <3>1, SettledWorth
      <3>3. Worth(pools', to, clock) <= Worth(pools, to, clock) + amount
        <4>1. CASE to \in DOMAIN pools
          <5>1. ready[to].current = Worth(pools, to, clock)
            BY <2>4, <2>6, <2>12, <4>1 DEF Worth
          <5> QED
            BY <2>8, <2>10, <5>1
        <4>2. CASE to \notin DOMAIN pools
          <5>1. Worth(pools, to, clock) = 0 /\ ready[to].max = amount
            BY <2>4, <2>6, <4>2 DEF Worth
          <5> QED
            BY <1>0, <2>8, <2>10, <5>1
        <4> QED
          BY <4>1, <4>2
      <3> QED
        BY <1>0, <2>3, <2>11, <2>12, <3>2, <3>3 DEF AllOrNothing, Settled, Pool
    <2>13. CASE from = to
      <3>1. ready[to].current = less.current
        <4>1. Available(less, clock) = less
          BY <1>0, <2>3, TouchedStays DEF Settled
        <4> QED
          BY <2>1, <2>4, <2>6, <2>13, <4>1
      <3>2. Worth(pools, from, clock) \in Nat
        BY <1>0, <1>1, <2>1, AvailableFacts DEF Worth, Pool
      <3>3. Worth(pools', from, clock) <= Worth(pools, from, clock)
        <4>1. Worth(pools', from, clock) = given.current
          BY <2>10, <2>13
        <4>2. given.current <= (Worth(pools, from, clock) - amount) + amount
          BY <2>3, <2>8, <3>1
        <4> QED
          BY <1>0, <3>2, <4>1, <4>2
      <3> QED
        BY <1>0, <2>3, <2>11, <2>13, <3>2, <3>3 DEF AllOrNothing
    <2> QED
      BY <2>12, <2>13
  <1> QED
    BY <1>3, <1>4

\* transfer is all or nothing and mints nothing ("Atomically transfer mana
\* between scopes", ManaManager::transfer).
THEOREM TransferIsAtomic == Spec => TransferAtomic
  <1>1. IInv /\ [Next]_vars
          => [\A f, t \in Scopes, a \in Amounts : Transfer(f, t, a) => AllOrNothing(f, t, a)]_vars
    BY TransferStep
  <1> QED
    BY <1>1, InitIInv, NextIInv, PTL DEF Spec, TransferAtomic

\* The manager's promises of its pools together (manager.rs).
THEOREM PoolsAreSound == Spec => []PoolsSound
  <1>1. TypeOK /\ WithinMax /\ GaugeTracksBalance /\ WithinBudget => PoolsSound
    BY DEF PoolsSound
  <1> QED
    BY <1>1, TypeCorrect, NeverAboveMax, GaugeExact, NothingFromNothing, PTL

-----------------------------------------------------------------------------
(* The distribution worker.                                                 *)

\* What the tick has promised is in the node's pool itself, not only in what
\* the pool would regenerate: the clock may be set back before it is paid.
Kept ==
    /\ phase # "idle" => NodeScope \in DOMAIN pools
    /\ phase = "querying" => pools[NodeScope].current >= floor + payout
    /\ phase = "paying" => pools[NodeScope].current >= floor + share * Cardinality(todo)

DInv == IInv /\ DTypeOK /\ NeverShort /\ IsFiniteSet(DOMAIN anchored) /\ Kept

\* A balance read again is worth no less than what the pool holds.
LEMMA WorthFacts ==
    ASSUME IInv, NEW k \in DOMAIN pools
    PROVE  /\ k \in Scopes /\ pools[k] \in Pool /\ pools[k].current \in Nat
           /\ Worth(pools, k, clock) = Available(pools[k], clock).current
           /\ Worth(pools, k, clock) \in Nat
           /\ Worth(pools, k, clock) >= pools[k].current
  <1>1. /\ k \in Scopes /\ pools[k] \in Pool /\ pools[k].current <= pools[k].max /\ clock \in Nat
    BY DEF IInv, TypeOK, Books, Sound
  <1>2. /\ Available(pools[k], clock) \in Pool
        /\ pools[k].current <= Available(pools[k], clock).current
    BY <1>1, AvailableFacts
  <1> QED
    BY <1>1, <1>2 DEF Worth, Pool

\* The source of a transfer that can pay is left with its worth less the
\* amount, or with more when it pays itself.
LEMMA SourceKeeps ==
    ASSUME IInv, NEW from \in Scopes, NEW to \in Scopes, NEW amount \in Nat,
           Transfer(from, to, amount), CanSpend(pools, from, amount, clock)
    PROVE  /\ from \in DOMAIN pools'
           /\ pools'[from] \in Pool
           /\ pools'[from].current >= Worth(pools, from, clock) - amount
  <1> DEFINE rest == Consume(pools[from], amount, clock)
             debited == Put(pools, from, rest)
             ready == Ensured(debited, to, amount, 1, clock)
             given == Credit(ready[to], amount, clock)
  <1>1. /\ from \in DOMAIN pools /\ CanConsume(pools[from], amount, clock)
        /\ pools' = Put(ready, to, given)
    BY DEF CanSpend, Transfer, AfterTransfer, AfterSpend
  <1>2. clock \in Nat /\ pools[from] \in Pool /\ pools[from].current <= pools[from].max
        /\ pools[from].shown = pools[from].current
    BY <1>1 DEF IInv, TypeOK, Books, Sound
  <1>3. Settled(rest, clock) /\ rest.current = Worth(pools, from, clock) - amount
    BY <1>1, <1>2, ConsumeSettles DEF Worth
  <1> HIDE DEF rest
  <1>4. DOMAIN debited = DOMAIN pools /\ debited[from] = rest
    BY <1>1 DEF Put
  <1> HIDE DEF debited
  <1>5. CASE from # to
    <2>1. from \in DOMAIN ready /\ ready[from] = debited[from]
      BY <1>1, <1>4, <1>5 DEF Ensured, Put
    <2> HIDE DEF ready, given
    <2>2. from \in DOMAIN pools' /\ pools'[from] = rest
      BY <1>1, <1>4, <1>5, <2>1 DEF Put
    <2>3. rest \in Pool /\ rest.current \in Nat
      BY <1>3 DEF Settled, Pool
    <2> QED
      BY <1>3, <2>2, <2>3
  <1>6. CASE from = to
    <2>1. debited[to] \in Pool /\ debited[to].current <= debited[to].max /\ to \in DOMAIN debited
      BY <1>1, <1>3, <1>4, <1>6 DEF Settled
    <2>2. 1 \in Nat
      OBVIOUS
    <2>3. Settled(ready[to], clock) /\ ready[to].current = Available(debited[to], clock).current
      BY <1>2, <2>1, <2>2, EnsuredSettles
    <2>4. Available(debited[to], clock) = rest
      BY <1>2, <1>3, <1>4, <1>6, TouchedStays DEF Settled
    <2> HIDE DEF ready
    <2>5. Settled(given, clock) /\ ready[to].current <= given.current
      BY <1>2, <2>3, CreditSettled
    <2> HIDE DEF given
    <2>6. from \in DOMAIN pools' /\ pools'[from] = given
      BY <1>1, <1>6 DEF Put
    <2>7. given \in Pool /\ given.current \in Nat
      BY <2>5 DEF Settled, Pool
    <2>8. given.current >= rest.current
      BY <2>3, <2>4, <2>5, <2>7
    <2> QED
      BY <1>3, <2>6, <2>7, <2>8
  <1> QED
    BY <1>5, <1>6

\* The payout is at most what the node has.
LEMMA TenthFacts ==
    ASSUME NEW b \in Nat
    PROVE  LET amount == (b * FractionPercent) \div 100
           IN  amount \in Nat /\ amount <= b
  BY DEF FractionPercent

\* The shares of a payout do not exceed it.
LEMMA ShareFacts ==
    ASSUME NEW p \in Nat, NEW n \in Nat \ {0}
    PROVE  (p \div n) \in Nat /\ (p \div n) * n <= p
  OBVIOUS

LEMMA DInitInv == DInit => DInv
  <1> SUFFICES ASSUME DInit PROVE DInv
    OBVIOUS
  <1>1. IInv
    BY InitIInv DEF DInit
  <1>2. DTypeOK
    BY IntervalAssumption DEF DInit, DTypeOK
  <1>3. IsFiniteSet(DOMAIN anchored)
    <2>1. DOMAIN anchored = {}
      BY DEF DInit
    <2> QED
      BY <2>1, FS_EmptySet
  <1> QED
    BY <1>1, <1>2, <1>3 DEF DInit, DInv, NeverShort, Kept

\* The pools change; the worker and the receipts do not.
LEMMA OthersInv ==
    ASSUME DInv, OtherOperation \/ \E t \in 0..MaxTime : PassTime(t)
    PROVE  DInv'
  <1>1. UNCHANGED <<anchored, workerVars>>
    BY DEF OtherOperation, PassTime
  <1>2. IInv'
    BY NextIInv DEF DInv, OtherOperation, PassTime, Next
  <1>3. DTypeOK' /\ NeverShort' /\ IsFiniteSet(DOMAIN anchored')
    BY <1>1 DEF DInv, DTypeOK, NeverShort, workerVars
  <1>4. Kept'
    <2>1. CASE phase = "idle"
      BY <1>1, <2>1 DEF Kept, workerVars
    <2>2. CASE phase # "idle"
      <3>1. pools' = pools
        BY <2>2 DEF OtherOperation, MutexFree, PassTime, SetClock
      <3> QED
        BY <1>1, <3>1 DEF DInv, Kept, workerVars
    <2> QED
      BY <2>1, <2>2
  <1> QED
    BY <1>2, <1>3, <1>4 DEF DInv

LEMMA AnchorInv ==
    ASSUME DInv, NEW r \in ReceiptNodes, NEW o \in Scopes, Anchor(r, o)
    PROVE  DInv'
  <1>1. UNCHANGED <<vars, workerVars>>
    BY DEF Anchor
  <1>2. IInv'
    BY <1>1, NextIInv DEF DInv
  <1> DEFINE new == [ts |-> clock, origin |-> o]
  <1>3. anchored' = Put(anchored, r, new) /\ new \in [ts : Nat, origin : Scopes]
    BY DEF Anchor, DInv, IInv, TypeOK
  <1> HIDE DEF new
  <1>4. DOMAIN anchored' = DOMAIN anchored \cup {r}
    BY <1>3 DEF Put
  <1>5. IsFiniteSet(DOMAIN anchored')
    BY <1>4, FS_AddElement DEF DInv
  <1>6. anchored' \in [DOMAIN anchored' -> [ts : Nat, origin : Scopes]]
    BY <1>3 DEF DInv, DTypeOK, Put
  <1>7. DTypeOK'
    BY <1>1, <1>4, <1>6 DEF DInv, DTypeOK, workerVars
  <1> QED
    BY <1>1, <1>2, <1>5, <1>7 DEF DInv, NeverShort, Kept, workerVars, vars

LEMMA IntervalInv ==
    ASSUME DInv, IntervalPasses PROVE DInv'
  <1>1. UNCHANGED <<vars, anchored, taken, phase, payout, since, share, todo, floor, refused>>
    BY DEF IntervalPasses
  <1>2. IInv'
    BY <1>1, NextIInv DEF DInv
  <1>3. elapsed' \in 0..MaxIntervals /\ taken' \in 0..(elapsed' + 1)
    BY IntervalAssumption DEF IntervalPasses, DInv, DTypeOK
  <1>4. DTypeOK'
    BY <1>1, <1>3 DEF DInv, DTypeOK
  <1> QED
    BY <1>1, <1>2, <1>4 DEF DInv, NeverShort, Kept, vars

LEMMA TickBeginInv ==
    ASSUME DInv, TickBegin PROVE DInv'
  <1> DEFINE balance == Worth(pools, NodeScope, clock)
             amount == (balance * FractionPercent) \div 100
  <1>0. IInv /\ DTypeOK /\ clock \in Nat /\ phase = "idle" /\ taken <= elapsed
    BY DEF DInv, IInv, TypeOK, TickBegin, TickDue
  <1>1. UNCHANGED <<clock, spent, received, born, anchored, elapsed, share, todo>> /\ refused' = 0
        /\ taken' = taken + 1
    BY DEF TickBegin
  <1>2. IInv'
    <2>1. CASE NodeScope \in DOMAIN pools
      <3>1. Balance(NodeScope)
        BY <1>1, <2>1 DEF TickBegin, Balance
      <3> QED
        BY <1>0, <3>1, NextIInv, NodeScopeAssumption DEF Next, Operation
    <2>2. CASE NodeScope \notin DOMAIN pools
      BY <1>0, <1>1, <2>2, NextIInv DEF TickBegin, vars
    <2> QED
      BY <2>1, <2>2
  <1>3. balance \in Nat /\ (NodeScope \notin DOMAIN pools => balance = 0)
    BY <1>0, WorthFacts DEF Worth
  <1>4. amount \in Nat /\ amount <= balance
    <2> HIDE DEF balance
    <2> QED
      BY <1>3, TenthFacts
  <1>5. CASE amount = 0
    <2>1. UNCHANGED <<phase, payout, since, floor>>
      BY <1>5 DEF TickBegin
    <2>2. DTypeOK'
      BY <1>0, <1>1, <2>1 DEF DTypeOK
    <2> QED
      BY <1>0, <1>1, <1>2, <2>1, <2>2 DEF DInv, NeverShort, Kept
  <1>6. CASE amount # 0
    <2>1. /\ phase' = "querying" /\ payout' = amount
          /\ since' = clock - Interval /\ floor' = balance - amount
      BY <1>6 DEF TickBegin
    <2>2. NodeScope \in DOMAIN pools
      <3>1. balance = 0 => amount = 0
        <4> HIDE DEF balance
        <4> QED
          BY <1>3, <1>4
      <3> QED
        BY <1>3, <1>6, <3>1
    <2>3. /\ NodeScope \in DOMAIN pools'
          /\ pools'[NodeScope].current = balance
      BY <1>0, <2>2, WorthFacts DEF TickBegin, Put
    <2> HIDE DEF balance, amount
    <2>4. clock - Interval \in Int /\ balance - amount \in Nat
      BY <1>0, <1>3, <1>4, IntervalAssumption
    <2>5. DTypeOK'
      BY <1>0, <1>1, <1>4, <2>1, <2>4 DEF DTypeOK
    <2>6. Kept'
      BY <1>3, <1>4, <2>1, <2>3 DEF Kept
    <2> QED
      BY <1>1, <1>2, <2>5, <2>6 DEF DInv, NeverShort
  <1> QED
    BY <1>5, <1>6

\* Ending a tick keeps nothing of it.
LEMMA EndTickInv ==
    ASSUME DInv, EndTick, UNCHANGED <<vars, anchored, elapsed, taken, refused, todo>>
    PROVE  DInv'
  <1>1. IInv'
    BY NextIInv DEF DInv
  <1>2. DTypeOK'
    BY DEF DInv, DTypeOK, EndTick
  <1> QED
    BY <1>1, <1>2 DEF DInv, NeverShort, Kept, EndTick

LEMMA QueryEventsInv ==
    ASSUME DInv, QueryEvents PROVE DInv'
  <1>1. /\ phase = "querying" /\ UNCHANGED <<vars, anchored, elapsed, taken, refused>>
    BY DEF QueryEvents
  <1>2. CASE Found = {}
    BY <1>1, <1>2, EndTickInv DEF QueryEvents
  <1>3. CASE Found # {}
    <2> DEFINE n == Cardinality(Found)
               each == payout \div n
    <2>1. /\ phase' = "paying" /\ share' = each /\ todo' = Found
          /\ UNCHANGED <<payout, since, floor>>
      BY <1>3 DEF QueryEvents, BeginPaying
    <2>2. Found \subseteq DOMAIN anchored /\ IsFiniteSet(Found)
      BY FS_Subset DEF Found, DInv
    <2>3. n \in Nat \ {0}
      <3>1. n \in Nat
        BY <2>2, FS_CardinalityType
      <3>2. n # 0
        BY <1>3, <2>2, FS_EmptySet
      <3> QED
        BY <3>1, <3>2
    <2>4. payout \in Nat /\ floor \in Nat
      BY DEF DInv, DTypeOK
    <2>5. each \in Nat /\ each * n <= payout
      <3> HIDE DEF n
      <3> QED
        BY <2>3, <2>4, ShareFacts
    <2>6. IInv'
      BY <1>1, NextIInv DEF DInv
    <2>7. DTypeOK'
      BY <1>1, <2>1, <2>2, <2>4, <2>5 DEF DInv, DTypeOK
    <2>8. Kept'
      <3>1. NodeScope \in DOMAIN pools /\ pools[NodeScope].current >= floor + payout
            /\ pools[NodeScope].current \in Nat
        BY <1>1, WorthFacts DEF DInv, Kept
      <3>2. share' * Cardinality(todo') = each * n
        BY <2>1
      <3> HIDE DEF each, n
      <3>3. each * n \in Nat
        BY <2>3, <2>5
      <3>4. pools'[NodeScope].current >= floor' + share' * Cardinality(todo')
        BY <1>1, <2>1, <2>4, <2>5, <3>1, <3>2, <3>3 DEF vars
      <3> QED
        BY <1>1, <2>1, <3>1, <3>4 DEF Kept, vars
    <2> QED
      BY <1>1, <2>6, <2>7, <2>8 DEF DInv, NeverShort
  <1> QED
    BY <1>2, <1>3

\* One payment: it can be made, and what is left covers the others.
LEMMA PayOneFacts ==
    ASSUME DInv, NEW r \in ReceiptNodes, PayOne(r)
    PROVE  /\ IInv' /\ refused' = 0
           /\ NodeScope \in DOMAIN pools'
           /\ pools'[NodeScope].current \in Nat
           /\ IsFiniteSet(todo') /\ Cardinality(todo') \in Nat
           /\ pools'[NodeScope].current >= floor + share * Cardinality(todo')
  <1>1. /\ phase = "paying" /\ r \in todo /\ todo' = todo \ {r}
        /\ Transfer(NodeScope, anchored[r].origin, share)
        /\ refused' = IF CanSpend(pools, NodeScope, share, clock) THEN refused ELSE refused + 1
    BY DEF PayOne
  <1>2. /\ todo \subseteq DOMAIN anchored /\ share \in Nat /\ floor \in Nat /\ refused = 0
        /\ anchored \in [DOMAIN anchored -> [ts : Nat, origin : Scopes]]
    BY DEF DInv, DTypeOK, NeverShort
  <1>3. anchored[r].origin \in Scopes
    BY <1>1, <1>2
  <1> DEFINE n == Cardinality(todo)
  <1>4. IsFiniteSet(todo) /\ n \in Nat
    BY <1>2, FS_Subset, FS_CardinalityType DEF DInv
  <1>5. IsFiniteSet(todo') /\ Cardinality(todo') = n - 1
    BY <1>1, <1>4, FS_RemoveElement
  <1>6. n - 1 \in Nat
    BY <1>5, FS_CardinalityType
  <1> DEFINE w == Worth(pools, NodeScope, clock)
  <1>7. /\ NodeScope \in DOMAIN pools /\ w \in Nat /\ w >= pools[NodeScope].current
        /\ pools[NodeScope].current \in Nat /\ pools[NodeScope].current >= floor + share * n
    BY <1>1, WorthFacts DEF DInv, Kept
  <1>8. w = Available(pools[NodeScope], clock).current
    BY <1>7 DEF Worth
  <1> HIDE DEF n, w
  <1>9. share * n = share * (n - 1) + share /\ share * (n - 1) \in Nat
    BY <1>2, <1>4, <1>6
  <1>10. w >= floor + share * (n - 1) + share
    BY <1>2, <1>7, <1>9
  <1>11. CanSpend(pools, NodeScope, share, clock)
    BY <1>2, <1>7, <1>8, <1>9, <1>10 DEF CanSpend, CanConsume
  <1>12. IInv'
    BY <1>1, <1>2, <1>3, NodeScopeAssumption, TransferIInv DEF DInv
  <1>13. /\ NodeScope \in DOMAIN pools' /\ pools'[NodeScope] \in Pool
         /\ pools'[NodeScope].current >= w - share
    BY <1>1, <1>2, <1>3, <1>11, NodeScopeAssumption, SourceKeeps DEF DInv, w
  <1>14. pools'[NodeScope].current \in Nat
    BY <1>13 DEF Pool
  <1>15. pools'[NodeScope].current >= floor + share * (n - 1)
    BY <1>2, <1>7, <1>9, <1>10, <1>13, <1>14
  <1> QED
    BY <1>1, <1>2, <1>5, <1>6, <1>11, <1>12, <1>13, <1>14, <1>15

LEMMA PayOneInv ==
    ASSUME DInv, NEW r \in ReceiptNodes, PayOne(r)
    PROVE  DInv'
  <1>1. /\ UNCHANGED <<anchored, elapsed, taken>> /\ todo' = todo \ {r} /\ phase = "paying"
        /\ IF todo' = {} THEN EndTick ELSE UNCHANGED <<phase, payout, since, share, floor>>
    BY DEF PayOne
  <1>2. DTypeOK'
    BY <1>1, PayOneFacts DEF DInv, DTypeOK, EndTick
  <1>3. Kept'
    BY <1>1, PayOneFacts DEF Kept, EndTick
  <1> QED
    BY <1>1, <1>2, <1>3, PayOneFacts DEF DInv, NeverShort

LEMMA DNextInv == DInv /\ [DNext]_allVars => DInv'
  <1> SUFFICES ASSUME DInv, [DNext]_allVars PROVE DInv'
    OBVIOUS
  <1>1. CASE UNCHANGED allVars
    <2>1. UNCHANGED <<vars, anchored, workerVars>>
      BY <1>1 DEF allVars
    <2>2. IInv'
      BY <2>1, NextIInv DEF DInv
    <2> QED
      BY <2>1, <2>2 DEF DInv, DTypeOK, NeverShort, Kept, workerVars, vars
  <1>2. CASE QueryFails
    BY <1>2, EndTickInv DEF QueryFails
  <1> QED
    BY <1>1, <1>2, OthersInv, AnchorInv, IntervalInv, TickBeginInv, QueryEventsInv, PayOneInv
       DEF DNext

\* A tick that has begun can be finished: receipts arrive and the clock moves
\* either way while it waits, and no transfer of its loop is refused
\* (DistributionWorker::tick).
THEOREM TicksAreCovered == DSpec => []TickCovered
  <1>1. DInv => TickCovered
    <2> SUFFICES ASSUME DInv PROVE Covered
      BY DEF DInv, TickCovered
    <2>1. CASE phase = "idle"
      BY <2>1 DEF Covered
    <2>2. CASE phase # "idle"
      <3> DEFINE w == Worth(pools, NodeScope, clock)
                 c == pools[NodeScope].current
      <3>1. NodeScope \in DOMAIN pools /\ w \in Nat /\ c \in Nat /\ w >= c
        BY <2>2, WorthFacts DEF DInv, Kept
      <3>2. /\ phase = "querying" => c >= floor + payout
            /\ phase = "paying" => c >= floor + share * Cardinality(todo)
        BY DEF DInv, Kept
      <3>3. floor \in Nat /\ payout \in Nat /\ share \in Nat /\ Cardinality(todo) \in Nat
        BY FS_Subset, FS_CardinalityType DEF DInv, DTypeOK
      <3> DEFINE s == share * Cardinality(todo)
      <3>4. s \in Nat
        BY <3>3
      <3> HIDE DEF w, c, s
      <3>5. /\ phase = "querying" => w >= floor + payout
            /\ phase = "paying" => w >= floor + s
        BY <3>1, <3>2, <3>3, <3>4 DEF s
      <3> QED
        BY <3>5 DEF Covered, w, s
    <2> QED
      BY <2>1, <2>2
  <1> QED
    BY <1>1, DInitInv, DNextInv, PTL DEF DSpec

\* After every payment of a tick the node has at least nine tenths of what it
\* had when the tick began ("redistributes a fixed percentage", tick()).
THEOREM FractionIsHeld == DSpec => FractionHeld
  <1>1. DInv /\ [DNext]_allVars
          => [\A r \in ReceiptNodes : PayOne(r) => Worth(pools', NodeScope, clock) >= floor]_allVars
    <2> SUFFICES ASSUME DInv, NEW r \in ReceiptNodes, PayOne(r)
                 PROVE  Worth(pools', NodeScope, clock) >= floor
      OBVIOUS
    <2>1. clock' = clock
      BY DEF PayOne, Transfer
    <2> DEFINE p == pools'[NodeScope]
    <2>2. NodeScope \in DOMAIN pools' /\ p.current \in Nat /\ floor \in Nat /\ share \in Nat
          /\ Cardinality(todo') \in Nat /\ p.current >= floor + share * Cardinality(todo')
      BY PayOneFacts DEF DInv, DTypeOK
    <2>3. p \in Pool /\ p.current <= p.max /\ clock \in Nat
      BY <2>1, <2>2, PayOneFacts DEF IInv, TypeOK, Books, Sound
    <2>4. Available(p, clock).current >= p.current /\ Available(p, clock).current \in Nat
      <3> HIDE DEF p
      <3>1. Available(p, clock) \in Pool /\ p.current <= Available(p, clock).current
        BY <2>3, AvailableFacts
      <3> QED
        BY <3>1 DEF Pool
    <2> DEFINE s == share * Cardinality(todo')
    <2>5. s \in Nat /\ p.current >= floor + s
      BY <2>2
    <2> HIDE DEF p, s
    <2>6. Available(p, clock).current >= floor
      BY <2>2, <2>4, <2>5
    <2> QED
      BY <2>2, <2>6 DEF Worth, p
  <1> QED
    BY <1>1, DInitInv, DNextInv, PTL DEF DSpec, FractionHeld


-----------------------------------------------------------------------------
(* The runtime.                                                             *)

ProposalStates == {"Created", "Voting", "Approved", "Rejected", "Executed"}

ProposalRecord == [state : ProposalStates, quorum : Quorum]

Store == [proposal : [Proposals -> ProposalRecord],
          wasm : SUBSET (Proposals \cup PolledJobs),
          receipt : SUBSET Receipts,
          done : [Proposals -> Nat]]

ExecCall == [pc : ExecStages, p : Proposals, copy : ProposalRecord, seen : Nat]
AnchorCall == [pc : AnchorStages, r : Receipts]

RuntimeState ==
    /\ db \in Store /\ disk \in Store
    /\ dag \in SUBSET Receipts /\ key \in Keys
    /\ issued \in [Receipts -> [issuer : Keys, signer : Keys] \cup {Unset}]
    /\ task \in [Tasks -> {Idle} \cup ExecCall \cup AnchorCall]
    /\ loop \in {Idle} \cup [pc : {"process", "anchor1", "anchor2", "report"}, j : PolledJobs]
    /\ posted \in [Receipts -> [reputation : Nat, mana : Nat]]
    /\ jobRuns \in [PolledJobs -> [executed : Nat, charged : Nat]]
    /\ crashes \in Nat /\ ops \in Nat

\* A store in which a proposal has been executed only if it is marked, and is
\* marked only with a reached quorum and a stored module.
StoreSound(s) ==
    \A p \in Proposals :
        /\ s.proposal[p].state # "Executed" => s.done[p] = 0
        /\ s.proposal[p].state = "Executed" => s.proposal[p].quorum \in Reached /\ p \in s.wasm

\* A call of execute_proposal works on a copy that passed the checks, of a
\* proposal that had not been executed.
CallSound(t) ==
    /\ task[t].pc \in ExecStages => task[t].copy.quorum \in Reached /\ task[t].seen = 0
    /\ task[t].pc = "exec_update" => task[t].p \in db.wasm
    /\ task[t].pc \in AnchorStages => task[t].r \in dag
    /\ task[t].pc \in {"reputation", "mana"} => task[t].r \in db.receipt

VerifiedReceipts == \A r \in dag \cup db.receipt \cup disk.receipt : VerifySignature(r)

\* Two anchorings follow an execution, in process_polled_job and in
\* run_forever: a job is charged twice per execution, less what a crash cut
\* off, where full_loop_test.rs expects one deduction (OneChargePerExecution);
\* a job that failed is not charged.
TwoChargesPerExecution ==
    \A j \in PolledJobs :
        LET left == CASE loop.pc = "anchor1" /\ loop.j = j -> 2
                      [] loop.pc = "anchor2" /\ loop.j = j -> 1
                      [] OTHER -> 0
            due == IF JobCost(JobParams[j]) > 0 THEN 2 * jobRuns[j].executed - left ELSE 0
        IN  jobRuns[j].charged \in due - 2 * crashes .. due

RuntimeInv ==
    /\ RuntimeState
    /\ StoreSound(db) /\ StoreSound(disk)
    /\ \A t \in Tasks : CallSound(t)
    /\ VerifiedReceipts
    /\ ReportedIsAnchored
    /\ TwoChargesPerExecution


-----------------------------------------------------------------------------
\* What the stage of a task or of the loop says of its other fields.
LEMMA Stages ==
    ASSUME RuntimeState
    PROVE  /\ \A t \in Tasks : task[t].pc \in ExecStages => task[t] \in ExecCall
           /\ \A t \in Tasks : task[t].pc \in AnchorStages => task[t] \in AnchorCall
           /\ \A t \in Tasks : task[t] = Idle => task[t].pc = "idle"
           /\ loop # Idle => loop \in [pc : {"process", "anchor1", "anchor2", "report"}, j : PolledJobs]
           /\ loop.pc # "idle" => loop # Idle
  BY DEF RuntimeState, ExecStages, AnchorStages, ExecCall, AnchorCall, Idle

\* Types of the executions of proposals.
LEMMA ProposalTypes ==
    ASSUME RuntimeState, ProposalStep PROVE RuntimeState'
<1>1. ASSUME NEW p \in Proposals, NEW state \in {"Voting", "Approved", "Rejected"},
             NEW q \in Quorum, UpdateProposal(p, state, q)
      PROVE  RuntimeState'
  <2>1. [state |-> state, quorum |-> q] \in ProposalRecord
    BY <1>1 DEF ProposalRecord, ProposalStates
  <2>2. db' \in Store
    BY <1>1, <2>1 DEF RuntimeState, Store, UpdateProposal
  <2> QED  BY <1>1, <2>2 DEF RuntimeState, UpdateProposal, Count
<1>2. ASSUME NEW p \in Proposals, NEW t \in Tasks, ExecuteLoad(t, p) PROVE RuntimeState'
  <2>1. [pc |-> "exec_wasm", p |-> p, copy |-> db.proposal[p], seen |-> db.done[p]] \in ExecCall
    BY <1>2 DEF RuntimeState, Store, ExecCall, ExecStages
  <2> QED  BY <1>2, <2>1 DEF RuntimeState, ExecuteLoad, Count, Goto
<1>3. ASSUME NEW x \in Proposals \cup PolledJobs, StoreWasm(x) PROVE RuntimeState'
  <2>1. db' \in Store
    BY <1>3 DEF RuntimeState, Store, StoreWasm
  <2> QED  BY <1>3, <2>1 DEF RuntimeState, StoreWasm, Count
<1>4. ASSUME NEW t \in Tasks, ExecuteModule(t) PROVE RuntimeState'
  <2>1. task[t] \in ExecCall
    BY <1>4, Stages DEF ExecuteModule, ExecStages
  <2>2. [task[t] EXCEPT !.pc = "exec_update"] \in ExecCall
    BY <2>1 DEF ExecCall, ExecStages
  <2> QED  BY <1>4, <2>2 DEF RuntimeState, ExecuteModule, Goto
<1>5. ASSUME NEW t \in Tasks, ExecuteUpdate(t) PROVE RuntimeState'
  <2>1. task[t] \in ExecCall
    BY <1>5, Stages DEF ExecuteUpdate, ExecStages
  <2>2. [task[t].copy EXCEPT !.state = "Executed"] \in ProposalRecord
    BY <2>1 DEF ExecCall, ProposalRecord, ProposalStates
  <2>3. task[t].p \in Proposals
    BY <2>1 DEF ExecCall
  <2>4. db' \in Store
    <3> DEFINE p == task[t].p
               executed == [task[t].copy EXCEPT !.state = "Executed"]
               proposals == [db.proposal EXCEPT ![p] = executed]
               counts == [db.done EXCEPT ![p] = @ + 1]
    <3>1. proposals \in [Proposals -> ProposalRecord] /\ counts \in [Proposals -> Nat]
      BY <2>2, <2>3 DEF RuntimeState, Store
    <3>2. db' = [[db EXCEPT !.proposal = proposals] EXCEPT !.done = counts]
      BY <1>5 DEF ExecuteUpdate, RuntimeState, Store
    <3> HIDE DEF proposals, counts
    <3> QED  BY <3>1, <3>2 DEF RuntimeState, Store
  <2> QED  BY <1>5, <2>4 DEF RuntimeState, ExecuteUpdate, Goto
<1> QED  BY <1>1, <1>2, <1>3, <1>4, <1>5 DEF ProposalStep

\* Types of the anchoring of receipts.
LEMMA AnchorTypes ==
    ASSUME RuntimeState, AnchorStep PROVE RuntimeState'
<1>1. ASSUME NEW r \in Receipts, NEW d \in Keys, IssueReceipt(r, d) PROVE RuntimeState'
  BY <1>1 DEF RuntimeState, IssueReceipt, Count, Signed
<1>2. ASSUME NEW t \in Tasks, NEW r \in Receipts, AnchorInsert(t, r) PROVE RuntimeState'
  <2>1. [pc |-> "store", r |-> r] \in AnchorCall
    BY DEF AnchorCall, AnchorStages
  <2> QED  BY <1>2, <2>1 DEF RuntimeState, AnchorInsert, Count, Goto
<1>3. ASSUME NEW t \in Tasks, NEW ok \in BOOLEAN, AnchorStore(t, ok) PROVE RuntimeState'
  <2>1. task[t] \in AnchorCall
    BY <1>3, Stages DEF AnchorStore, AnchorStages
  <2>2. [task[t] EXCEPT !.pc = "reputation"] \in AnchorCall
    BY <2>1 DEF AnchorCall, AnchorStages
  <2>3. task[t].r \in Receipts
    BY <2>1 DEF AnchorCall
  <2>4. db' \in Store
    BY <1>3, <2>3 DEF RuntimeState, Store, AnchorStore
  <2>5. task' \in [Tasks -> {Idle} \cup ExecCall \cup AnchorCall]
    BY <1>3, <2>2 DEF RuntimeState, AnchorStore, Goto
  <2> QED  BY <1>3, <2>4, <2>5 DEF RuntimeState, AnchorStore
<1>4. ASSUME NEW t \in Tasks, AnchorReputation(t) \/ AnchorMana(t) PROVE RuntimeState'
  <2>1. task[t] \in AnchorCall
    BY <1>4, Stages DEF AnchorReputation, AnchorMana, AnchorStages
  <2>2. [task[t] EXCEPT !.pc = "mana"] \in AnchorCall
    BY <2>1 DEF AnchorCall, AnchorStages
  <2>3. task[t].r \in Receipts
    BY <2>1 DEF AnchorCall
  <2>4. posted' \in [Receipts -> [reputation : Nat, mana : Nat]]
    BY <1>4, <2>3 DEF RuntimeState, AnchorReputation, AnchorMana, SubmitReputation, SubmitManaDeduction
  <2>5. task' \in [Tasks -> {Idle} \cup ExecCall \cup AnchorCall]
    BY <1>4, <2>2 DEF RuntimeState, AnchorReputation, AnchorMana, Goto
  <2> QED  BY <1>4, <2>4, <2>5 DEF RuntimeState, AnchorReputation, AnchorMana
<1> QED  BY <1>1, <1>2, <1>3, <1>4 DEF AnchorStep

\* Types of the job loop, the flush and the restart.
LEMMA LoopTypes ==
    ASSUME RuntimeState, LoopStep \/ Flush \/ CrashRestart PROVE RuntimeState'
<1>1. ASSUME NEW j \in PolledJobs, PollForJob(j) PROVE RuntimeState'
  BY <1>1 DEF RuntimeState, PollForJob, Count
<1>2. CASE ProcessJob
  <2>1. loop \in [pc : {"process", "anchor1", "anchor2", "report"}, j : PolledJobs]
    BY <1>2, Stages DEF ProcessJob
  <2>2. jobRuns' \in [PolledJobs -> [executed : Nat, charged : Nat]]
    BY <1>2, <2>1 DEF RuntimeState, ProcessJob, ExecuteMeshJob
  <2> QED  BY <1>2, <2>1, <2>2 DEF RuntimeState, ProcessJob
<1>3. CASE AnchorPolled \/ AnchorInLoop
  <2>1. loop \in [pc : {"process", "anchor1", "anchor2", "report"}, j : PolledJobs]
    BY <1>3, Stages DEF AnchorPolled, AnchorInLoop
  <2>2. jobRuns' \in [PolledJobs -> [executed : Nat, charged : Nat]]
    BY <1>3, <2>1 DEF RuntimeState, AnchorPolled, AnchorInLoop, AnchorMeshReceipt
  <2> QED  BY <1>3, <2>1, <2>2 DEF RuntimeState, AnchorPolled, AnchorInLoop
<1>4. CASE ReportFailure \/ Flush
  BY <1>4 DEF RuntimeState, ReportFailure, Flush
<1>5. CASE CrashRestart
  BY <1>5 DEF RuntimeState, CrashRestart, LoadOrGenerateKeypair
<1> QED  BY <1>1, <1>2, <1>3, <1>4, <1>5 DEF LoopStep


-----------------------------------------------------------------------------
\* A step that moves no receipt keeps what is known of them.
LEMMA ReceiptFrame ==
    ASSUME RuntimeInv, UNCHANGED <<dag, issued, posted, crashes>>,
           db'.receipt = db.receipt, disk'.receipt \in {disk.receipt, db.receipt}
    PROVE  VerifiedReceipts' /\ ReportedIsAnchored'
  BY DEF RuntimeInv, VerifiedReceipts, VerifySignature, ReportedIsAnchored

\* A step outside the loop keeps its account.
LEMMA ChargeFrame ==
    ASSUME RuntimeInv, UNCHANGED <<loop, jobRuns, crashes>> PROVE TwoChargesPerExecution'
  BY DEF RuntimeInv, TwoChargesPerExecution

\* A step that leaves the stores and the other tasks alone concerns one task.
LEMMA CallFrame ==
    ASSUME RuntimeInv, NEW t \in Tasks, NEW call, Goto(t, call),
           db.wasm \subseteq db'.wasm, db.receipt \subseteq db'.receipt, dag \subseteq dag',
           CallSound(t)'
    PROVE  \A u \in Tasks : CallSound(u)'
<1>1. ASSUME NEW u \in Tasks, u # t PROVE CallSound(u)'
  <2>1. task'[u] = task[u]
    BY <1>1 DEF Goto, RuntimeInv, RuntimeState
  <2> QED  BY <1>1, <2>1 DEF RuntimeInv, CallSound
<1> QED  BY <1>1

\* execute_proposal and the writers of the store keep the invariant.
LEMMA ProposalSteps ==
    ASSUME RuntimeInv, ProposalStep PROVE RuntimeInv'
<1>0. RuntimeState /\ RuntimeState'
  BY ProposalTypes DEF RuntimeInv
<1>1. ASSUME NEW p \in Proposals, NEW state \in {"Voting", "Approved", "Rejected"},
             NEW q \in Quorum, UpdateProposal(p, state, q)
      PROVE  RuntimeInv'
  <2>1. /\ db'.proposal = [db.proposal EXCEPT ![p] = [state |-> state, quorum |-> q]]
        /\ db'.wasm = db.wasm /\ db'.receipt = db.receipt /\ db'.done = db.done
    BY <1>0, <1>1 DEF UpdateProposal, RuntimeState, Store
  <2>2. StoreSound(db)'
    <3>1. db.proposal[p].state # "Executed" /\ state # "Executed"
      BY <1>1 DEF UpdateProposal
    <3>2. \A x \in Proposals : x # p => db'.proposal[x] = db.proposal[x]
      BY <1>0, <2>1 DEF RuntimeState, Store
    <3>3. db'.proposal[p].state = state
      BY <1>0, <2>1 DEF RuntimeState, Store
    <3> QED  BY <2>1, <3>1, <3>2, <3>3 DEF RuntimeInv, StoreSound
  <2>3. \A t \in Tasks : CallSound(t)'
    BY <1>1, <2>1 DEF RuntimeInv, CallSound, UpdateProposal
  <2> QED  BY <1>0, <1>1, <2>1, <2>2, <2>3, ReceiptFrame, ChargeFrame
           DEF RuntimeInv, UpdateProposal, StoreSound
<1>2. ASSUME NEW p \in Proposals, NEW t \in Tasks, ExecuteLoad(t, p) PROVE RuntimeInv'
  <2>1. db.proposal[p].quorum \in Reached /\ db.done[p] = 0
    BY <1>2 DEF ExecuteLoad, MayExecute, RuntimeInv, StoreSound
  <2>2. task'[t] = [pc |-> "exec_wasm", p |-> p, copy |-> db.proposal[p], seen |-> db.done[p]]
    BY <1>0, <1>2 DEF ExecuteLoad, Goto, RuntimeState
  <2>3. CallSound(t)'
    BY <2>1, <2>2 DEF CallSound, AnchorStages
  <2>4. \A u \in Tasks : CallSound(u)'
    BY <1>2, <2>3, CallFrame DEF ExecuteLoad
  <2> QED  BY <1>0, <1>2, <2>4, ReceiptFrame, ChargeFrame DEF RuntimeInv, ExecuteLoad, StoreSound
<1>3. ASSUME NEW x \in Proposals \cup PolledJobs, StoreWasm(x) PROVE RuntimeInv'
  <2>1. /\ db'.wasm = db.wasm \cup {x}
        /\ db'.proposal = db.proposal /\ db'.receipt = db.receipt /\ db'.done = db.done
    BY <1>0, <1>3 DEF StoreWasm, RuntimeState, Store
  <2>2. StoreSound(db)'
    BY <2>1 DEF RuntimeInv, StoreSound
  <2>3. \A t \in Tasks : CallSound(t)'
    BY <1>3, <2>1 DEF RuntimeInv, CallSound, StoreWasm
  <2> QED  BY <1>0, <1>3, <2>1, <2>2, <2>3, ReceiptFrame, ChargeFrame
           DEF RuntimeInv, StoreWasm, StoreSound
<1>4. ASSUME NEW t \in Tasks, ExecuteModule(t) PROVE RuntimeInv'
  <2>1. task[t] \in ExecCall /\ task[t].pc \in ExecStages
    BY <1>0, <1>4, Stages DEF ExecuteModule, ExecStages
  <2>2. CallSound(t)'
    <3>1. CASE task[t].p \in db.wasm
      <4>1. task'[t] = [task[t] EXCEPT !.pc = "exec_update"]
        BY <1>0, <1>4, <3>1 DEF ExecuteModule, Goto, RuntimeState
      <4>2. /\ task'[t].pc = "exec_update" /\ task'[t].p = task[t].p
            /\ task'[t].copy = task[t].copy /\ task'[t].seen = task[t].seen
        BY <2>1, <4>1 DEF ExecCall
      <4> QED  BY <1>4, <2>1, <3>1, <4>2 DEF RuntimeInv, CallSound, ExecuteModule, AnchorStages
    <3>2. CASE task[t].p \notin db.wasm
      <4>1. task'[t] = Idle
        BY <1>0, <1>4, <3>2 DEF ExecuteModule, Goto, RuntimeState
      <4> QED  BY <4>1 DEF CallSound, Idle, ExecStages, AnchorStages
    <3> QED  BY <3>1, <3>2
  <2>3. \A u \in Tasks : CallSound(u)'
    BY <1>4, <2>2, CallFrame DEF ExecuteModule
  <2> QED  BY <1>0, <1>4, <2>3, ReceiptFrame, ChargeFrame DEF RuntimeInv, ExecuteModule, StoreSound
<1>5. ASSUME NEW t \in Tasks, ExecuteUpdate(t) PROVE RuntimeInv'
  <2>1. task[t] \in ExecCall /\ task[t].pc = "exec_update"
    BY <1>0, <1>5, Stages DEF ExecuteUpdate, ExecStages
  <2>2. /\ task[t].copy.quorum \in Reached /\ task[t].p \in db.wasm /\ task[t].p \in Proposals
        /\ task[t].copy \in ProposalRecord
    BY <2>1 DEF RuntimeInv, CallSound, ExecStages, ExecCall
  <2>3. /\ db'.proposal = [db.proposal EXCEPT ![task[t].p] = [task[t].copy EXCEPT !.state = "Executed"]]
        /\ db'.done = [db.done EXCEPT ![task[t].p] = @ + 1]
        /\ db'.wasm = db.wasm /\ db'.receipt = db.receipt
    BY <1>0, <1>5 DEF ExecuteUpdate, RuntimeState, Store
  <2>4. StoreSound(db)'
    <3>1. \A x \in Proposals : x # task[t].p => db'.proposal[x] = db.proposal[x] /\ db'.done[x] = db.done[x]
      BY <1>0, <2>3 DEF RuntimeState, Store
    <3>2. db'.proposal[task[t].p] = [task[t].copy EXCEPT !.state = "Executed"]
      BY <1>0, <2>2, <2>3 DEF RuntimeState, Store
    <3>3. /\ db'.proposal[task[t].p].state = "Executed"
          /\ db'.proposal[task[t].p].quorum = task[t].copy.quorum
      BY <2>2, <3>2 DEF ProposalRecord
    <3> QED  BY <2>2, <2>3, <3>1, <3>3 DEF RuntimeInv, StoreSound
  <2>5. task'[t] = Idle
    BY <1>0, <1>5 DEF ExecuteUpdate, Goto, RuntimeState
  <2>6. CallSound(t)'
    BY <2>5 DEF CallSound, Idle, ExecStages, AnchorStages
  <2>7. \A u \in Tasks : CallSound(u)'
    BY <1>5, <2>3, <2>6, CallFrame DEF ExecuteUpdate
  <2> QED  BY <1>0, <1>5, <2>3, <2>4, <2>7, ReceiptFrame, ChargeFrame
           DEF RuntimeInv, ExecuteUpdate, StoreSound
<1> QED  BY <1>1, <1>2, <1>3, <1>4, <1>5 DEF ProposalStep


\* issue_receipt and anchor_receipt keep the invariant.
LEMMA AnchorSteps ==
    ASSUME RuntimeInv, AnchorStep PROVE RuntimeInv'
<1>0. RuntimeState /\ RuntimeState'
  BY AnchorTypes DEF RuntimeInv
<1>1. ASSUME NEW r \in Receipts, NEW d \in Keys, IssueReceipt(r, d) PROVE RuntimeInv'
  <2>1. VerifiedReceipts'
    <3>1. \A x \in Receipts : VerifySignature(x) => issued'[x] = issued[x]
      BY <1>0, <1>1 DEF IssueReceipt, VerifySignature, RuntimeState
    <3> QED  BY <1>0, <1>1, <3>1
             DEF RuntimeInv, RuntimeState, Store, VerifiedReceipts, VerifySignature, IssueReceipt
  <2>2. ReportedIsAnchored'
    BY <1>1 DEF RuntimeInv, ReportedIsAnchored, IssueReceipt
  <2>3. \A t \in Tasks : CallSound(t)'
    BY <1>1 DEF RuntimeInv, CallSound, IssueReceipt
  <2> QED  BY <1>0, <1>1, <2>1, <2>2, <2>3, ChargeFrame DEF RuntimeInv, IssueReceipt, StoreSound
<1>2. ASSUME NEW t \in Tasks, NEW r \in Receipts, AnchorInsert(t, r) PROVE RuntimeInv'
  <2>1. task'[t] = [pc |-> "store", r |-> r]
    BY <1>0, <1>2 DEF AnchorInsert, Goto, RuntimeState
  <2>2. CallSound(t)'
    BY <1>2, <2>1 DEF CallSound, AnchorInsert, ExecStages
  <2>3. \A u \in Tasks : CallSound(u)'
    BY <1>2, <2>2, CallFrame DEF AnchorInsert
  <2>4. VerifiedReceipts'
    BY <1>2 DEF RuntimeInv, VerifiedReceipts, VerifySignature, AnchorInsert
  <2>5. ReportedIsAnchored'
    BY <1>2 DEF RuntimeInv, ReportedIsAnchored, AnchorInsert
  <2> QED  BY <1>0, <1>2, <2>3, <2>4, <2>5, ChargeFrame DEF RuntimeInv, AnchorInsert, StoreSound
<1>3. ASSUME NEW t \in Tasks, NEW ok \in BOOLEAN, AnchorStore(t, ok) PROVE RuntimeInv'
  <2>1. task[t] \in AnchorCall /\ task[t].r \in dag
    BY <1>0, <1>3, Stages DEF RuntimeInv, CallSound, AnchorStore, AnchorStages
  <2>2. CASE ok
    <3>1. /\ db'.receipt = db.receipt \cup {task[t].r}
          /\ db'.proposal = db.proposal /\ db'.wasm = db.wasm /\ db'.done = db.done
      BY <1>0, <1>3, <2>2 DEF AnchorStore, RuntimeState, Store
    <3>2. task'[t] = [task[t] EXCEPT !.pc = "reputation"]
      BY <1>0, <1>3, <2>2 DEF AnchorStore, Goto, RuntimeState
    <3>3. task'[t].pc = "reputation" /\ task'[t].r = task[t].r
      BY <2>1, <3>2 DEF AnchorCall
    <3>4. CallSound(t)'
      BY <1>3, <2>1, <3>1, <3>3 DEF CallSound, AnchorStore, ExecStages
    <3>5. Goto(t, [task[t] EXCEPT !.pc = "reputation"])
      BY <1>3, <2>2 DEF AnchorStore
    <3>6. \A u \in Tasks : CallSound(u)'
      BY <1>3, <3>1, <3>4, <3>5, CallFrame DEF AnchorStore
    <3>7. VerifiedReceipts'
      BY <1>3, <2>1, <3>1 DEF RuntimeInv, VerifiedReceipts, VerifySignature, AnchorStore
    <3>8. ReportedIsAnchored'
      BY <1>3, <2>1, <3>1 DEF RuntimeInv, ReportedIsAnchored, AnchorStore
    <3> QED  BY <1>0, <1>3, <3>1, <3>6, <3>7, <3>8, ChargeFrame
             DEF RuntimeInv, AnchorStore, StoreSound
  <2>3. CASE ~ok
    <3>1. task'[t] = Idle
      BY <1>0, <1>3, <2>3 DEF AnchorStore, Goto, RuntimeState
    <3>2. CallSound(t)'
      BY <3>1 DEF CallSound, Idle, ExecStages, AnchorStages
    <3>3. Goto(t, Idle) /\ db' = db
      BY <1>3, <2>3 DEF AnchorStore
    <3>4. \A u \in Tasks : CallSound(u)'
      BY <1>3, <3>2, <3>3, CallFrame DEF AnchorStore
    <3> QED  BY <1>0, <1>3, <3>3, <3>4, ReceiptFrame, ChargeFrame DEF RuntimeInv, AnchorStore, StoreSound
  <2> QED  BY <2>2, <2>3
<1>4. ASSUME NEW t \in Tasks, AnchorReputation(t) \/ AnchorMana(t) PROVE RuntimeInv'
  <2>1. task[t] \in AnchorCall /\ task[t].r \in dag /\ task[t].r \in db.receipt
    BY <1>0, <1>4, Stages DEF RuntimeInv, CallSound, AnchorReputation, AnchorMana, AnchorStages
  <2>2. PICK call \in {Idle, [task[t] EXCEPT !.pc = "mana"]} : Goto(t, call)
    BY <1>4 DEF AnchorReputation, AnchorMana
  <2>3. task'[t] = call
    BY <1>0, <2>2 DEF Goto, RuntimeState
  <2>4. CallSound(t)'
    <3>1. CASE call = Idle
      BY <2>3, <3>1 DEF CallSound, Idle, ExecStages, AnchorStages
    <3>2. CASE call = [task[t] EXCEPT !.pc = "mana"]
      <4>1. task'[t].pc = "mana" /\ task'[t].r = task[t].r
        BY <2>1, <2>3, <3>2 DEF AnchorCall
      <4> QED  BY <1>4, <2>1, <4>1 DEF CallSound, AnchorReputation, AnchorMana, ExecStages
    <3> QED  BY <3>1, <3>2
  <2>5. \A u \in Tasks : CallSound(u)'
    BY <1>4, <2>2, <2>4, CallFrame DEF AnchorReputation, AnchorMana
  <2>6. ReportedIsAnchored'
    <3>1. \A x \in Receipts : x # task[t].r => posted'[x] = posted[x]
      BY <1>0, <1>4 DEF AnchorReputation, AnchorMana, SubmitReputation, SubmitManaDeduction, RuntimeState
    <3> QED  BY <1>4, <2>1, <3>1 DEF RuntimeInv, ReportedIsAnchored, AnchorReputation, AnchorMana
  <2>7. VerifiedReceipts'
    BY <1>4 DEF RuntimeInv, VerifiedReceipts, VerifySignature, AnchorReputation, AnchorMana
  <2> QED  BY <1>0, <1>4, <2>5, <2>6, <2>7, ChargeFrame
           DEF RuntimeInv, AnchorReputation, AnchorMana, StoreSound
<1> QED  BY <1>1, <1>2, <1>3, <1>4 DEF AnchorStep

\* What is left to charge for a job, and what is due.
Left(j) == CASE loop.pc = "anchor1" /\ loop.j = j -> 2
             [] loop.pc = "anchor2" /\ loop.j = j -> 1
             [] OTHER -> 0
Due(j) == IF JobCost(JobParams[j]) > 0 THEN 2 * jobRuns[j].executed - Left(j) ELSE 0

\* The account of one job, which the property states of all.
JobAccount(j) == Due(j) - 2 * crashes <= jobRuns[j].charged /\ jobRuns[j].charged <= Due(j)

LEMMA AccountsPerJob ==
    ASSUME RuntimeState
    PROVE  /\ \A j \in PolledJobs : Left(j) \in 0..2 /\ Due(j) \in Int
           /\ TwoChargesPerExecution <=> \A j \in PolledJobs : JobAccount(j)
<1>1. \A j \in PolledJobs : Left(j) \in 0..2
  BY DEF Left
<1>2. \A j \in PolledJobs : Due(j) \in Int /\ jobRuns[j].executed \in Nat /\ jobRuns[j].charged \in Nat
  BY <1>1 DEF Due, RuntimeState
<1>3. ASSUME NEW j \in PolledJobs
      PROVE  jobRuns[j].charged \in Due(j) - 2 * crashes .. Due(j) <=> JobAccount(j)
  BY <1>2 DEF JobAccount, RuntimeState
<1> QED  BY <1>1, <1>2, <1>3 DEF TwoChargesPerExecution, Due, Left

\* The same of the next state.
LEMMA AccountsPrimed ==
    RuntimeState' => (TwoChargesPerExecution' <=> (\A j \in PolledJobs : JobAccount(j))')
<1>1. RuntimeState => (TwoChargesPerExecution <=> \A j \in PolledJobs : JobAccount(j))
  BY AccountsPerJob
<1> QED  BY <1>1, PTL

\* The loop, the flush and the restart keep the invariant.
LEMMA LoopSteps ==
    ASSUME RuntimeInv, LoopStep \/ Flush \/ CrashRestart PROVE RuntimeInv'
<1>0. RuntimeState /\ RuntimeState'
  BY LoopTypes DEF RuntimeInv
<1>a. \A j \in PolledJobs : Left(j) \in 0..2 /\ Due(j) \in Int /\ JobAccount(j)
  BY <1>0, AccountsPerJob DEF RuntimeInv
<1>b. (\A j \in PolledJobs : JobAccount(j)') => TwoChargesPerExecution'
  BY <1>0, AccountsPrimed
<1>c. \A j \in PolledJobs : jobRuns[j].executed \in Nat /\ jobRuns[j].charged \in Nat
  BY <1>0 DEF RuntimeState
<1>1. CASE LoopStep
  <2>1. UNCHANGED <<db, disk, dag, key, issued, task, posted, crashes>>
    BY <1>1 DEF LoopStep, PollForJob, ProcessJob, AnchorPolled, AnchorInLoop, ReportFailure
  <2>2. ASSUME NEW j \in PolledJobs PROVE JobAccount(j)'
    <3>1. CASE \E i \in PolledJobs : PollForJob(i)
      BY <1>a, <1>0, <2>1, <3>1 DEF PollForJob, JobAccount, Due, Left, Idle
    <3>2. CASE ReportFailure
      BY <1>a, <1>0, <2>1, <3>2 DEF ReportFailure, JobAccount, Due, Left, Idle
    <3>3. CASE ProcessJob
      <4>1. loop \in [pc : {"process", "anchor1", "anchor2", "report"}, j : PolledJobs] /\ Left(j) = 0
        BY <1>0, <3>3, Stages DEF ProcessJob, Left
      <4>2. CASE loop.j = j /\ j \in db.wasm /\ JobParams[j].valid
        <5>1. /\ jobRuns'[j].executed = jobRuns[j].executed + 1 /\ jobRuns'[j].charged = jobRuns[j].charged
              /\ Left(j)' = 2
          BY <1>0, <3>3, <4>2 DEF ProcessJob, ExecuteMeshJob, RuntimeState, Left
        <5> QED  BY <1>a, <1>c, <2>1, <4>1, <5>1 DEF JobAccount, Due
      <4>3. CASE ~(loop.j = j /\ j \in db.wasm /\ JobParams[j].valid)
        <5>1. jobRuns'[j] = jobRuns[j] /\ Left(j)' = 0
          BY <1>0, <3>3, <4>1, <4>3 DEF ProcessJob, ExecuteMeshJob, RuntimeState, Left
        <5> QED  BY <1>a, <2>1, <4>1, <5>1 DEF JobAccount, Due
      <4> QED  BY <4>2, <4>3
    <3>4. CASE AnchorPolled \/ AnchorInLoop
      <4>1. loop \in [pc : {"process", "anchor1", "anchor2", "report"}, j : PolledJobs]
        BY <1>0, <3>4, Stages DEF AnchorPolled, AnchorInLoop
      <4>2. CASE loop.j = j /\ JobCost(JobParams[j]) > 0
        <5>1. jobRuns'[j].executed = jobRuns[j].executed /\ jobRuns'[j].charged = jobRuns[j].charged + 1
          BY <1>0, <3>4, <4>2 DEF AnchorPolled, AnchorInLoop, AnchorMeshReceipt, RuntimeState
        <5>2. Left(j)' = Left(j) - 1
          BY <3>4, <4>1, <4>2 DEF AnchorPolled, AnchorInLoop, Left, Idle
        <5>3. Due(j)' = Due(j) + 1
          BY <1>a, <1>c, <4>2, <5>1, <5>2 DEF Due
        <5>4. crashes \in Nat
          BY <1>0 DEF RuntimeState
        <5> QED  BY <1>a, <1>c, <2>1, <5>1, <5>3, <5>4 DEF JobAccount
      <4>3. CASE loop.j = j /\ ~(JobCost(JobParams[j]) > 0)
        <5>1. jobRuns'[j] = jobRuns[j]
          BY <3>4, <4>3 DEF AnchorPolled, AnchorInLoop, AnchorMeshReceipt
        <5> QED  BY <1>a, <2>1, <4>3, <5>1 DEF JobAccount, Due
      <4>4. CASE loop.j # j
        <5>1. jobRuns'[j] = jobRuns[j]
          BY <1>0, <3>4, <4>1, <4>4 DEF AnchorPolled, AnchorInLoop, AnchorMeshReceipt, RuntimeState
        <5>2. Left(j) = 0 /\ Left(j)' = 0
          BY <3>4, <4>1, <4>4 DEF AnchorPolled, AnchorInLoop, Left, Idle
        <5> QED  BY <1>a, <2>1, <5>1, <5>2 DEF JobAccount, Due
      <4> QED  BY <4>2, <4>3, <4>4
    <3> QED  BY <1>1, <3>1, <3>2, <3>3, <3>4 DEF LoopStep
  <2>3. \A t \in Tasks : CallSound(t)'
    BY <2>1 DEF RuntimeInv, CallSound
  <2> QED  BY <1>0, <1>b, <2>1, <2>2, <2>3, ReceiptFrame DEF RuntimeInv, StoreSound
<1>2. CASE Flush
  <2>1. \A t \in Tasks : CallSound(t)'
    BY <1>2 DEF RuntimeInv, CallSound, Flush
  <2> QED  BY <1>0, <1>2, <2>1, ReceiptFrame, ChargeFrame DEF RuntimeInv, Flush, StoreSound
<1>3. CASE CrashRestart
  <2>1. ASSUME NEW j \in PolledJobs PROVE JobAccount(j)'
    <3>1. Left(j)' = 0 /\ jobRuns'[j] = jobRuns[j] /\ crashes' = crashes + 1
      BY <1>3 DEF CrashRestart, Left, Idle
    <3> QED  BY <1>a, <1>c, <1>0, <3>1 DEF JobAccount, Due, RuntimeState
  <2>2. ASSUME NEW t \in Tasks PROVE CallSound(t)'
    <3>1. task'[t] = Idle
      BY <1>3 DEF CrashRestart
    <3> QED  BY <3>1 DEF CallSound, Idle, ExecStages, AnchorStages
  <2>3. VerifiedReceipts'
    BY <1>3 DEF RuntimeInv, VerifiedReceipts, VerifySignature, CrashRestart
  <2>4. crashes' # 0
    BY <1>0, <1>3 DEF CrashRestart, RuntimeState
  <2>5. ReportedIsAnchored'
    BY <2>4 DEF ReportedIsAnchored
  <2> QED  BY <1>0, <1>3, <1>b, <2>1, <2>2, <2>3, <2>5 DEF RuntimeInv, CrashRestart, StoreSound
<1> QED  BY <1>1, <1>2, <1>3

-----------------------------------------------------------------------------
\* The invariant of the runtime, for any number of tasks, proposals, receipts,
\* jobs and keys, any interleaving of the calls and any crashes.
THEOREM RuntimeInvariantHolds == RuntimeSpec => []RuntimeInv
<1>1. RuntimeInit => RuntimeInv
  <2> SUFFICES ASSUME RuntimeInit PROVE RuntimeInv
    OBVIOUS
  <2>1. RuntimeState
    <3>1. db \in Store
      BY DEF RuntimeInit, Store, ProposalRecord, ProposalStates, Quorum
    <3> QED  BY <3>1, RuntimeAssumption DEF RuntimeInit, RuntimeState
  <2>2. StoreSound(db) /\ StoreSound(disk)
    BY DEF RuntimeInit, StoreSound
  <2>3. \A t \in Tasks : CallSound(t)
    BY DEF RuntimeInit, CallSound, Idle, ExecStages, AnchorStages
  <2>4. VerifiedReceipts
    BY DEF RuntimeInit, VerifiedReceipts
  <2>5. ReportedIsAnchored
    BY DEF RuntimeInit, ReportedIsAnchored
  <2>6. \A j \in PolledJobs : JobAccount(j)
    BY DEF RuntimeInit, JobAccount, Due, Left, Idle
  <2> QED  BY <2>1, <2>2, <2>3, <2>4, <2>5, <2>6, AccountsPerJob DEF RuntimeInv
<1>2. RuntimeInv /\ [RuntimeNext]_runtimeVars => RuntimeInv'
  <2> SUFFICES ASSUME RuntimeInv, [RuntimeNext]_runtimeVars PROVE RuntimeInv'
    OBVIOUS
  <2>1. CASE RuntimeNext
    BY <2>1, ProposalSteps, AnchorSteps, LoopSteps DEF RuntimeNext
  <2>2. CASE UNCHANGED runtimeVars
    <3>1. RuntimeState' /\ StoreSound(db)' /\ StoreSound(disk)'
      BY <2>2 DEF runtimeVars, RuntimeInv, RuntimeState, StoreSound
    <3>2. \A t \in Tasks : CallSound(t)'
      BY <2>2 DEF runtimeVars, RuntimeInv, CallSound
    <3> QED  BY <2>2, <3>1, <3>2, ReceiptFrame, ChargeFrame DEF runtimeVars, RuntimeInv
  <2> QED  BY <2>1, <2>2
<1> QED  BY <1>1, <1>2, PTL DEF RuntimeSpec

\* execute_proposal, on any number of clones and across any crashes: a proposal
\* marked Executed was approved with a quorum and had its module, and no
\* execution begins after the mark of another one.
THEOREM ProposalsAreSound == RuntimeSpec => []ProposalsSound
<1>1. RuntimeInv => ProposalsSound
  <2> SUFFICES ASSUME RuntimeInv PROVE ProposalsSound
    OBVIOUS
  <2>1. RuntimeTypeOK
    BY DEF RuntimeInv, RuntimeState, RuntimeTypeOK, Store, ProposalRecord, ProposalStates,
           ExecCall, AnchorCall, Idle
  <2>2. ExecutionsOverlap
    BY DEF RuntimeInv, CallSound, ExecutionsOverlap
  <2>3. ExecutedWasApproved
    BY DEF RuntimeInv, StoreSound, ExecutedWasApproved
  <2> QED  BY <2>1, <2>2, <2>3 DEF ProposalsSound
<1> QED  BY <1>1, RuntimeInvariantHolds, PTL

\* anchor_receipt: whatever the node keeps of receipts was signed by the issuer
\* it names, and what it reports of one is in the DAG and in the store until a
\* crash, whichever key the node makes up when it restarts.
THEOREM ReceiptsAreSound == RuntimeSpec => []ReceiptsSound
<1>1. RuntimeInv => ReceiptsSound
  BY DEF RuntimeInv, VerifiedReceipts, VerifySignature, ReceiptsSound, AnchoredIsSigned
<1> QED  BY <1>1, RuntimeInvariantHolds, PTL

\* run_forever: each execution of a job with a cost is charged twice, less what
\* a crash cut off, whatever the job costs and however often it is polled; this
\* is by how much the claim OneChargePerExecution fails.
THEOREM ChargesAreDouble == RuntimeSpec => []TwoChargesPerExecution
<1>1. RuntimeInv => TwoChargesPerExecution
  BY DEF RuntimeInv
<1> QED  BY <1>1, RuntimeInvariantHolds, PTL

=============================================================================
