--------------------------- MODULE EconomyProofs ---------------------------
(***************************************************************************)
(* Proofs about icn-economics: the mana ledger for every set of dids and of   *)
(* concurrent spenders, the policy enforcer and the token ledger for every    *)
(* set of callers, users, policies and amounts.                              *)
(*                                                                         *)
(* CapHeld and Accounted speak of the ledger; a step writes a copy that was *)
(* fetched some steps before, so the invariant also bounds the copies.      *)
(* RatePerTick holds because a did that is still to be visited, or is being *)
(* visited, has its rate of this tick reserved.                             *)
(*                                                                         *)
(* A limit is checked in one call and used up in another.  CallsCovered says   *)
(* of each call that nothing has overtaken that it would be authorised again.  *)
(***************************************************************************)
EXTENDS Economy, InductionTheorems

\* The copy that the regenerator is about to write back is capped.
FetchedCapped == tick = "fetched" => fetched.current <= fetched.max

\* What the running tick may still add to a record.
Due(d) == IF d \in todo \/ (tick = "fetched" /\ visiting = d) THEN Rate ELSE 0

Reserved == \A d \in Dids : regenerated[d] + Due(d) <= ticks * Rate

VisitedOnce ==
    /\ tick = "idle" => todo = {}
    /\ tick = "fetched" => visiting \notin todo

IInv == TypeOK /\ CapHeld /\ FetchedCapped /\ Accounted /\ Reserved /\ VisitedOnce

-----------------------------------------------------------------------------
(* The operators.                                                           *)

\* Fetch returns the record, and the default of record_usage for no record.
LEMMA FetchFacts ==
    ASSUME NEW d
    PROVE  /\ d \in DOMAIN ledger => Fetch(d) = ledger[d]
           /\ d \notin DOMAIN ledger => Fetch(d) = NoState
  BY DEF Fetch, GetManaState

\* In a capped ledger every fetched copy is a capped state.
LEMMA FetchCapped ==
    ASSUME TypeOK, CapHeld, NEW d \in Dids
    PROVE  Fetch(d) \in ManaState /\ Fetch(d).current <= Fetch(d).max
  BY FetchFacts DEF TypeOK, CapHeld, IsPartial, ManaState, NoState

\* A tick's new balance is capped, no less than the old one, and at most the
\* rate above it.
LEMMA RegeneratedFacts ==
    ASSUME NEW st \in ManaState, st.current <= st.max
    PROVE  /\ Regenerated(st) \in ManaState
           /\ Regenerated(st).max = st.max
           /\ Regenerated(st).current <= st.max
           /\ st.current <= Regenerated(st).current
           /\ Regenerated(st).current <= st.current + Rate
  <1>1. /\ Lesser(st.current + Rate, st.max) \in Nat
        /\ st.current <= Lesser(st.current + Rate, st.max)
        /\ Lesser(st.current + Rate, st.max) <= st.max
        /\ Lesser(st.current + Rate, st.max) <= st.current + Rate
    BY LedgerAssumption DEF ManaState, Lesser
  <1> QED
    BY <1>1 DEF Regenerated, ManaState

\* update_mana_state with a capped state keeps the ledger's type and cap, and
\* every other record.
LEMMA UpdateFacts ==
    ASSUME IsPartial(ledger, Dids, ManaState),
           \A d \in DOMAIN ledger : ledger[d].current <= ledger[d].max,
           NEW k \in Dids, NEW st \in ManaState, st.current <= st.max,
           UpdateManaState(k, st)
    PROVE  /\ IsPartial(ledger', Dids, ManaState)
           /\ \A d \in DOMAIN ledger' : ledger'[d].current <= ledger'[d].max
           /\ \A d \in Dids : Fetch(d)' = IF d = k THEN st ELSE Fetch(d)
  <1>1. /\ DOMAIN ledger' = DOMAIN ledger \cup {k}
        /\ ledger' \in [DOMAIN ledger' -> ManaState]
        /\ ledger'[k] = st
        /\ \A d \in DOMAIN ledger : d # k => ledger'[d] = ledger[d]
    BY DEF UpdateManaState, Put, IsPartial
  <1>2. IsPartial(ledger', Dids, ManaState)
    BY <1>1 DEF IsPartial
  <1>3. \A d \in DOMAIN ledger' : ledger'[d].current <= ledger'[d].max
    BY <1>1
  <1>4. ASSUME NEW d \in Dids PROVE Fetch(d)' = IF d = k THEN st ELSE Fetch(d)
    BY <1>1 DEF Fetch, GetManaState
  <1> QED
    BY <1>2, <1>3, <1>4

-----------------------------------------------------------------------------
(* The inductive invariant.                                                 *)

\* A provisioned ledger with nobody at work satisfies the invariant.
LEMMA InitIInv == Init => IInv
  <1> SUFFICES ASSUME Init PROVE IInv
    OBVIOUS
  <1> USE LedgerAssumption
  <1>1. PICK D \in SUBSET Dids :
           ledger = [d \in D |-> [current |-> Endowment, max |-> Endowment]]
    BY DEF Init
  <1>2. (CHOOSE d \in Dids : TRUE) \in Dids
    OBVIOUS
  <1>3. IsPartial(ledger, Dids, ManaState)
    BY <1>1 DEF IsPartial, ManaState
  <1>4. \A d \in Dids : Fetch(d).current \in Nat
    BY <1>1, FetchFacts DEF NoState
  <1>5. TypeOK
    BY <1>2, <1>3, <1>4 DEF Init, TypeOK, ManaState, NoState, Idle
  <1>6. CapHeld
    BY <1>1 DEF Init, CapHeld
  <1>7. Accounted
    <2> SUFFICES ASSUME NEW d \in Dids
                 PROVE  Fetch(d).current + spent[d] = opened[d] + regenerated[d]
      BY DEF Accounted
    <2> QED
      BY <1>4 DEF Init
  <1>8. FetchedCapped /\ VisitedOnce
    BY DEF Init, FetchedCapped, VisitedOnce
  <1>9. Reserved
    <2>1. ticks * Rate = 0
      BY DEF Init
    <2>2. ASSUME NEW d \in Dids PROVE regenerated[d] + Due(d) <= 0
      BY DEF Init, Due
    <2> QED
      BY <2>1, <2>2 DEF Reserved
  <1> QED
    BY <1>5, <1>6, <1>7, <1>8, <1>9 DEF IInv

\* The reservation of the tick does not depend on the ledger or the spenders.
LEMMA TickUntouched ==
    ASSUME IInv, UNCHANGED <<tickVars, regenerated>>
    PROVE  FetchedCapped' /\ Reserved' /\ VisitedOnce'
  BY DEF IInv, tickVars, FetchedCapped, Reserved, Due, VisitedOnce

\* The books do not depend on who has fetched what.
LEMMA BooksUntouched ==
    ASSUME IInv, UNCHANGED <<ledger, historyVars>>
    PROVE  Accounted'
  BY DEF IInv, historyVars, Accounted, Fetch, GetManaState

\* record_usage: the fetched copy covers the amount asked for.
LEMMA ReadStep ==
    ASSUME IInv, NEW s \in Spenders, NEW d \in Dids, NEW a \in Amounts,
           RecordUsageRead(s, d, a)
    PROVE  IInv'
  <1> USE LedgerAssumption
  <1>1. Fetch(d) \in ManaState /\ Fetch(d).current <= Fetch(d).max
    BY FetchCapped DEF IInv
  <1>2. TypeOK'
    BY <1>1 DEF IInv, TypeOK, RecordUsageRead, ledgerVars, tickVars, historyVars
  <1>3. CapHeld'
    BY <1>1 DEF IInv, TypeOK, CapHeld, RecordUsageRead, ledgerVars, ManaState
  <1>4. FetchedCapped' /\ Reserved' /\ VisitedOnce'
    BY TickUntouched DEF RecordUsageRead, historyVars
  <1>5. Accounted'
    BY BooksUntouched DEF RecordUsageRead, ledgerVars
  <1> QED
    BY <1>2, <1>3, <1>4, <1>5 DEF IInv

\* record_usage: a stale copy is written back as it is, and marks its record;
\* a fresh one is written back less the amount that is entered as spent.
LEMMA WriteStep ==
    ASSUME IInv, NEW s \in Spenders, RecordUsageWrite(s)
    PROVE  IInv'
  <1> DEFINE k == request[s].did
             a == request[s].amount
             st == [state[s] EXCEPT !.current = @ - a]
  <1>1. /\ k \in Dids /\ a \in Nat /\ state[s] \in ManaState
        /\ a <= state[s].current /\ state[s].current <= state[s].max
    BY DEF IInv, TypeOK, CapHeld, RecordUsageWrite
  <1>2. /\ st \in ManaState /\ st.current <= st.max
        /\ st.current = state[s].current - a
    BY <1>1 DEF ManaState
  <1>3. /\ UpdateManaState(k, st)
        /\ spent' = [spent EXCEPT ![k] = @ + a]
        /\ clean' = [clean EXCEPT ![k] = @ /\ state[s] = Fetch(k)]
        /\ pc' = [pc EXCEPT ![s] = "idle"]
        /\ UNCHANGED <<durable, state, request, ops, tickVars, regenerated, opened>>
    BY DEF RecordUsageWrite
  <1> HIDE DEF k, a, st
  <1>4. /\ IsPartial(ledger', Dids, ManaState)
        /\ \A d \in DOMAIN ledger' : ledger'[d].current <= ledger'[d].max
        /\ \A d \in Dids : Fetch(d)' = IF d = k THEN st ELSE Fetch(d)
    BY <1>1, <1>2, <1>3, UpdateFacts DEF IInv, TypeOK, CapHeld
  <1>5. TypeOK'
    <2>1. spent' \in [Dids -> Nat] /\ pc' \in [Spenders -> {"idle", "read"}]
      BY <1>1, <1>3 DEF IInv, TypeOK
    <2>2. clean' \in [Dids -> BOOLEAN]
      BY <1>1, <1>3 DEF IInv, TypeOK
    <2> QED
      BY <1>3, <1>4, <2>1, <2>2 DEF IInv, TypeOK, tickVars
  <1>6. CapHeld'
    BY <1>3, <1>4 DEF IInv, TypeOK, CapHeld
  <1>7. FetchedCapped' /\ Reserved' /\ VisitedOnce'
    BY <1>3, TickUntouched
  <1>8. Accounted'
    <2> SUFFICES ASSUME NEW d \in Dids, clean'[d]
                 PROVE  Fetch(d)'.current + spent'[d] = opened'[d] + regenerated'[d]
      BY DEF Accounted
    <2>0. /\ opened' = opened /\ regenerated' = regenerated
          /\ spent[d] \in Nat /\ opened[d] \in Nat /\ regenerated[d] \in Nat
      BY <1>3 DEF IInv, TypeOK
    <2>1. CASE d = k
      <3>1. clean[d] /\ state[s] = Fetch(d)
        BY <1>1, <1>3, <2>1 DEF IInv, TypeOK
      <3>2. Fetch(d).current + spent[d] = opened[d] + regenerated[d]
        BY <3>1 DEF IInv, Accounted
      <3>3. Fetch(d)'.current = Fetch(d).current - a /\ Fetch(d).current \in Nat
        BY <1>1, <1>2, <1>4, <2>1, <3>1 DEF ManaState
      <3>4. spent'[d] = spent[d] + a
        BY <1>3, <2>1 DEF IInv, TypeOK
      <3> QED
        BY <1>1, <2>0, <3>2, <3>3, <3>4
    <2>2. CASE d # k
      <3>1. clean[d] /\ spent'[d] = spent[d] /\ Fetch(d)' = Fetch(d)
        BY <1>3, <1>4, <2>2 DEF IInv, TypeOK
      <3> QED
        BY <2>0, <3>1 DEF IInv, Accounted
    <2> QED
      BY <2>1, <2>2
  <1> QED
    BY <1>5, <1>6, <1>7, <1>8 DEF IInv

\* record_usage: a failed update leaves everything but the caller as it was.
LEMMA FailStep ==
    ASSUME IInv, NEW s \in Spenders, RecordUsageFails(s)
    PROVE  IInv'
  <1>1. TypeOK'
    BY DEF IInv, TypeOK, RecordUsageFails, ledgerVars, tickVars, historyVars
  <1>2. CapHeld'
    BY DEF IInv, TypeOK, CapHeld, RecordUsageFails, ledgerVars
  <1>3. FetchedCapped' /\ Reserved' /\ VisitedOnce'
    BY TickUntouched DEF RecordUsageFails, historyVars
  <1>4. Accounted'
    BY BooksUntouched DEF RecordUsageFails, ledgerVars
  <1> QED
    BY <1>1, <1>2, <1>3, <1>4 DEF IInv

\* A step of the regenerator that writes nothing touches neither cap nor books.
LEMMA LedgerUntouched ==
    ASSUME IInv, UNCHANGED <<ledgerVars, spenderVars, historyVars>>
    PROVE  CapHeld' /\ Accounted'
  <1>1. Accounted'
    BY BooksUntouched DEF ledgerVars
  <1>2. CapHeld'
    BY DEF IInv, CapHeld, ledgerVars, spenderVars
  <1> QED
    BY <1>1, <1>2

\* tick: the rate is reserved for every did that the ledger lists.
LEMMA BeginStep ==
    ASSUME IInv, TickBegin
    PROVE  IInv'
  <1> USE LedgerAssumption
  <1>1. TypeOK'
    BY DEF IInv, TypeOK, TickBegin, IsPartial, AllDids, ledgerVars, spenderVars, historyVars
  <1>2. CapHeld' /\ Accounted'
    BY LedgerUntouched DEF TickBegin
  <1>3. FetchedCapped' /\ VisitedOnce'
    BY DEF TickBegin, FetchedCapped, VisitedOnce
  <1>4. Reserved'
    <2>1. /\ ticks \in Nat /\ ticks' = ticks + 1 /\ regenerated' = regenerated
          /\ regenerated \in [Dids -> Nat]
      BY DEF IInv, TypeOK, TickBegin, historyVars
    <2>2. ticks' * Rate = ticks * Rate + Rate /\ ticks * Rate \in Nat
      BY <2>1
    <2> SUFFICES ASSUME NEW d \in Dids PROVE regenerated'[d] + Due(d)' <= ticks' * Rate
      BY DEF Reserved
    <2>3. regenerated[d] <= ticks * Rate
      <3>1. regenerated[d] + Due(d) <= ticks * Rate
        BY DEF IInv, Reserved
      <3>2. Due(d) = 0
        BY DEF IInv, VisitedOnce, TickBegin, Due
      <3> QED
        BY <2>1, <3>1, <3>2
    <2>4. Due(d)' = Rate \/ Due(d)' = 0
      BY DEF Due
    <2> DEFINE total == ticks * Rate
    <2>5. total \in Nat /\ regenerated[d] <= total /\ ticks' * Rate = total + Rate
      BY <2>2, <2>3
    <2> HIDE DEF total
    <2> QED
      BY <2>1, <2>4, <2>5
  <1> QED
    BY <1>1, <1>2, <1>3, <1>4 DEF IInv

\* tick: the did that is fetched takes its reservation with it, and the copy is
\* capped because the ledger is.
LEMMA FetchStep ==
    ASSUME IInv, NEW d \in Dids, TickFetch(d)
    PROVE  IInv'
  <1>0. Fetch(d) \in ManaState /\ Fetch(d).current <= Fetch(d).max
    BY FetchCapped DEF IInv
  <1>1. TypeOK'
    BY <1>0 DEF IInv, TypeOK, TickFetch, ledgerVars, spenderVars, historyVars
  <1>2. CapHeld' /\ Accounted'
    BY LedgerUntouched DEF TickFetch
  <1>3. FetchedCapped'
    BY <1>0 DEF TickFetch, FetchedCapped
  <1>4. VisitedOnce'
    BY DEF TickFetch, VisitedOnce
  <1>5. Reserved'
    <2> SUFFICES ASSUME NEW e \in Dids PROVE regenerated'[e] + Due(e)' <= ticks' * Rate
      BY DEF Reserved
    <2>1. regenerated' = regenerated /\ ticks' = ticks
      BY DEF TickFetch, historyVars
    <2>2. /\ regenerated[e] + Due(e) <= ticks * Rate
          /\ regenerated[e] \in Nat /\ ticks \in Nat
      BY DEF IInv, Reserved, TypeOK
    <2>3. Due(e)' = Due(e) \/ Due(e)' = 0
      BY DEF TickFetch, Due
    <2>4. Due(e) \in Nat
      BY LedgerAssumption DEF Due
    <2>5. ticks * Rate \in Nat
      BY <2>2, LedgerAssumption
    <2> DEFINE total == ticks * Rate
    <2>6. total \in Nat /\ regenerated[e] + Due(e) <= total /\ ticks' * Rate = total
      BY <2>1, <2>2, <2>5
    <2> HIDE DEF total
    <2> QED
      BY <2>1, <2>2, <2>3, <2>4, <2>6
  <1> QED
    BY <1>1, <1>2, <1>3, <1>4, <1>5 DEF IInv

\* tick: a did whose read failed loses its reservation.
LEMMA ReadFailsStep ==
    ASSUME IInv, NEW d \in Dids, TickReadFails(d)
    PROVE  IInv'
  <1>1. TypeOK'
    BY DEF IInv, TypeOK, TickReadFails, ledgerVars, spenderVars, historyVars
  <1>2. CapHeld' /\ Accounted'
    BY LedgerUntouched DEF TickReadFails
  <1>3. FetchedCapped' /\ VisitedOnce'
    BY DEF IInv, TickReadFails, FetchedCapped, VisitedOnce
  <1>4. Reserved'
    <2> SUFFICES ASSUME NEW e \in Dids PROVE regenerated'[e] + Due(e)' <= ticks' * Rate
      BY DEF Reserved
    <2>1. regenerated' = regenerated /\ ticks' = ticks
      BY DEF TickReadFails, historyVars
    <2>2. /\ regenerated[e] + Due(e) <= ticks * Rate
          /\ regenerated[e] \in Nat /\ ticks \in Nat
      BY DEF IInv, Reserved, TypeOK
    <2>3. (Due(e)' = Due(e) \/ Due(e)' = 0) /\ Due(e) \in Nat
      BY LedgerAssumption DEF TickReadFails, Due
    <2> DEFINE total == ticks * Rate
    <2>4. total \in Nat /\ regenerated[e] + Due(e) <= total /\ ticks' * Rate = total
      BY <2>1, <2>2, LedgerAssumption
    <2> HIDE DEF total
    <2> QED
      BY <2>1, <2>2, <2>3, <2>4
  <1> QED
    BY <1>1, <1>2, <1>3, <1>4 DEF IInv

\* tick: what an update adds was reserved, and a fresh copy keeps the books.
LEMMA UpdateStep ==
    ASSUME IInv, TickUpdate
    PROVE  IInv'
  <1> DEFINE st == Regenerated(fetched)
             gain == st.current - fetched.current
  <1>1. /\ visiting \in Dids /\ fetched \in ManaState
        /\ fetched.current <= fetched.max
    BY DEF IInv, TypeOK, FetchedCapped, TickUpdate
  <1>2. /\ st \in ManaState /\ st.current <= st.max
        /\ fetched.current <= st.current /\ st.current <= fetched.current + Rate
    BY <1>1, RegeneratedFacts
  <1>3. /\ UpdateManaState(visiting, st)
        /\ regenerated' = [regenerated EXCEPT ![visiting] = @ + gain]
        /\ clean' = [clean EXCEPT ![visiting] = @ /\ fetched = Fetch(visiting)]
        /\ tick = "fetched" /\ tick' = "next"
        /\ UNCHANGED <<durable, spenderVars, todo, visiting, fetched, ticks, spent, opened>>
    BY DEF TickUpdate
  <1> HIDE DEF st
  <1>4. gain \in Nat /\ gain <= Rate /\ st.current = fetched.current + gain
    BY <1>1, <1>2, LedgerAssumption DEF ManaState
  <1> HIDE DEF gain
  <1>5. /\ IsPartial(ledger', Dids, ManaState)
        /\ \A d \in DOMAIN ledger' : ledger'[d].current <= ledger'[d].max
        /\ \A d \in Dids : Fetch(d)' = IF d = visiting THEN st ELSE Fetch(d)
    BY <1>1, <1>2, <1>3, UpdateFacts DEF IInv, TypeOK, CapHeld
  <1>6. TypeOK'
    <2>1. regenerated' \in [Dids -> Nat]
      BY <1>1, <1>3, <1>4 DEF IInv, TypeOK
    <2>2. clean' \in [Dids -> BOOLEAN]
      BY <1>1, <1>3 DEF IInv, TypeOK
    <2> QED
      BY <1>3, <1>5, <2>1, <2>2 DEF IInv, TypeOK, spenderVars
  <1>7. CapHeld'
    BY <1>3, <1>5 DEF IInv, CapHeld, spenderVars
  <1>8. FetchedCapped' /\ VisitedOnce'
    BY <1>3 DEF FetchedCapped, VisitedOnce
  <1>9. Reserved'
    <2> SUFFICES ASSUME NEW e \in Dids PROVE regenerated'[e] + Due(e)' <= ticks' * Rate
      BY DEF Reserved
    <2>1. /\ regenerated[e] + Due(e) <= ticks * Rate
          /\ regenerated[e] \in Nat /\ ticks \in Nat
      BY DEF IInv, Reserved, TypeOK
    <2>2. regenerated'[e] = IF e = visiting THEN regenerated[e] + gain ELSE regenerated[e]
      BY <1>3 DEF IInv, TypeOK
    <2>3. /\ e = visiting => Due(e) = Rate /\ Due(e)' = 0
          /\ e # visiting => Due(e)' = Due(e)
      BY <1>3 DEF IInv, VisitedOnce, Due
    <2>4. Due(e) \in Nat
      BY LedgerAssumption DEF Due
    <2> DEFINE total == ticks * Rate
    <2>5. total \in Nat /\ regenerated[e] + Due(e) <= total /\ ticks' * Rate = total
      BY <1>3, <2>1, LedgerAssumption
    <2> HIDE DEF total
    <2> QED
      BY <1>4, <2>1, <2>2, <2>3, <2>4, <2>5, LedgerAssumption
  <1>10. Accounted'
    <2> SUFFICES ASSUME NEW d \in Dids, clean'[d]
                 PROVE  Fetch(d)'.current + spent'[d] = opened'[d] + regenerated'[d]
      BY DEF Accounted
    <2>0. /\ opened' = opened /\ spent' = spent
          /\ spent[d] \in Nat /\ opened[d] \in Nat /\ regenerated[d] \in Nat
      BY <1>3 DEF IInv, TypeOK
    <2>1. CASE d = visiting
      <3>1. clean[d] /\ fetched = Fetch(d)
        BY <1>3, <2>1 DEF IInv, TypeOK
      <3>2. Fetch(d).current + spent[d] = opened[d] + regenerated[d]
        BY <3>1 DEF IInv, Accounted
      <3>3. Fetch(d)'.current = Fetch(d).current + gain /\ Fetch(d).current \in Nat
        BY <1>1, <1>4, <1>5, <2>1, <3>1 DEF ManaState
      <3>4. regenerated'[d] = regenerated[d] + gain
        BY <1>3, <2>1 DEF IInv, TypeOK
      <3> QED
        BY <1>4, <2>0, <3>2, <3>3, <3>4
    <2>2. CASE d # visiting
      <3>1. clean[d] /\ regenerated'[d] = regenerated[d] /\ Fetch(d)' = Fetch(d)
        BY <1>3, <1>5, <2>2 DEF IInv, TypeOK
      <3> QED
        BY <2>0, <3>1 DEF IInv, Accounted
    <2> QED
      BY <2>1, <2>2
  <1> QED
    BY <1>6, <1>7, <1>8, <1>9, <1>10 DEF IInv

\* A step that reserves nothing and regenerates nothing keeps the reservation.
LEMMA LessReserved ==
    ASSUME IInv, regenerated' = regenerated, ticks' = ticks,
           todo' \subseteq todo, tick' # "fetched"
    PROVE  Reserved'
  <1> SUFFICES ASSUME NEW e \in Dids PROVE regenerated'[e] + Due(e)' <= ticks' * Rate
    BY DEF Reserved
  <1>1. /\ regenerated[e] + Due(e) <= ticks * Rate
        /\ regenerated[e] \in Nat /\ ticks \in Nat
    BY DEF IInv, Reserved, TypeOK
  <1>2. (Due(e)' = Due(e) \/ Due(e)' = 0) /\ Due(e) \in Nat
    BY LedgerAssumption DEF Due
  <1> DEFINE total == ticks * Rate
  <1>3. total \in Nat /\ regenerated[e] + Due(e) <= total /\ ticks' * Rate = total
    BY <1>1, LedgerAssumption
  <1> HIDE DEF total
  <1> QED
    BY <1>1, <1>2, <1>3

\* tick: an update that failed, and the end of the tick.
LEMMA EndStep ==
    ASSUME IInv, TickUpdateFails \/ TickEnd
    PROVE  IInv'
  <1>1. /\ UNCHANGED <<ledgerVars, spenderVars, todo, visiting, fetched, ticks, historyVars>>
        /\ tick' \in {"idle", "next"}
        /\ tick' = "idle" => todo = {}
    BY DEF TickUpdateFails, TickEnd
  <1>2. TypeOK'
    BY <1>1 DEF IInv, TypeOK, ledgerVars, spenderVars, historyVars
  <1>3. CapHeld' /\ Accounted'
    BY <1>1, LedgerUntouched
  <1>4. FetchedCapped' /\ VisitedOnce'
    BY <1>1 DEF FetchedCapped, VisitedOnce
  <1>5. Reserved'
    BY <1>1, LessReserved DEF historyVars
  <1> QED
    BY <1>2, <1>3, <1>4, <1>5 DEF IInv

\* sled: what is flushed is capped because the ledger is.
LEMMA FlushStep ==
    ASSUME IInv, Flush
    PROVE  IInv'
  <1>1. TypeOK'
    BY DEF IInv, TypeOK, Flush, spenderVars, tickVars, historyVars
  <1>2. CapHeld'
    BY DEF IInv, CapHeld, Flush, spenderVars
  <1>3. FetchedCapped' /\ Reserved' /\ VisitedOnce'
    BY TickUntouched DEF Flush, historyVars
  <1>4. Accounted'
    BY BooksUntouched DEF Flush
  <1> QED
    BY <1>1, <1>2, <1>3, <1>4 DEF IInv

\* A crash brings back a capped ledger; the books are kept where it brought
\* back what there was.
LEMMA CrashStep ==
    ASSUME IInv, Crash
    PROVE  IInv'
  <1>1. TypeOK'
    <2>1. clean' \in [Dids -> BOOLEAN]
      BY DEF Crash, IInv, TypeOK
    <2> QED
      BY <2>1 DEF IInv, TypeOK, Crash
  <1>2. CapHeld'
    BY DEF IInv, CapHeld, Crash
  <1>3. FetchedCapped' /\ VisitedOnce'
    BY DEF Crash, FetchedCapped, VisitedOnce
  <1>4. Reserved'
    BY LessReserved DEF Crash
  <1>5. Accounted'
    <2> SUFFICES ASSUME NEW d \in Dids, clean'[d]
                 PROVE  Fetch(d)'.current + spent'[d] = opened'[d] + regenerated'[d]
      BY DEF Accounted
    <2>1. /\ clean[d] /\ Fetch(d) = Fetch(d)'
          /\ spent' = spent /\ opened' = opened /\ regenerated' = regenerated
      BY DEF Crash
    <2> QED
      BY <2>1 DEF IInv, Accounted
  <1> QED
    BY <1>1, <1>2, <1>3, <1>4, <1>5 DEF IInv

\* Every step of every client, and every crash, keeps the invariant.
LEMMA NextIInv == IInv /\ [Next]_vars => IInv'
  <1> SUFFICES ASSUME IInv, [Next]_vars PROVE IInv'
    OBVIOUS
  <1>1. ASSUME NEW s \in Spenders, NEW d \in Dids, NEW a \in Amounts, RecordUsageRead(s, d, a)
        PROVE  IInv'
    BY <1>1, ReadStep
  <1>2. ASSUME NEW s \in Spenders, Serve(s)
        PROVE  IInv'
    BY <1>2, WriteStep, FailStep DEF Serve
  <1>3. CASE TickBegin
    BY <1>3, BeginStep
  <1>4. CASE TickStep
    BY <1>4, FetchStep, ReadFailsStep, UpdateStep, EndStep DEF TickStep
  <1>5. CASE Flush
    BY <1>5, FlushStep
  <1>6. CASE Crash
    BY <1>6, CrashStep
  <1>7. CASE UNCHANGED vars
    <2>1. UNCHANGED <<ledgerVars, spenderVars, tickVars, historyVars>>
      BY <1>7 DEF vars
    <2>2. TypeOK'
      BY <2>1 DEF IInv, TypeOK, ledgerVars, spenderVars, tickVars, historyVars
    <2>3. CapHeld' /\ Accounted'
      BY <2>1, LedgerUntouched
    <2>4. FetchedCapped' /\ Reserved' /\ VisitedOnce'
      BY <2>1, TickUntouched DEF historyVars
    <2> QED
      BY <2>2, <2>3, <2>4 DEF IInv
  <1> QED
    BY <1>1, <1>2, <1>3, <1>4, <1>5, <1>6, <1>7 DEF Next

-----------------------------------------------------------------------------
\* The ledger, its clients' copies and the histories are always well typed.
THEOREM LedgerTypeCorrect == Spec => []TypeOK
  <1>1. IInv => TypeOK
    BY DEF IInv
  <1> QED
    BY <1>1, InitIInv, NextIInv, PTL DEF Spec

\* No balance passes its cap and no accepted request exceeds the copy it was
\* checked against, for any number of clients (ManaRegenerator::tick,
\* record_usage).
THEOREM LedgerCapped == Spec => []CapHeld
  <1>1. IInv => CapHeld
    BY DEF IInv
  <1> QED
    BY <1>1, InitIInv, NextIInv, PTL DEF Spec

\* The books of a record balance until a stale write or a crash touches it
\* (record_usage, ManaRegenerator::tick).
THEOREM LedgerAccounted == Spec => []Accounted
  <1>1. IInv => Accounted
    BY DEF IInv
  <1> QED
    BY <1>1, InitIInv, NextIInv, PTL DEF Spec

\* A tick adds its rate to a record at most once (ManaRegenerator::tick).
THEOREM RateBounded == Spec => []RatePerTick
  <1>1. IInv => RatePerTick
    <2> SUFFICES ASSUME IInv, NEW d \in Dids PROVE regenerated[d] <= ticks * Rate
      BY DEF RatePerTick
    <2>1. /\ regenerated[d] + Due(d) <= ticks * Rate
          /\ regenerated[d] \in Nat /\ ticks \in Nat
      BY DEF IInv, Reserved, TypeOK
    <2>2. Due(d) \in Nat
      BY LedgerAssumption DEF Due
    <2> DEFINE total == ticks * Rate
    <2>3. total \in Nat /\ regenerated[d] + Due(d) <= total
      BY <2>1, LedgerAssumption
    <2> HIDE DEF total
    <2>4. regenerated[d] <= total
      BY <2>1, <2>2, <2>3
    <2> QED
      BY <2>4 DEF total
  <1> QED
    BY <1>1, InitIInv, NextIInv, PTL DEF Spec

\* The ledger's promises together, for any dids, clients and number of ticks.
THEOREM LedgerIsSound == Spec => []LedgerSound
  <1>1. TypeOK /\ CapHeld /\ Accounted /\ RatePerTick => LedgerSound
    BY DEF LedgerSound
  <1> QED
    BY <1>1, LedgerTypeCorrect, LedgerCapped, LedgerAccounted, RateBounded, PTL

-----------------------------------------------------------------------------
(* Policies and tokens.                                                     *)

UseRecord == [ts : 0..MaxSecs, amount : Quantities]
CallRecord == [user : Users, amount : Quantities, stale : BOOLEAN]

UseState ==
    /\ secs \in 0..MaxSecs
    /\ policy \in Policies
    /\ usage \in [Users -> Seq(UseRecord)]
    /\ call \in [Callers -> CallRecord \cup {NoCall}]
    /\ raced \in [Users -> BOOLEAN]
    /\ tokens \in [Users -> 0..MaxUsed]

\* The records of the period that ends now.
Recent(u) == get_usage_history(u, SaturatingSub(secs, policy.period))

\* A call that nothing has overtaken could be authorised again.
Covered(u, amount) ==
    /\ policy.type = "Quota" => get_usage(u) + amount <= policy.limit
    /\ policy.type = "RateLimit" => Total(usage[u], Recent(u)) + amount <= policy.limit

CallsCovered ==
    \A c \in Callers, u \in Users :
        call[c].user = u /\ ~call[c].stale => Covered(u, call[c].amount)

UseInv == UseState /\ CallsCovered /\ QuotaHeld /\ OvershootBounded /\ RateHeld

-----------------------------------------------------------------------------
\* Totals of records: typed, and growing with the positions.
LEMMA Totals ==
    ASSUME NEW s \in Seq(UseRecord), NEW P \in SUBSET DOMAIN s
    PROVE  /\ Total(s, P) \in Nat /\ Total(s, DOMAIN s) \in Nat
           /\ \A Q \in SUBSET P : Total(s, Q) \in Nat /\ Total(s, Q) <= Total(s, P)
<1> DEFINE f == [i \in DOMAIN s |-> s[i].amount]
           D == DOMAIN s
<1>1. IsFiniteSet(D)
  <2>1. D = 1..Len(s) /\ Len(s) \in Nat
    OBVIOUS
  <2>2. \A n \in Nat : IsFiniteSet(1..n)
    BY FS_Interval
  <2> QED  BY <2>1, <2>2
<1>2. \A i \in D : f[i] \in Nat
  <2>1. \A i \in D : s[i] \in UseRecord
    OBVIOUS
  <2> QED  BY <2>1, UseAssumption DEF UseRecord
<1> HIDE DEF f, D
<1>3. \A T \in SUBSET D : SumFunctionOnSet(f, T) \in Nat
  BY <1>1, <1>2, SumStep
<1>4. P \in SUBSET D /\ D \in SUBSET D /\ IsFiniteSet(P) /\ \A i \in P : f[i] \in Nat
  BY <1>1, <1>2, FS_Subset DEF D
<1>5. \A Q \in SUBSET P : SumFunctionOnSet(f, Q) <= SumFunctionOnSet(f, P)
  BY <1>4, SumGrows
<1> QED  BY <1>3, <1>4, <1>5 DEF Total, f, D

\* The next record adds its amount, where its position is counted.
LEMMA TotalAppend ==
    ASSUME NEW s \in Seq(UseRecord), NEW r \in UseRecord, NEW P \in SUBSET DOMAIN s
    PROVE  /\ Append(s, r) \in Seq(UseRecord)
           /\ DOMAIN Append(s, r) = DOMAIN s \cup {Len(s) + 1} /\ Len(s) + 1 \notin DOMAIN s
           /\ Total(Append(s, r), P) = Total(s, P)
           /\ Total(Append(s, r), P \cup {Len(s) + 1}) = Total(s, P) + r.amount
<1> DEFINE t == Append(s, r)
           n == Len(s) + 1
           f == [i \in DOMAIN s |-> s[i].amount]
           g == [i \in DOMAIN t |-> t[i].amount]
           D == DOMAIN t
<1>1. /\ t \in Seq(UseRecord) /\ DOMAIN s = 1..Len(s) /\ Len(s) \in Nat
      /\ D = 1..n /\ n \in D /\ n \notin DOMAIN s /\ D = DOMAIN s \cup {n}
      /\ \A i \in DOMAIN s : t[i] = s[i]
      /\ t[n] = r
  OBVIOUS
<1>2. IsFiniteSet(D)
  <2>1. \A k \in Nat : IsFiniteSet(1..k)
    BY FS_Interval
  <2> QED  BY <1>1, <2>1
<1>3. \A i \in D : t[i] \in UseRecord
  BY <1>1
<1>4. \A i \in D : g[i] \in Nat
  BY <1>3, UseAssumption DEF UseRecord
<1>5. P \in SUBSET D /\ n \in D \ P
  BY <1>1
<1>6. IsFiniteSet(P)
  BY <1>2, <1>5, FS_Subset
<1>7. \A i \in P : g[i] = f[i] /\ f[i] \in Nat
  BY <1>1, <1>4, <1>5
<1>8. g[n] = r.amount
  BY <1>1
<1> HIDE DEF f, g, t, n, D
<1>9. SumFunctionOnSet(g, P) = SumFunctionOnSet(f, P)
  BY <1>6, <1>7, SumSame
<1>10. SumFunctionOnSet(g, P \cup {n}) = SumFunctionOnSet(g, P) + g[n]
  BY <1>2, <1>4, <1>5, SumStep
<1> QED  BY <1>1, <1>8, <1>9, <1>10 DEF Total, f, g, t, n, D

-----------------------------------------------------------------------------
\* What is known of a call in progress.
LEMMA CallTypes ==
    ASSUME UseState, NEW c \in Callers
    PROVE  /\ call[c] # NoCall => call[c] \in CallRecord
           /\ call[c].user \in Users => call[c] # NoCall
           /\ call[c].amount \in Nat
           /\ call[c] # NoCall => call[c].amount <= Max(Quantities) /\ call[c].user \in Users
<1>1. IsFiniteSet(Quantities) /\ Quantities # {} /\ Quantities \subseteq Nat /\ Quantities \subseteq Int
  BY UseAssumption
<1>2. \A q \in Quantities : q <= Max(Quantities) /\ q \in Nat
  BY <1>1, MaxIs
<1>3. NoCall.user \notin Users /\ NoCall.amount \in Nat
  BY UseAssumption DEF NoCall
<1>4. CASE call[c] = NoCall
  BY <1>3, <1>4
<1>5. CASE call[c] # NoCall
  <2>1. call[c] \in CallRecord
    BY <1>5 DEF UseState
  <2>2. call[c].user \in Users /\ call[c].amount \in Quantities
    BY <2>1 DEF CallRecord
  <2> QED  BY <1>2, <1>5, <2>1, <2>2
<1> QED  BY <1>4, <1>5

LEMMA UseTypes ==
    ASSUME UseState, EnforcerStep PROVE UseState'
<1>1. ASSUME NEW c \in Callers, NEW u \in Users, NEW a \in Quantities, NEW e \in Expiries,
             CheckAuthorization(c, u, a, e)
      PROVE  UseState'
  BY <1>1 DEF CheckAuthorization, UseState, CallRecord
<1>2. ASSUME NEW c \in Callers, RecordUse(c) PROVE UseState'
  <2>1. call[c] \in CallRecord
    BY <1>2, CallTypes DEF RecordUse
  <2> DEFINE u == call[c].user
             r == [ts |-> secs, amount |-> call[c].amount]
  <2>2. u \in Users /\ r \in UseRecord /\ call[c].stale \in BOOLEAN
    BY <2>1 DEF CallRecord, UseRecord, UseState
  <2>3. usage' = [usage EXCEPT ![u] = Append(@, r)]
    BY <1>2 DEF RecordUse
  <2>4. usage' \in [Users -> Seq(UseRecord)]
    <3> HIDE DEF u, r
    <3>1. Append(usage[u], r) \in Seq(UseRecord)
      BY <2>2 DEF UseState
    <3> QED  BY <2>3, <3>1 DEF UseState
  <2>5. raced' \in [Users -> BOOLEAN]
    BY <1>2, <2>2 DEF RecordUse, UseState
  <2>6. \A d \in Callers : Overtaken(d, {u}) \in CallRecord \cup {NoCall}
    <3> SUFFICES ASSUME NEW d \in Callers PROVE Overtaken(d, {u}) \in CallRecord \cup {NoCall}
      OBVIOUS
    <3>1. CASE call[d].user = u
      BY <2>2, <3>1, CallTypes DEF Overtaken, CallRecord
    <3>2. CASE call[d].user # u
      BY <3>2 DEF Overtaken, UseState
    <3> QED  BY <3>1, <3>2
  <2>7. call' \in [Callers -> CallRecord \cup {NoCall}]
    BY <1>2, <2>6 DEF RecordUse
  <2> QED  BY <1>2, <2>4, <2>5, <2>7 DEF RecordUse, UseState
<1>3. ASSUME NEW c \in Callers, AbandonUse(c) PROVE UseState'
  BY <1>3 DEF AbandonUse, UseState
<1>4. ASSUME NEW t \in 0..MaxSecs, SetSecs(t) PROVE UseState'
  <2>1. \A d \in Callers : Overtaken(d, Users) \in CallRecord \cup {NoCall}
    <3> SUFFICES ASSUME NEW d \in Callers PROVE Overtaken(d, Users) \in CallRecord \cup {NoCall}
      OBVIOUS
    <3>1. CASE call[d].user \in Users
      BY <3>1, CallTypes DEF Overtaken, CallRecord
    <3>2. CASE call[d].user \notin Users
      BY <3>2 DEF Overtaken, UseState
    <3> QED  BY <3>1, <3>2
  <2>2. call' \in [Callers -> CallRecord \cup {NoCall}]
    BY <1>4, <2>1 DEF SetSecs, UseState
  <2> QED  BY <1>4, <2>2 DEF SetSecs, UseState
<1> QED  BY <1>1, <1>2, <1>3, <1>4 DEF EnforcerStep


\* What each caller is authorised to use for a user.
Share(u) == [c \in Callers |-> IF call[c].user = u THEN call[c].amount ELSE 0]

LEMMA Shares ==
    ASSUME UseState, NEW u \in Users
    PROVE  /\ \A c \in Callers : /\ Share(u)[c] \in Nat /\ Share(u)[c] <= Max(Quantities)
                                 /\ Share(u)[c] # 0 => call[c] # NoCall
           /\ Promised(u) = SumFunctionOnSet(Share(u), Callers) /\ Promised(u) \in Nat
           /\ Max(Quantities) \in Nat
<1>1. Max(Quantities) \in Nat
  <2>1. IsFiniteSet(Quantities) /\ Quantities # {} /\ Quantities \subseteq Nat /\ Quantities \subseteq Int
    BY UseAssumption
  <2> QED  BY <2>1, MaxIs
<1>2. ASSUME NEW c \in Callers
      PROVE  /\ Share(u)[c] \in Nat /\ Share(u)[c] <= Max(Quantities)
             /\ Share(u)[c] # 0 => call[c] # NoCall
  BY <1>1, CallTypes DEF Share
<1>3. Promised(u) = SumFunctionOnSet(Share(u), Callers)
  BY DEF Promised, Share
<1>4. SumFunctionOnSet(Share(u), Callers) \in Nat
  BY <1>2, UseAssumption, SumStep
<1> QED  BY <1>1, <1>2, <1>3, <1>4

\* The same of the next state.
LEMMA SharesPrimed ==
    UseState' => (\A v \in Users :
        /\ \A c \in Callers : Share(v)[c] \in Nat /\ Share(v)[c] <= Max(Quantities)
        /\ Promised(v) = SumFunctionOnSet(Share(v), Callers))'
<1>1. UseState => \A v \in Users :
         /\ \A c \in Callers : Share(v)[c] \in Nat /\ Share(v)[c] <= Max(Quantities)
         /\ Promised(v) = SumFunctionOnSet(Share(v), Callers)
  BY Shares
<1> QED  BY <1>1, PTL


\* Shares that stay the same promise the same.
LEMMA PromisedSame ==
    ASSUME UseState, UseState', NEW u \in Users,
           \A c \in Callers : Share(u)'[c] = Share(u)[c]
    PROVE  Promised(u)' = Promised(u)
<1>1. /\ Promised(u) = SumFunctionOnSet(Share(u), Callers)
      /\ Promised(u)' = SumFunctionOnSet(Share(u)', Callers)
      /\ \A c \in Callers : Share(u)[c] \in Nat
  BY Shares, SharesPrimed
<1> DEFINE f == Share(u)
           g == Share(u)'
<1>2. \A c \in Callers : f[c] \in Nat /\ g[c] = f[c]
  BY <1>1
<1> HIDE DEF f, g
<1>3. SumFunctionOnSet(g, Callers) = SumFunctionOnSet(f, Callers)
  BY <1>2, UseAssumption, SumSame
<1> QED  BY <1>1, <1>3 DEF f, g

\* One share that changes changes the promise by as much.
LEMMA PromisedUpdate ==
    ASSUME UseState, UseState', NEW u \in Users, NEW c \in Callers,
           \A d \in Callers : d # c => Share(u)'[d] = Share(u)[d]
    PROVE  Promised(u)' = Promised(u) - Share(u)[c] + Share(u)'[c]
<1>1. /\ Promised(u) = SumFunctionOnSet(Share(u), Callers)
      /\ Promised(u)' = SumFunctionOnSet(Share(u)', Callers)
      /\ \A d \in Callers : Share(u)[d] \in Nat /\ Share(u)'[d] \in Nat
  BY Shares, SharesPrimed
<1> DEFINE f == Share(u)
           g == Share(u)'
<1>2. \A d \in Callers : f[d] \in Nat /\ g[d] \in Nat /\ (d # c => g[d] = f[d])
  BY <1>1
<1> HIDE DEF f, g
<1>3. SumFunctionOnSet(g, Callers) = SumFunctionOnSet(f, Callers) - f[c] + g[c]
  BY <1>2, UseAssumption, SumUpdate
<1> QED  BY <1>1, <1>3 DEF f, g

\* What the other callers may have been promised.
LEMMA OthersPromised ==
    ASSUME UseState', NEW u \in Users, NEW c \in Callers
    PROVE  Promised(u)' <= Share(u)'[c] + (Cardinality(Callers) - 1) * Max(Quantities)
<1> DEFINE g == Share(u)'
           R == Callers \ {c}
           m == Max(Quantities)
<1>1. /\ Promised(u)' = SumFunctionOnSet(g, Callers)
      /\ \A d \in Callers : g[d] \in Nat /\ g[d] <= m
  BY SharesPrimed
<1>2. m \in Nat
  <2>1. IsFiniteSet(Quantities) /\ Quantities # {} /\ Quantities \subseteq Nat /\ Quantities \subseteq Int
    BY UseAssumption
  <2> QED  BY <2>1, MaxIs
<1>3. IsFiniteSet(R) /\ Cardinality(R) = Cardinality(Callers) - 1
  BY UseAssumption, FS_RemoveElement
<1>4. R \in SUBSET Callers /\ c \in Callers \ R /\ R \cup {c} = Callers
  OBVIOUS
<1> HIDE DEF g, R, m
<1>5. SumFunctionOnSet(g, Callers) = SumFunctionOnSet(g, R) + g[c] /\ SumFunctionOnSet(g, R) \in Nat
  BY <1>1, <1>4, UseAssumption, SumStep
<1>6. SumFunctionOnSet(g, R) <= Cardinality(R) * m
  BY <1>1, <1>2, <1>3, <1>4, SumBound
<1>7. Cardinality(R) \in Nat
  BY <1>3, FS_CardinalityType
<1>8. \A x, y, z, n \in Nat : x <= n * z => x + y <= y + n * z
  OBVIOUS
<1>9. SumFunctionOnSet(g, R) + g[c] <= g[c] + Cardinality(R) * m
  BY <1>1, <1>2, <1>5, <1>6, <1>7, <1>8
<1> QED  BY <1>1, <1>3, <1>5, <1>9 DEF g, m

-----------------------------------------------------------------------------
\* check_authorization keeps the invariant.
LEMMA CheckKeeps ==
    ASSUME UseInv, UseState', NEW c \in Callers, NEW u \in Users, NEW a \in Quantities,
           NEW e, CheckAuthorization(c, u, a, e)
    PROVE  UseInv'
<1>0. UseState
  BY DEF UseInv
<1>1. UNCHANGED <<secs, policy, usage, raced>> /\ call[c] = NoCall /\ PolicyAllows(u, a)
  BY DEF CheckAuthorization
<1>2. /\ call'[c] = [user |-> u, amount |-> a, stale |-> FALSE]
      /\ \A d \in Callers : d # c => call'[d] = call[d]
  BY <1>0 DEF CheckAuthorization, UseState
<1>3. CallsCovered'
  <2> SUFFICES ASSUME NEW d \in Callers, NEW v \in Users, call'[d].user = v, ~call'[d].stale
               PROVE  Covered(v, call'[d].amount)
    BY <1>1 DEF CallsCovered, Covered, get_usage, Recent, get_usage_history
  <2>1. CASE d = c
    BY <1>1, <1>2, <2>1 DEF PolicyAllows, Recent, Covered
  <2>2. CASE d # c
    BY <1>2, <2>2 DEF UseInv, CallsCovered
  <2> QED  BY <2>1, <2>2
<1>4. QuotaHeld' /\ RateHeld'
  BY <1>1 DEF UseInv, QuotaHeld, RateHeld, get_usage
<1>5. OvershootBounded'
  <2> SUFFICES ASSUME policy.type = "Quota", NEW v \in Users
               PROVE  get_usage(v) + Promised(v)'
                        <= policy.limit + (Cardinality(Callers) - 1) * Max(Quantities)
    BY <1>1 DEF OvershootBounded, get_usage
  <2>1. get_usage(v) \in Nat
    BY <1>0, Totals DEF get_usage, UseState
  <2>2. CASE v = u
    <3>1. Share(v)'[c] = a
      BY <1>2, <2>2 DEF Share
    <3>2. get_usage(v) + a <= policy.limit
      BY <1>1, <2>2 DEF PolicyAllows
    <3>3. Promised(v)' <= a + (Cardinality(Callers) - 1) * Max(Quantities)
      BY <3>1, OthersPromised
    <3>4. policy.limit \in Nat /\ a \in Nat
      BY <1>0, UseAssumption DEF UseState
    <3> DEFINE x == get_usage(v)
               y == Promised(v)'
               l == policy.limit
               z == (Cardinality(Callers) - 1) * Max(Quantities)
    <3>5. y \in Nat /\ z \in Int
      <4>1. Cardinality(Callers) \in Nat /\ Max(Quantities) \in Nat
        BY <1>0, Shares, UseAssumption, FS_CardinalityType
      <4>2. \A g : (\A d \in Callers : g[d] \in Nat) => SumFunctionOnSet(g, Callers) \in Nat
        BY UseAssumption, SumStep
      <4> QED  BY <4>1, <4>2, SharesPrimed
    <3> HIDE DEF x, y, l, z
    <3>6. x + y <= l + z
      BY <2>1, <3>2, <3>3, <3>4, <3>5 DEF x, y, l, z
    <3> QED  BY <3>6 DEF x, y, l, z
  <2>3. CASE v # u
    <3>1. NoCall.user # v
      BY UseAssumption DEF NoCall
    <3>2. \A d \in Callers : Share(v)'[d] = Share(v)[d]
      BY <1>1, <1>2, <2>3, <3>1 DEF Share
    <3>3. Promised(v)' = Promised(v)
      BY <1>0, <3>2, PromisedSame
    <3> QED  BY <3>3 DEF UseInv, OvershootBounded
  <2> QED  BY <2>2, <2>3
<1> QED  BY <1>3, <1>4, <1>5 DEF UseInv


\* record_usage keeps the invariant.
LEMMA RecordKeeps ==
    ASSUME UseInv, UseState', NEW c \in Callers, RecordUse(c) PROVE UseInv'
<1>0. UseState
  BY DEF UseInv
<1>1. UNCHANGED <<secs, policy, tokens>> /\ call[c] \in CallRecord
  BY <1>0, CallTypes DEF RecordUse
<1>a. PICK u \in Users, r \in UseRecord :
         u = call[c].user /\ r = [ts |-> secs, amount |-> call[c].amount]
  BY <1>0, <1>1 DEF CallRecord, UseRecord, UseState
<1>b. PICK n : n = Len(usage[u]) + 1
  OBVIOUS
<1>2. /\ u \in Users /\ u = call[c].user /\ r \in UseRecord /\ call[c].stale \in BOOLEAN
      /\ r.ts = secs /\ r.amount = call[c].amount
  BY <1>1, <1>a DEF CallRecord
<1>3. /\ usage'[u] = Append(usage[u], r) /\ \A v \in Users : v # u => usage'[v] = usage[v]
      /\ raced'[u] = (raced[u] \/ call[c].stale) /\ \A v \in Users : v # u => raced'[v] = raced[v]
  BY <1>0, <1>2, <1>a DEF RecordUse, UseState
<1>4. /\ call'[c] = NoCall
      /\ \A d \in Callers : d # c => call'[d] = Overtaken(d, {u})
  BY <1>2 DEF RecordUse
<1>5. \A d \in Callers : d # c => /\ call'[d].user = call[d].user /\ call'[d].amount = call[d].amount
                                  /\ ~call'[d].stale => call'[d] = call[d] /\ call[d].user # u
  <2> SUFFICES ASSUME NEW d \in Callers, d # c
               PROVE  /\ call'[d].user = call[d].user /\ call'[d].amount = call[d].amount
                      /\ ~call'[d].stale => call'[d] = call[d] /\ call[d].user # u
    OBVIOUS
  <2>1. CASE call[d].user = u
    <3>1. call[d] \in CallRecord
      BY <1>0, <1>2, <2>1, CallTypes
    <3>2. call'[d] = [call[d] EXCEPT !.stale = TRUE]
      BY <1>4, <2>1 DEF Overtaken
    <3> QED  BY <3>1, <3>2 DEF CallRecord
  <2>2. CASE call[d].user # u
    BY <1>4, <2>2 DEF Overtaken
  <2> QED  BY <2>1, <2>2
<1>6. usage[u] \in Seq(UseRecord) /\ \A v \in Users : usage[v] \in Seq(UseRecord)
  BY <1>0, <1>2 DEF UseState
<1>7. /\ DOMAIN usage'[u] = DOMAIN usage[u] \cup {n} /\ n \notin DOMAIN usage[u]
      /\ \A P \in SUBSET DOMAIN usage[u] : /\ Total(usage'[u], P) = Total(usage[u], P)
                                           /\ Total(usage'[u], P \cup {n}) = Total(usage[u], P) + r.amount
  <2> DEFINE s == usage[u]
  <2>1. s \in Seq(UseRecord) /\ usage'[u] = Append(s, r) /\ n = Len(s) + 1
    BY <1>3, <1>6, <1>b
  <2> HIDE DEF s
  <2>2. {} \in SUBSET DOMAIN s
    OBVIOUS
  <2>3. DOMAIN Append(s, r) = DOMAIN s \cup {n} /\ n \notin DOMAIN s
    BY <1>2, <2>1, <2>2, TotalAppend
  <2>4. \A P \in SUBSET DOMAIN s : /\ Total(Append(s, r), P) = Total(s, P)
                                   /\ Total(Append(s, r), P \cup {n}) = Total(s, P) + r.amount
    BY <1>2, <2>1, TotalAppend
  <2> QED  BY <2>1, <2>3, <2>4 DEF s
<1>8. r.amount \in Nat
  BY <1>2, UseAssumption DEF UseRecord
<1>9. get_usage(u)' = get_usage(u) + r.amount /\ \A v \in Users : v # u => get_usage(v)' = get_usage(v)
  <2>1. get_usage(u)' = Total(usage'[u], DOMAIN usage[u] \cup {n})
    BY <1>7 DEF get_usage
  <2>2. get_usage(u)' = get_usage(u) + r.amount
    BY <1>7, <2>1 DEF get_usage
  <2> QED  BY <1>3, <2>2 DEF get_usage
<1>10. /\ ~call[c].stale /\ policy.type = "Quota" => get_usage(u) + r.amount <= policy.limit
       /\ ~call[c].stale /\ policy.type = "RateLimit" =>
             Total(usage[u], Recent(u)) + r.amount <= policy.limit
  BY <1>2 DEF UseInv, CallsCovered, Covered
<1>11. QuotaHeld'
  <2> SUFFICES ASSUME NEW v \in Users, policy.type = "Quota", ~raced'[v]
               PROVE  get_usage(v)' <= policy.limit
    BY <1>1 DEF QuotaHeld
  <2>1. CASE v = u
    BY <1>2, <1>3, <1>9, <1>10, <2>1
  <2>2. CASE v # u
    BY <1>3, <1>9, <2>2 DEF UseInv, QuotaHeld
  <2> QED  BY <2>1, <2>2
<1>12. CallsCovered'
  <2> SUFFICES ASSUME NEW d \in Callers, NEW v \in Users, call'[d].user = v, ~call'[d].stale
               PROVE  Covered(v, call[d].amount)'
    BY <1>1 DEF CallsCovered
  <2>1. NoCall.user \notin Users
    BY UseAssumption DEF NoCall
  <2>2. d # c /\ call'[d] = call[d] /\ v # u
    BY <1>4, <1>5, <2>1
  <2>3. usage'[v] = usage[v] /\ get_usage(v)' = get_usage(v)
    BY <1>3, <1>9, <2>2
  <2>4. Recent(v)' = Recent(v)
    BY <1>1, <2>3 DEF Recent, get_usage_history
  <2>5. Covered(v, call[d].amount)
    BY <2>2 DEF UseInv, CallsCovered
  <2> QED  BY <1>1, <2>2, <2>3, <2>4, <2>5 DEF Covered
<1>13. OvershootBounded'
  <2> SUFFICES ASSUME policy.type = "Quota", NEW v \in Users
               PROVE  get_usage(v)' + Promised(v)'
                        <= policy.limit + (Cardinality(Callers) - 1) * Max(Quantities)
    BY <1>1 DEF OvershootBounded
  <2>1. NoCall.user # v
    BY UseAssumption DEF NoCall
  <2>2. \A d \in Callers : d # c => Share(v)'[d] = Share(v)[d]
    BY <1>5 DEF Share
  <2>3. Share(v)'[c] = 0 /\ Share(v)[c] = IF v = u THEN r.amount ELSE 0
    BY <1>2, <1>4, <2>1 DEF Share
  <2>4. Promised(v)' = Promised(v) - Share(v)[c] + 0
    BY <1>0, <2>2, <2>3, PromisedUpdate
  <2>5. Promised(v) \in Nat /\ get_usage(v) \in Nat
    BY <1>0, <1>6, Shares, Totals DEF get_usage
  <2>6. get_usage(v)' + Promised(v)' = get_usage(v) + Promised(v)
    <3>1. CASE v = u
      BY <1>8, <1>9, <2>3, <2>4, <2>5, <3>1
    <3>2. CASE v # u
      BY <1>9, <2>3, <2>4, <2>5, <3>2
    <3> QED  BY <3>1, <3>2
  <2> QED  BY <2>6 DEF UseInv, OvershootBounded
<1>14. RateHeld'
  <2> SUFFICES ASSUME NEW v \in Users, policy.type = "RateLimit", ~raced'[v], NEW from \in 0..MaxSecs
               PROVE  Total(usage'[v], {i \in DOMAIN usage'[v] :
                                          usage'[v][i].ts \in from..(from + policy.period)}) <= policy.limit
    BY <1>1 DEF RateHeld
  <2>1. CASE v = u
    <3> DEFINE P == {i \in DOMAIN usage[u] : usage[u][i].ts \in from..(from + policy.period)}
               Q == {i \in DOMAIN usage'[u] : usage'[u][i].ts \in from..(from + policy.period)}
    <3>1. ~raced[u] /\ ~call[c].stale
      BY <1>2, <1>3, <2>1
    <3>2. Total(usage[u], P) <= policy.limit
      BY <1>2, <2>1, <3>1 DEF UseInv, RateHeld
    <3>3. /\ \A i \in DOMAIN usage[u] : usage'[u][i] = usage[u][i]
          /\ usage'[u][n] = r
      BY <1>2, <1>3, <1>6, <1>b
    <3>4. P \in SUBSET DOMAIN usage[u]
      OBVIOUS
    <3>5. CASE r.ts \in from..(from + policy.period)
      <4>1. Q = P \cup {n}
        BY <1>7, <3>3, <3>5
      <4>2. Total(usage'[u], Q) = Total(usage[u], P) + r.amount
        BY <1>7, <3>4, <4>1
      <4>3. P \subseteq Recent(u)
        <5>1. policy.period \in Nat /\ secs \in Nat /\ from \in Nat
          BY <1>0, UseAssumption DEF UseState
        <5>2. SaturatingSub(secs, policy.period) <= from
          BY <1>2, <3>5, <5>1 DEF SaturatingSub
        <5>3. SaturatingSub(secs, policy.period) \in Nat
          BY <5>1 DEF SaturatingSub
        <5>4. ASSUME NEW i \in P PROVE usage[u][i].ts >= SaturatingSub(secs, policy.period)
          BY <5>1, <5>2, <5>3
        <5> QED  BY <5>4 DEF Recent, get_usage_history
      <4>4. Recent(u) \in SUBSET DOMAIN usage[u]
        BY DEF Recent, get_usage_history
      <4>5. Total(usage[u], P) <= Total(usage[u], Recent(u)) /\ Total(usage[u], P) \in Nat
            /\ Total(usage[u], Recent(u)) \in Nat
        <5> HIDE DEF P
        <5> QED  BY <1>6, <4>3, <4>4, Totals
      <4>6. Total(usage[u], Recent(u)) + r.amount <= policy.limit /\ policy.limit \in Nat
        BY <1>0, <1>10, <3>1, UseAssumption DEF UseState
      <4> HIDE DEF P, Q
      <4>7. Total(usage'[u], Q) <= policy.limit
        BY <1>8, <4>2, <4>5, <4>6
      <4> QED  BY <2>1, <4>7 DEF Q
    <3>6. CASE r.ts \notin from..(from + policy.period)
      <4>1. Q = P
        BY <1>7, <3>3, <3>6
      <4>2. Total(usage'[u], Q) = Total(usage[u], P)
        BY <1>7, <3>4, <4>1
      <4> QED  BY <2>1, <3>2, <4>2
    <3> QED  BY <3>5, <3>6
  <2>2. CASE v # u
    BY <1>3, <2>2 DEF UseInv, RateHeld
  <2> QED  BY <2>1, <2>2
<1> QED  BY <1>11, <1>12, <1>13, <1>14 DEF UseInv


\* A call that ends without a record keeps the invariant.
LEMMA AbandonKeeps ==
    ASSUME UseInv, UseState', NEW c \in Callers, AbandonUse(c) PROVE UseInv'
<1>0. UseState
  BY DEF UseInv
<1>1. /\ UNCHANGED <<secs, policy, usage, raced>>
      /\ call'[c] = NoCall /\ \A d \in Callers : d # c => call'[d] = call[d]
  BY <1>0 DEF AbandonUse, UseState
<1>2. NoCall.user \notin Users
  BY UseAssumption DEF NoCall
<1>3. CallsCovered'
  <2> SUFFICES ASSUME NEW d \in Callers, NEW v \in Users, call'[d].user = v, ~call'[d].stale
               PROVE  Covered(v, call'[d].amount)
    BY <1>1 DEF CallsCovered, Covered, get_usage, Recent, get_usage_history
  <2>1. call'[d] = call[d]
    BY <1>1, <1>2
  <2> QED  BY <2>1 DEF UseInv, CallsCovered
<1>4. QuotaHeld' /\ RateHeld'
  BY <1>1 DEF UseInv, QuotaHeld, RateHeld, get_usage
<1>5. OvershootBounded'
  <2> SUFFICES ASSUME policy.type = "Quota", NEW v \in Users
               PROVE  get_usage(v) + Promised(v)'
                        <= policy.limit + (Cardinality(Callers) - 1) * Max(Quantities)
    BY <1>1 DEF OvershootBounded, get_usage
  <2>1. \A d \in Callers : d # c => Share(v)'[d] = Share(v)[d]
    BY <1>1 DEF Share
  <2>2. Share(v)'[c] = 0
    BY <1>1, <1>2 DEF Share
  <2>3. Promised(v)' = Promised(v) - Share(v)[c] + 0
    BY <1>0, <2>1, <2>2, PromisedUpdate
  <2>4. Promised(v) \in Nat /\ Share(v)[c] \in Nat /\ get_usage(v) \in Nat
    BY <1>0, Shares, Totals DEF get_usage, UseState
  <2>5. get_usage(v) + Promised(v)
          <= policy.limit + (Cardinality(Callers) - 1) * Max(Quantities)
    BY DEF UseInv, OvershootBounded
  <2>6. policy.limit + (Cardinality(Callers) - 1) * Max(Quantities) \in Int
    <3>1. Cardinality(Callers) \in Nat /\ Max(Quantities) \in Nat /\ policy.limit \in Nat
      BY <1>0, Shares, UseAssumption, FS_CardinalityType DEF UseState
    <3> QED  BY <3>1
  <2> DEFINE bound == policy.limit + (Cardinality(Callers) - 1) * Max(Quantities)
  <2> HIDE DEF bound
  <2>7. get_usage(v) + Promised(v)' <= bound
    BY <2>3, <2>4, <2>5, <2>6 DEF bound
  <2> QED  BY <2>7 DEF bound
<1> QED  BY <1>3, <1>4, <1>5 DEF UseInv

\* A clock that goes on only lets records leave the period; one that is set back
\* overtakes every call.
LEMMA ClockKeeps ==
    ASSUME UseInv, UseState', NEW t \in 0..MaxSecs, SetSecs(t) PROVE UseInv'
<1>0. UseState
  BY DEF UseInv
<1>1. UNCHANGED <<policy, usage, raced>> /\ secs' = t
  BY DEF SetSecs
<1>2. \A d \in Callers : /\ call'[d].user = call[d].user /\ call'[d].amount = call[d].amount
                         /\ call'[d].user \in Users /\ ~call'[d].stale => call'[d] = call[d] /\ t >= secs
  <2> SUFFICES ASSUME NEW d \in Callers
               PROVE  /\ call'[d].user = call[d].user /\ call'[d].amount = call[d].amount
                      /\ call'[d].user \in Users /\ ~call'[d].stale => call'[d] = call[d] /\ t >= secs
    OBVIOUS
  <2>1. CASE t < secs /\ call[d].user \in Users
    <3>1. call'[d] = [call[d] EXCEPT !.stale = TRUE] /\ call[d] \in CallRecord
      BY <1>0, <2>1, CallTypes DEF SetSecs, Overtaken
    <3> QED  BY <3>1 DEF CallRecord
  <2>2. CASE t < secs /\ call[d].user \notin Users
    BY <2>2 DEF SetSecs, Overtaken
  <2>3. CASE ~(t < secs)
    <3>1. call'[d] = call[d]
      BY <2>3 DEF SetSecs
    <3>2. t \in Nat /\ secs \in Nat
      BY <1>0 DEF UseState
    <3> QED  BY <2>3, <3>1, <3>2
  <2> QED  BY <2>1, <2>2, <2>3
<1>3. CallsCovered'
  <2> SUFFICES ASSUME NEW d \in Callers, NEW v \in Users, call'[d].user = v, ~call'[d].stale
               PROVE  Covered(v, call[d].amount)'
    BY DEF CallsCovered
  <2>1. call'[d] = call[d] /\ t >= secs /\ Covered(v, call[d].amount)
    BY <1>2 DEF UseInv, CallsCovered
  <2>2. Recent(v)' \subseteq Recent(v)
    <3>1. secs \in Nat /\ t \in Nat /\ policy.period \in Nat /\ usage[v] \in Seq(UseRecord)
      BY <1>0, UseAssumption DEF UseState
    <3>2. /\ SaturatingSub(secs, policy.period) <= SaturatingSub(t, policy.period)
          /\ SaturatingSub(secs, policy.period) \in Nat /\ SaturatingSub(t, policy.period) \in Nat
      BY <2>1, <3>1 DEF SaturatingSub
    <3>3. \A i \in DOMAIN usage[v] : usage[v][i] \in UseRecord
      BY <3>1
    <3>4. \A i \in DOMAIN usage[v] : usage[v][i].ts \in Nat
      BY <3>3 DEF UseRecord
    <3>5. \A i \in DOMAIN usage[v] : usage[v][i].ts >= SaturatingSub(t, policy.period) =>
                                     usage[v][i].ts >= SaturatingSub(secs, policy.period)
      BY <3>2, <3>4
    <3>6. Recent(v)' = get_usage_history(v, SaturatingSub(t, policy.period))
      BY <1>1 DEF Recent, get_usage_history, SaturatingSub
    <3> QED  BY <3>5, <3>6 DEF Recent, get_usage_history
  <2>3. Recent(v) \in SUBSET DOMAIN usage[v] /\ usage[v] \in Seq(UseRecord)
    BY <1>0 DEF Recent, get_usage_history, UseState
  <2> DEFINE old == Recent(v)
             new == Recent(v)'
             s == usage[v]
  <2>4. Total(s, new) <= Total(s, old) /\ Total(s, new) \in Nat /\ Total(s, old) \in Nat
    <3>1. s \in Seq(UseRecord) /\ old \in SUBSET DOMAIN s /\ new \in SUBSET old
      BY <2>2, <2>3
    <3> HIDE DEF old, new, s
    <3> QED  BY <3>1, Totals
  <2>5. call[d].amount \in Nat /\ policy.limit \in Nat
    BY <1>0, CallTypes, UseAssumption DEF UseState
  <2>6. policy.type = "RateLimit" => Total(s, new) + call[d].amount <= policy.limit
    <3>1. policy.type = "RateLimit" => Total(s, old) + call[d].amount <= policy.limit
      BY <2>1 DEF Covered
    <3> HIDE DEF s, old, new
    <3> QED  BY <2>4, <2>5, <3>1
  <2> QED  BY <1>1, <2>1, <2>6 DEF Covered, get_usage
<1>4. QuotaHeld' /\ RateHeld'
  BY <1>1 DEF UseInv, QuotaHeld, RateHeld, get_usage
<1>5. OvershootBounded'
  <2> SUFFICES ASSUME policy.type = "Quota", NEW v \in Users
               PROVE  get_usage(v) + Promised(v)'
                        <= policy.limit + (Cardinality(Callers) - 1) * Max(Quantities)
    BY <1>1 DEF OvershootBounded, get_usage
  <2>1. \A d \in Callers : Share(v)'[d] = Share(v)[d]
    BY <1>2 DEF Share
  <2>2. Promised(v)' = Promised(v)
    BY <1>0, <2>1, PromisedSame
  <2> QED  BY <2>2 DEF UseInv, OvershootBounded
<1> QED  BY <1>3, <1>4, <1>5 DEF UseInv

\* The token ledger shares nothing with the enforcer.
LEMMA TokensKeep ==
    ASSUME UseInv, TokenStep PROVE UseInv'
<1>1. UNCHANGED <<secs, policy, usage, call, raced>>
  BY DEF TokenStep, RecordTokens, MintTokens, TransferTokens
<1>2. tokens' \in [Users -> 0..MaxUsed]
  <2>1. tokens \in [Users -> 0..MaxUsed] /\ MaxUsed \in Nat /\ Quantities \subseteq Nat
    BY UseAssumption DEF UseInv, UseState
  <2>2. \A n \in 0..MaxUsed, a \in Quantities : SaturatingSub(n, a) \in 0..MaxUsed
    BY <2>1 DEF SaturatingSub
  <2>3. ASSUME NEW u \in Users, NEW a \in Quantities, RecordTokens(u, a) \/ MintTokens(u, a)
        PROVE  tokens' \in [Users -> 0..MaxUsed]
    BY <2>1, <2>2, <2>3 DEF RecordTokens, MintTokens
  <2>4. ASSUME NEW from \in Users, NEW to \in Users, NEW a \in Quantities, TransferTokens(from, to, a)
        PROVE  tokens' \in [Users -> 0..MaxUsed]
    <3>1. [tokens EXCEPT ![from] = @ + a] \in [Users -> 0..MaxUsed]
      BY <2>1, <2>4 DEF TransferTokens
    <3> QED  BY <2>2, <2>4, <3>1 DEF TransferTokens
  <2> QED  BY <2>3, <2>4 DEF TokenStep
<1>3. CallsCovered' /\ QuotaHeld' /\ RateHeld'
  BY <1>1 DEF UseInv, CallsCovered, Covered, QuotaHeld, RateHeld, get_usage, Recent, get_usage_history
<1>4. OvershootBounded'
  BY <1>1 DEF UseInv, OvershootBounded, Promised, get_usage
<1> QED  BY <1>1, <1>2, <1>3, <1>4 DEF UseInv, UseState

\* A transfer leaves no more than there was, to oneself or to another.
LEMMA TransferCreatesNone ==
    ASSUME UseState, NEW from \in Users, NEW to \in Users, NEW a \in Quantities,
           TransferTokens(from, to, a)
    PROVE  AllLeft' <= AllLeft
<1> DEFINE f == [u \in Users |-> Left(tokens[u])]
           g == [u \in Users |-> Left([tokens EXCEPT ![from] = @ + a][u])]
           h == [u \in Users |-> Left(tokens'[u])]
<1>1. /\ tokens \in [Users -> 0..MaxUsed] /\ MaxUsed \in Nat /\ a \in Nat /\ TokenMax \in Nat
      /\ IsFiniteSet(Users)
  BY UseAssumption DEF UseState
<1>2. \A n \in Nat, k \in Nat : SaturatingSub(n, k) \in Nat
  BY DEF SaturatingSub
<1>3. \A u \in Users : tokens[u] \in Nat /\ [tokens EXCEPT ![from] = @ + a][u] \in Nat
  BY <1>1
<1>4. tokens' = [u \in Users |-> IF u = to
                                 THEN SaturatingSub([tokens EXCEPT ![from] = @ + a][u], a)
                                 ELSE [tokens EXCEPT ![from] = @ + a][u]]
  BY <1>1 DEF TransferTokens
<1>5. \A u \in Users : f[u] \in Nat /\ g[u] \in Nat /\ h[u] \in Nat
  BY <1>1, <1>2, <1>3, <1>4 DEF Left
<1>6. \A u \in Users : (u # from => g[u] = f[u]) /\ (u # to => h[u] = g[u])
  BY <1>1, <1>4
<1>7. g[from] = f[from] - a
  <2>1. tokens[from] \in Nat /\ Left(tokens[from]) >= a
    BY <1>3 DEF TransferTokens
  <2>2. Left(tokens[from] + a) = Left(tokens[from]) - a
    BY <1>1, <2>1 DEF Left, SaturatingSub
  <2> QED  BY <1>1, <2>2
<1>8. h[to] <= g[to] + a
  <2> DEFINE n == [tokens EXCEPT ![from] = @ + a][to]
  <2>1. n \in Nat /\ h[to] = Left(SaturatingSub(n, a)) /\ g[to] = Left(n)
    BY <1>3, <1>4
  <2> HIDE DEF n, g, h
  <2>2. Left(SaturatingSub(n, a)) <= Left(n) + a
    BY <1>1, <2>1 DEF Left, SaturatingSub
  <2> QED  BY <2>1, <2>2
<1>9. AllLeft = SumFunctionOnSet(f, Users) /\ AllLeft' = SumFunctionOnSet(h, Users)
  BY DEF AllLeft, Left
<1> HIDE DEF f, g, h
<1>10. SumFunctionOnSet(g, Users) = SumFunctionOnSet(f, Users) - f[from] + g[from]
  BY <1>1, <1>5, <1>6, SumUpdate
<1>11. SumFunctionOnSet(h, Users) = SumFunctionOnSet(g, Users) - g[to] + h[to]
  BY <1>1, <1>5, <1>6, SumUpdate
<1>12. SumFunctionOnSet(f, Users) \in Nat
  BY <1>1, <1>5, SumStep
<1> QED  BY <1>1, <1>5, <1>7, <1>8, <1>9, <1>10, <1>11, <1>12

-----------------------------------------------------------------------------
LEMMA UseInvariant == EconomySpec => []UseInv
<1>1. EconomyInit => UseInv
  <2> SUFFICES ASSUME EconomyInit PROVE UseInv
    OBVIOUS
  <2>1. UseState
    <3>1. <<>> \in Seq(UseRecord) /\ MaxSecs \in Nat /\ MaxUsed \in Nat
      BY UseAssumption
    <3> QED  BY <3>1 DEF EconomyInit, UseInit, UseState
  <2>2. NoCall.user \notin Users /\ NoCall.amount = 0
    BY UseAssumption DEF NoCall
  <2>3. CallsCovered
    BY <2>2 DEF EconomyInit, UseInit, CallsCovered
  <2>4. \A u \in Users : \A P \in SUBSET DOMAIN usage[u] : Total(usage[u], P) = 0
    <3> SUFFICES ASSUME NEW u \in Users, NEW P \in SUBSET DOMAIN usage[u]
                 PROVE  Total(usage[u], P) = 0
      OBVIOUS
    <3>1. usage[u] = <<>> /\ P = {}
      BY DEF EconomyInit, UseInit
    <3>2. \A f : SumFunctionOnSet(f, {}) = 0
      BY FS_EmptySet, SumOfZeros
    <3> QED  BY <3>1, <3>2 DEF Total
  <2>5. policy.limit \in Nat
    BY <2>1, UseAssumption DEF UseState
  <2>6. QuotaHeld
    BY <2>4, <2>5 DEF QuotaHeld, get_usage
  <2>7. RateHeld
    <3> SUFFICES ASSUME NEW u \in Users, NEW from \in 0..MaxSecs
                 PROVE  Total(usage[u], {i \in DOMAIN usage[u] :
                               usage[u][i].ts \in from..(from + policy.period)}) <= policy.limit
      BY DEF RateHeld
    <3>1. {i \in DOMAIN usage[u] : usage[u][i].ts \in from..(from + policy.period)} \in SUBSET DOMAIN usage[u]
      OBVIOUS
    <3> QED  BY <2>4, <2>5, <3>1
  <2>8. OvershootBounded
    <3> SUFFICES ASSUME NEW u \in Users
                 PROVE  get_usage(u) + Promised(u)
                          <= policy.limit + (Cardinality(Callers) - 1) * Max(Quantities)
      BY DEF OvershootBounded
    <3>1. Promised(u) = 0
      <4>1. \A c \in Callers : Share(u)[c] = 0
        BY <2>2 DEF EconomyInit, UseInit, Share
      <4>2. SumFunctionOnSet(Share(u), Callers) = 0
        BY <4>1, UseAssumption, SumOfZeros
      <4> QED  BY <2>1, <4>2, Shares
    <3>2. Cardinality(Callers) \in Nat /\ Cardinality(Callers) # 0
      BY UseAssumption, FS_CardinalityType, FS_EmptySet
    <3>3. Max(Quantities) \in Nat
      BY <2>1, Shares
    <3>4. (Cardinality(Callers) - 1) * Max(Quantities) \in Nat
      BY <3>2, <3>3
    <3>5. get_usage(u) = 0
      BY <2>4 DEF get_usage
    <3> QED  BY <2>5, <3>1, <3>4, <3>5
  <2> QED  BY <2>1, <2>3, <2>6, <2>7, <2>8 DEF UseInv
<1>2. UseInv /\ [EconomyNext]_economyVars => UseInv'
  <2> SUFFICES ASSUME UseInv, [EconomyNext]_economyVars PROVE UseInv'
    OBVIOUS
  <2>1. CASE EnforcerStep
    <3>1. UseState'
      BY <2>1, UseTypes DEF UseInv
    <3> QED  BY <2>1, <3>1, CheckKeeps, RecordKeeps, AbandonKeeps, ClockKeeps DEF EnforcerStep
  <2>2. CASE UNCHANGED useVars
    <3>1. UNCHANGED <<secs, policy, usage, call, raced, tokens>>
      BY <2>2 DEF useVars
    <3>2. UseState'
      BY <3>1 DEF UseInv, UseState
    <3>3. CallsCovered' /\ QuotaHeld' /\ RateHeld'
      BY <3>1 DEF UseInv, CallsCovered, Covered, QuotaHeld, RateHeld, get_usage, Recent, get_usage_history
    <3>4. OvershootBounded'
      BY <3>1 DEF UseInv, OvershootBounded, Promised, get_usage
    <3> QED  BY <3>2, <3>3, <3>4 DEF UseInv
  <2> QED  BY <2>1, <2>2, TokensKeep DEF EconomyNext, economyVars
<1> QED  BY <1>1, <1>2, PTL DEF EconomySpec

\* A quota and a rate limit hold for every user, policy, amount and movement of
\* the clock as long as no use is recorded between a check and its record; with
\* such races the quota is passed by at most one use of every other caller
\* (check_authorization, record_usage).
THEOREM LimitsAreHeld == EconomySpec => []LimitsHeld
<1>1. UseInv => LimitsHeld
  <2> SUFFICES ASSUME UseInv PROVE LimitsHeld
    OBVIOUS
  <2>1. UseTypeOK
    <3>1. \A u \in Users : \A i \in DOMAIN usage[u] : usage[u][i] \in UseRecord
      BY DEF UseInv, UseState
    <3> QED  BY <3>1, CallTypes DEF UseInv, UseState, UseTypeOK, UseRecord
  <2> QED  BY <2>1 DEF UseInv, LimitsHeld
<1> QED  BY <1>1, UseInvariant, PTL

\* Economics::transfer creates no tokens, for any accounts, allowance and amounts.
THEOREM TokensAreNotCreated == EconomySpec => TokensNotCreated
<1>1. UseInv /\ [EconomyNext]_economyVars =>
        [\A f, t \in Users, a \in Quantities : TransferTokens(f, t, a) => AllLeft' <= AllLeft]_tokens
  BY TransferCreatesNone DEF UseInv
<1> QED  BY <1>1, UseInvariant, PTL DEF EconomySpec, TokensNotCreated

=============================================================================
