------------------------------ MODULE ManaLedger ------------------------------
(***************************************************************************)
(* The ManaLedger trait and its two kinds of client:                        *)
(*   - ManaRegenerator::tick (icn-economics/src/mana.rs), run by            *)
(*     Runtime::tick_mana, which walks over all DIDs and tops each one up;  *)
(*   - ManaRepositoryAdapter::record_usage (icn-economics/src/lib.rs), run  *)
(*     by the host functions that spend mana for a job.                     *)
(* Both read a ManaState, compute, and write it back: the ledger offers     *)
(* get_mana_state and update_mana_state as two separate async calls and no  *)
(* transaction, so other clients run between the two.                       *)
(*                                                                         *)
(* SledManaLedger inserts without a flush; sled writes its log back in the  *)
(* background, so a crash brings back an earlier state of the whole tree.   *)
(***************************************************************************)
EXTENDS Integers

CONSTANTS
    Dids,        \* identities that may have a mana record
    Spenders,    \* concurrent callers of record_usage
    Endowment,   \* current_mana and max_mana of a provisioned record
    Amounts,     \* token amounts asked for
    Rate,        \* RegenerationPolicy::FixedRatePerTick
    MaxOps,      \* bound on accepted spends, for model checking
    MaxTicks     \* bound on regeneration ticks, for model checking

ASSUME LedgerAssumption ==
    /\ Dids # {}
    /\ Endowment \in Nat
    /\ Amounts \subseteq Nat
    /\ Rate \in Nat
    /\ MaxOps \in Nat
    /\ MaxTicks \in Nat

VARIABLES
    ledger,      \* did -> ManaState, for the dids that have a record
    durable,     \* what a restart would read back
    pc,          \* per spender: "idle", or "read" (state fetched, not written)
    state,       \* per spender: the ManaState it fetched
    request,     \* per spender: the did and amount it serves
    tick,        \* the regenerator: "idle", "next" (between dids), "fetched"
    todo,        \* dids this tick has still to visit
    visiting,    \* the did being visited
    fetched,     \* the ManaState the regenerator fetched for it
    ticks,       \* ticks started
    ops,         \* accepted spends
    spent,       \* history: mana that accepted calls of record_usage took
    regenerated, \* history: mana that successful updates of a tick added
    opened,      \* history: the balance at the start
    clean        \* history: no write to the record was stale, no crash lost one

ledgerVars == <<ledger, durable>>
spenderVars == <<pc, state, request, ops>>
tickVars == <<tick, todo, visiting, fetched, ticks>>
historyVars == <<spent, regenerated, opened, clean>>
vars == <<ledgerVars, spenderVars, tickVars, historyVars>>

ManaState == [current : Nat, max : Nat]
NoState == [current |-> 0, max |-> 0]    \* the default of record_usage
Idle == [did |-> CHOOSE d \in Dids : TRUE, amount |-> 0]

Lesser(a, b) == IF a <= b THEN a ELSE b

Put(f, key, value) ==
    [k \in DOMAIN f \cup {key} |-> IF k = key THEN value ELSE f[k]]

-----------------------------------------------------------------------------
(* The three calls of the trait, as SledManaLedger implements them.  Each is  *)
(* one access to the tree; that it may fail is part of the clients' actions.  *)

GetManaState(d) == IF d \in DOMAIN ledger THEN {ledger[d]} ELSE {}

UpdateManaState(d, st) == ledger' = Put(ledger, d, st)

AllDids == DOMAIN ledger

\* The record, or the default that record_usage takes for no record.
Fetch(d) == IF GetManaState(d) = {} THEN NoState ELSE ledger[d]

-----------------------------------------------------------------------------
\* Some dids have a full record, others none: nothing in the runtime creates
\* one but record_usage itself.
Init ==
    /\ \E D \in SUBSET Dids :
         ledger = [d \in D |-> [current |-> Endowment, max |-> Endowment]]
    /\ durable = ledger
    /\ pc = [s \in Spenders |-> "idle"]
    /\ state = [s \in Spenders |-> NoState]
    /\ request = [s \in Spenders |-> Idle]
    /\ tick = "idle"
    /\ todo = {}
    /\ visiting = CHOOSE d \in Dids : TRUE
    /\ fetched = NoState
    /\ ticks = 0
    /\ ops = 0
    /\ spent = [d \in Dids |-> 0]
    /\ regenerated = [d \in Dids |-> 0]
    /\ opened = [d \in Dids |-> Fetch(d).current]
    /\ clean = [d \in Dids |-> TRUE]

-----------------------------------------------------------------------------
(* ManaRepositoryAdapter::record_usage                                      *)

\* get_mana_state(did).await; a did without a record is served from a default.
\* Too little mana ends the call with an error.
RecordUsageRead(s, d, amount) ==
    /\ pc[s] = "idle"
    /\ ops < MaxOps
    /\ Fetch(d).current >= amount
    /\ pc' = [pc EXCEPT ![s] = "read"]
    /\ state' = [state EXCEPT ![s] = Fetch(d)]
    /\ request' = [request EXCEPT ![s] = [did |-> d, amount |-> amount]]
    /\ ops' = ops + 1
    /\ UNCHANGED <<ledgerVars, tickVars, historyVars>>

\* update_mana_state(did, state).await; the call returns Ok.
RecordUsageWrite(s) ==
    /\ pc[s] = "read"
    /\ LET d == request[s].did
           a == request[s].amount
       IN  /\ UpdateManaState(d, [state[s] EXCEPT !.current = @ - a])
           /\ spent' = [spent EXCEPT ![d] = @ + a]
           /\ clean' = [clean EXCEPT ![d] = @ /\ state[s] = Fetch(d)]
    /\ pc' = [pc EXCEPT ![s] = "idle"]
    /\ UNCHANGED <<durable, state, request, ops, tickVars, regenerated, opened>>

\* The update fails (I/O, serialization): the caller is told, nothing is spent.
RecordUsageFails(s) ==
    /\ pc[s] = "read"
    /\ pc' = [pc EXCEPT ![s] = "idle"]
    /\ UNCHANGED <<ledgerVars, state, request, ops, tickVars, historyVars>>

-----------------------------------------------------------------------------
(* ManaRegenerator::tick                                                    *)

\* all_dids().await; if it fails the tick ends here and nothing is started.
TickBegin ==
    /\ tick = "idle"
    /\ ticks < MaxTicks
    /\ ticks' = ticks + 1
    /\ tick' = "next"
    /\ todo' = AllDids
    /\ UNCHANGED <<ledgerVars, spenderVars, visiting, fetched, historyVars>>

Regenerated(st) == [st EXCEPT !.current = Lesser(st.current + Rate, st.max)]

\* Mutant: the did stays on the list until its update is done.
TickFetchAgain(d) ==
    /\ tick = "next"
    /\ d \in todo
    /\ visiting' = d
    /\ IF \E st \in GetManaState(d) : Regenerated(st) # st
       THEN /\ tick' = "fetched"
            /\ fetched' = Fetch(d)
            /\ UNCHANGED todo
       ELSE /\ todo' = todo \ {d}
            /\ UNCHANGED <<tick, fetched>>
    /\ UNCHANGED <<ledgerVars, spenderVars, ticks, historyVars>>

\* get_mana_state(did).await and the new balance.  A full record is skipped, and
\* so is one that is gone since all_dids was called.
TickFetch(d) ==
    /\ tick = "next"
    /\ d \in todo
    /\ todo' = todo \ {d}
    /\ visiting' = d
    /\ IF \E st \in GetManaState(d) : Regenerated(st) # st
       THEN /\ tick' = "fetched"
            /\ fetched' = Fetch(d)
       ELSE UNCHANGED <<tick, fetched>>
    /\ UNCHANGED <<ledgerVars, spenderVars, ticks, historyVars>>

\* update_mana_state(did, state).await
TickUpdate ==
    /\ tick = "fetched"
    /\ UpdateManaState(visiting, Regenerated(fetched))
    /\ regenerated' = [regenerated EXCEPT
                         ![visiting] = @ + (Regenerated(fetched).current - fetched.current)]
    /\ clean' = [clean EXCEPT ![visiting] = @ /\ fetched = Fetch(visiting)]
    /\ tick' = "next"
    /\ UNCHANGED <<durable, spenderVars, todo, visiting, fetched, ticks, spent, opened>>

\* The read fails: the did goes on the list of errors and the loop goes on.
TickReadFails(d) ==
    /\ tick = "next"
    /\ d \in todo
    /\ todo' = todo \ {d}
    /\ UNCHANGED <<ledgerVars, spenderVars, tick, visiting, fetched, ticks, historyVars>>

\* Mutant: a did whose update failed is visited again in the same tick.
TickUpdateRetry ==
    /\ tick = "fetched"
    /\ tick' = "next"
    /\ todo' = todo \cup {visiting}
    /\ UNCHANGED <<ledgerVars, spenderVars, visiting, fetched, ticks, historyVars>>

\* The update fails: the same.
TickUpdateFails ==
    /\ tick = "fetched"
    /\ tick' = "next"
    /\ UNCHANGED <<ledgerVars, spenderVars, todo, visiting, fetched, ticks, historyVars>>

\* Details and metrics are reported; the errors are no reason to fail.
TickEnd ==
    /\ tick = "next"
    /\ todo = {}
    /\ tick' = "idle"
    /\ UNCHANGED <<ledgerVars, spenderVars, todo, visiting, fetched, ticks, historyVars>>

-----------------------------------------------------------------------------
(* SledManaLedger                                                           *)

\* sled's background flusher.
Flush ==
    /\ durable # ledger
    /\ durable' = ledger
    /\ UNCHANGED <<ledger, spenderVars, tickVars, historyVars>>

\* The process dies and SledManaLedger::open finds the tree that reached the disk.
Crash ==
    /\ ledger' = durable
    /\ pc' = [s \in Spenders |-> "idle"]
    /\ tick' = "idle"
    /\ todo' = {}
    /\ clean' = [d \in Dids |-> clean[d] /\ Fetch(d) = Fetch(d)']
    /\ UNCHANGED <<durable, state, request, ops, visiting, fetched, ticks,
                   spent, regenerated, opened>>

Serve(s) == RecordUsageWrite(s) \/ RecordUsageFails(s)
TickStep ==
    \/ \E d \in Dids : TickFetch(d) \/ TickReadFails(d)
    \/ TickUpdate
    \/ TickUpdateFails
    \/ TickEnd

Next ==
    \/ \E s \in Spenders, d \in Dids, a \in Amounts : RecordUsageRead(s, d, a)
    \/ \E s \in Spenders : Serve(s)
    \/ TickBegin
    \/ TickStep
    \/ Flush
    \/ Crash

\* The runtime keeps polling a tick that it has started.
Fairness == WF_vars(TickStep)

Spec == Init /\ [][Next]_vars
FairSpec == Spec /\ Fairness

-----------------------------------------------------------------------------
(* Properties.                                                              *)

IsPartial(f, S, T) == DOMAIN f \subseteq S /\ f \in [DOMAIN f -> T]

TypeOK ==
    /\ IsPartial(ledger, Dids, ManaState)
    /\ IsPartial(durable, Dids, ManaState)
    /\ pc \in [Spenders -> {"idle", "read"}]
    /\ state \in [Spenders -> ManaState]
    /\ request \in [Spenders -> [did : Dids, amount : Nat]]
    /\ tick \in {"idle", "next", "fetched"}
    /\ todo \subseteq Dids
    /\ visiting \in Dids
    /\ fetched \in ManaState
    /\ ticks \in Nat
    /\ ops \in Nat
    /\ spent \in [Dids -> Nat]
    /\ regenerated \in [Dids -> Nat]
    /\ opened \in [Dids -> Nat]
    /\ clean \in [Dids -> BOOLEAN]

\* A balance never passes its cap, in the ledger, on disk, or in the copy a
\* client is about to write back, whatever was written in between (the min() of
\* ManaRegenerator::tick and the check of record_usage on the same copy).
CapHeld ==
    /\ \A d \in DOMAIN ledger : ledger[d].current <= ledger[d].max
    /\ \A d \in DOMAIN durable : durable[d].current <= durable[d].max
    /\ \A s \in Spenders : pc[s] = "read" =>
         /\ state[s].current <= state[s].max
         /\ request[s].amount <= state[s].current

\* The books balance for every record that no stale write and no crash has
\* touched: what is left and what was spent is what there was and what was
\* regenerated.  Reads and writes of other clients between the two calls of one
\* client, failed updates and skipped dids do not disturb it
\* (record_usage, ManaRegenerator::tick).
Accounted ==
    \A d \in Dids : clean[d] =>
        Fetch(d).current + spent[d] = opened[d] + regenerated[d]

\* A tick adds its rate to a record at most once, whatever fails in it and
\* whenever the process dies (the loop over all_dids in ManaRegenerator::tick).
RatePerTick == \A d \in Dids : regenerated[d] <= ticks * Rate

\* A tick that has begun comes to its end although reads and updates fail:
\* errors are collected per did and the loop goes on (ManaRegenerator::tick).
TickEnds == tick # "idle" ~> tick = "idle"

\* What holds of the ledger although its clients read, compute and write in
\* three calls: caps, balanced books where no write was stale, one rate per
\* tick (record_usage, ManaRegenerator::tick, SledManaLedger).
LedgerSound == TypeOK /\ CapHeld /\ Accounted /\ RatePerTick

=============================================================================
