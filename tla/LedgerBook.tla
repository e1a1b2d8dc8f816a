----------------------------- MODULE LedgerBook -----------------------------
(***************************************************************************)
(* What icn-agoranet's transfer ledger promises its callers: a transfer is   *)
(* one step that moves the whole amount or does nothing.  The in-memory      *)
(* Ledger (transfers.rs), used behind a write lock, takes these steps as     *)
(* they are; PgLedger shows that the transactions of PostgresLedgerStore     *)
(* implement them.                                                          *)
(***************************************************************************)
EXTENDS Integers

CONSTANTS
    Entities,    \* (entity_type, id) pairs
    Transfers,   \* transfers that may be asked for
    Opening      \* balances at the start

Total(t) == t.amount + t.fee

ASSUME BookAssumption ==
    /\ Opening \in [Entities -> Nat]
    /\ Transfers \subseteq [from : Entities, to : Entities, amount : Nat, fee : Nat]

VARIABLES
    balances,    \* Ledger::balances; an entity without an entry has 0
    received,    \* history: credited to each entity by recorded transfers
    paid         \* history: taken from each entity, fees included

bookVars == <<balances, received, paid>>

\* Mutant: both balances are read before the first one is written.
MovedFromCopies(b, t) ==
    [e \in Entities |-> IF e = t.to THEN b[e] + t.amount
                        ELSE IF e = t.from THEN b[e] - Total(t) ELSE b[e]]

\* The payer's new balance is stored before the payee's is read: the two may be
\* the same entity.
Moved(b, t) ==
    LET debited == [b EXCEPT ![t.from] = @ - Total(t)]
    IN  [debited EXCEPT ![t.to] = @ + t.amount]

CanApply(t) == t.amount > 0 /\ balances[t.from] >= Total(t)

BookInit ==
    /\ balances = Opening
    /\ received = [e \in Entities |-> 0]
    /\ paid = [e \in Entities |-> 0]

\* Ledger::process_transfer; an amount of 0 or too low a balance is an error.
Apply(t) ==
    /\ CanApply(t)
    /\ balances' = Moved(balances, t)
    /\ received' = [received EXCEPT ![t.to] = @ + t.amount]
    /\ paid' = [paid EXCEPT ![t.from] = @ + Total(t)]

BookNext == \E t \in Transfers : Apply(t)

BookSpec == BookInit /\ [][BookNext]_bookVars

-----------------------------------------------------------------------------
\* The recorded transfers explain every balance: nothing is created, lost or
\* paid out of money that was not there, transfers to oneself included
\* (Ledger::process_transfer).
Explained ==
    \A e \in Entities :
        /\ balances[e] \in Nat
        /\ balances[e] + paid[e] = Opening[e] + received[e]

=============================================================================
