----------------------------- MODULE MCPgLedger -----------------------------
(* Instances of PgLedger for TLC.                                           *)
EXTENDS PgLedger

CONSTANTS alice, bob, carol

Pay(from, to, amount, fee) == [from |-> from, to |-> to, amount |-> amount, fee |-> fee]

\* alice and bob have rows, carol has none yet.
MCOpening == [e \in Entities |-> IF e = carol THEN 0 ELSE 3]

\* Opposite directions, a payment to oneself, a new payee, an amount of 0, and
\* amounts that two payments together cannot afford.
MCTransfers ==
    {Pay(alice, bob, 2, 1), Pay(bob, alice, 1, 0), Pay(alice, alice, 1, 1),
     Pay(bob, carol, 2, 0), Pay(alice, carol, 1, 0), Pay(carol, bob, 0, 0)}

MCBatches ==
    {<<t>> : t \in MCTransfers} \cup {<<Pay(alice, bob, 2, 1), Pay(bob, carol, 2, 0)>>}

=============================================================================
