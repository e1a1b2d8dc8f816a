------------------------------- MODULE Economy -------------------------------
(***************************************************************************)
(* icn-economics beside the mana pools: the mana ledger with its clients      *)
(* (ManaLedger), the policy enforcer and the token ledger (ResourceUse).     *)
(* They share no state; each behaviour is one of them.                       *)
(***************************************************************************)
EXTENDS ManaLedger, ResourceUse

VARIABLE part    \* the part that runs

economyVars == <<vars, useVars, part>>

EconomyInit ==
    /\ Init /\ UseInit
    /\ part \in {"ledger", "enforcer", "tokens"}
    /\ part # "ledger" => ledger = [d \in {} |-> NoState]
    /\ part # "enforcer" => policy.type = "AllowAll"

EconomyNext ==
    /\ \/ part = "ledger" /\ Next /\ UNCHANGED useVars
       \/ part = "enforcer" /\ EnforcerStep /\ UNCHANGED vars
       \/ part = "tokens" /\ TokenStep /\ UNCHANGED vars
    /\ UNCHANGED part

EconomySpec == EconomyInit /\ [][EconomyNext]_economyVars /\ Fairness

=============================================================================
