------------------------------- MODULE Evidence -------------------------------
(***************************************************************************)
(* What a node keeps as evidence and why it is believed: the DAG store that   *)
(* receipts are anchored in (DagStore), the signed documents and the trust    *)
(* bundles (Trust).  The three share no state; each behaviour is one of them. *)
(***************************************************************************)
EXTENDS DagStore, Trust

VARIABLE part    \* the part that runs

evidenceVars == <<vars, docVars, validatorVars, part>>

EvidenceInit ==
    /\ Init /\ TrustInit
    /\ part \in {"store", "documents", "validator"}

EvidenceNext ==
    /\ \/ part = "store" /\ Next /\ UNCHANGED <<docVars, validatorVars>>
       \/ part = "documents" /\ DocStep /\ UNCHANGED <<vars, validatorVars>>
       \/ part = "validator" /\ ValidatorStep /\ UNCHANGED <<vars, docVars>>
    /\ UNCHANGED part

EvidenceSpec == EvidenceInit /\ [][EvidenceNext]_evidenceVars /\ Fairness

=============================================================================
