----------------------------- MODULE MCMeshNode -----------------------------
(* One originator, two executors of which the second does not suit the job,   *)
(* bids of nothing and of something, and each way to select: by score, by      *)
(* lowest price, under a policy with and without a cap.  Of the two executors   *)
(* one executes, whether it was assigned the job or not.                      *)
EXTENDS MeshNode

Suits == [e \in Executors |-> IF e = "e1" THEN Jobs ELSE {}]
Offers == [e \in Executors |-> IF e = "e1" THEN {0} ELSE {3}]
Regions == [e \in Executors |-> IF e = "e1" THEN "eu" ELSE "us"]
Lowest == {[kind |-> "lowest"]}
Capped == [kind |-> "policy", cap |-> 4, minRep |-> 40, priceWeight |-> 5, repWeight |-> 5, region |-> Nobody]
Uncapped == [Capped EXCEPT !.cap = Nobody, !.minRep = 0, !.region = "eu"]
Ways == Lowest \cup {[kind |-> "score"], Capped, Uncapped}
Both == {<<"task", Capped>>} \cup {<<"loop", w>> : w \in Ways}
AsWritten == {"loop"} \X Lowest
Records == {[subject |-> "e1", ok |-> FALSE, issuer |-> "x"]}
=============================================================================
