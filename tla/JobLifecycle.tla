----------------------------- MODULE JobLifecycle -----------------------------
(***************************************************************************)
(* What the mesh promises about a job, whatever gossip loses, repeats or      *)
(* reorders: it is announced and given to one bidder, and whoever is paid for   *)
(* it has executed it and is paid a price it has bid.  That the one who is      *)
(* paid is the one it was given to is not promised: nobody looks.              *)
(***************************************************************************)
EXTENDS Naturals, Sequences

CONSTANTS Jobs, Executors, Prices, Nobody

VARIABLES
    announced,   \* jobs on the mesh
    winner,      \* job -> the executor it was given to
    offered,     \* job -> <<executor, price>> pairs that were bid
    executed,    \* <<job, executor>> pairs with a receipt
    payments     \* job -> the payments so far, <<executor, price>> each

lifecycle == <<announced, winner, offered, executed, payments>>

LInit ==
    /\ announced = {}
    /\ winner = [j \in Jobs |-> Nobody]
    /\ offered = [j \in Jobs |-> {}]
    /\ executed = {}
    /\ payments = [j \in Jobs |-> <<>>]

\* The queue is emptied at once: several jobs may be announced in one step.
Announce(js) ==
    /\ announced' = announced \cup js
    /\ UNCHANGED <<winner, offered, executed, payments>>

Offer(j, e, p) ==
    /\ offered' = [offered EXCEPT ![j] = @ \cup {<<e, p>>}]
    /\ UNCHANGED <<announced, winner, executed, payments>>

\* Once, to a bidder.
Assign(j, e) ==
    /\ j \in announced /\ winner[j] = Nobody
    /\ \E p \in Prices : <<e, p>> \in offered[j]
    /\ winner' = [winner EXCEPT ![j] = e]
    /\ UNCHANGED <<announced, offered, executed, payments>>

\* Any executor that has heard of the job, given to it or not.
Execute(j, e) ==
    /\ j \in announced
    /\ executed' = executed \cup {<<j, e>>}
    /\ UNCHANGED <<announced, winner, offered, payments>>

Pay(j, e, p) ==
    /\ <<j, e>> \in executed
    /\ <<e, p>> \in offered[j]
    /\ payments' = [payments EXCEPT ![j] = Append(@, <<e, p>>)]
    /\ UNCHANGED <<announced, winner, offered, executed>>

LNext ==
    \/ \E js \in SUBSET Jobs : Announce(js)
    \/ \E j \in Jobs, e \in Executors :
          \/ Assign(j, e) \/ Execute(j, e)
          \/ \E p \in Prices : Offer(j, e, p) \/ Pay(j, e, p)

LSpec == LInit /\ [][LNext]_lifecycle
=============================================================================
