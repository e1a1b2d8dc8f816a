------------------------------ MODULE MCEconomy ------------------------------
(* Model-checking instance of Economy: two concurrent spenders, the            *)
(* regenerator and two dids; two callers and a policy of each kind.            *)
EXTENDS Economy

CONSTANTS u1, u2

Of(type, limit, period) ==
    [type |-> type, limit |-> limit, period |-> period, permits |-> {u1}]

MCPolicies ==
    {Of("None", 0, 0), Of("AllowAll", 0, 0), Of("Quota", 3, 0), Of("RateLimit", 2, 1),
     Of("PermitList", 0, 0)}
=============================================================================
