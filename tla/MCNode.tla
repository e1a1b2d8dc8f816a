------------------------------- MODULE MCNode -------------------------------
(***************************************************************************)
(* Small instances of three parts of a node that share no state: the job      *)
(* service, the runtime, and the compiler with the hosts of its contracts.    *)
(* Each behaviour is one of them; Parts says of which.                        *)
(***************************************************************************)
EXTENDS JobService, Runtime, Contract

CONSTANT Parts

VARIABLE part

nodeVars == <<vars, runtimeVars, contractVars, part>>

\* What the parts that do not run start with is immaterial.
MCInit ==
    /\ part \in Parts
    /\ Init /\ RuntimeInit /\ ContractInit
    /\ part # "runtime" => key = NodeDid
    /\ part # "contract" => process = "compiler"

MCNext ==
    /\ \/ part = "jobs" /\ Next /\ UNCHANGED <<runtimeVars, contractVars>>
       \/ part = "runtime" /\ RuntimeNext /\ UNCHANGED <<vars, contractVars>>
       \/ part = "contract" /\ ContractNext /\ UNCHANGED <<vars, runtimeVars>>
    /\ UNCHANGED part

MCSpec == MCInit /\ [][MCNext]_nodeVars

Symmetry == Permutations(Dids) \cup Permutations(Handlers)

-----------------------------------------------------------------------------
(* A node with one proposal, one receipt that a task issues and anchors, and  *)
(* two jobs: one that can run and one whose originator is no DID.            *)

Cost == [r \in Receipts |-> 5]

Params == [j \in PolledJobs |->
    CASE j = "j1" -> [explicit |-> 0, resources |-> <<1, 2>>, valid |-> TRUE]
      [] j = "j2" -> [explicit |-> Unset, resources |-> <<>>, valid |-> FALSE]]

-----------------------------------------------------------------------------
(* Definitions of every kind around the statement shapes of the grammar.     *)


Str(s) == [t |-> "string_literal", s |-> s]
Num(n) == [t |-> "number", n |-> n, frac |-> FALSE]
Entry(k, arg) == [rule |-> "any_statement", key |-> k, arg |-> arg]
Pair(k, arg) == [key |-> k, arg |-> arg]
Block(stmts) == [t |-> "block", stmts |-> stmts]
Flag(k) == Entry(k, [t |-> "none"])
Call(name) == [t |-> "function_call", name |-> name, pairs |-> <<Pair("x", Num(1))>>]
RangeSt(stmts) == [rule |-> "range_statement", start |-> 0, end |-> 5, stmts |-> stmts]
If(then, hasElse, else) ==
    [rule |-> "if_statement", cond |-> "cond", then |-> then,
     hasElse |-> hasElse, else |-> else]

Prop == Entry("quorum", Num(2))

MCStmts ==
    {Prop,
     Flag("public"),
     Entry("description", Str("text")),
     Entry("tags", [t |-> "array", elems |-> <<Str("a"), [t |-> "boolean", b |-> TRUE]>>]),
     Entry("limits", [t |-> "object", pairs |-> <<Pair("low", Num(1)), Pair("high", Num(2))>>]),
     Entry("fake", [t |-> "object", pairs |-> <<Pair("function_name", Str("f")), Pair("low", Num(1))>>]),
     Entry("voting", Block(<<Flag("public"), Prop>>)),
     Entry("nested", Block(<<RangeSt(<<Prop>>), If(<<>>, TRUE, <<>>)>>)),
     Entry("rate", Call("linear")),
     Entry("band", [t |-> "range_value", start |-> 0, end |-> 1, stmts |-> <<Prop, Flag("public")>>]),
     [rule |-> "function_call_statement", call |-> Call("notify")],
     RangeSt(<<Prop, If(<<Prop>>, FALSE, <<>>)>>),
     RangeSt(<<RangeSt(<<Prop>>)>>),
     If(<<Prop>>, TRUE, <<Flag("public")>>),
     If(<<[rule |-> "function_call_statement", call |-> Call("notify")]>>, FALSE, <<>>),
     [rule |-> "actions_def", title |-> "", stmts |-> <<>>]}

Blocks == {<<>>} \cup {<<s>> : s \in MCStmts}

Role(title, stmts) == [rule |-> "role_def", title |-> title, stmts |-> stmts]
On(stmts) == [rule |-> "action_def", title |-> "approved", stmts |-> stmts]
Mint(stmts) == [rule |-> "host_mint_token", stmts |-> stmts]
Metered(escape, resource, amount) ==
    [rule |-> "perform_metered_action", ident |-> [s |-> "act", escape |-> escape],
     namespace |-> "ResourceType", resource |-> resource, amount |-> amount,
     frac |-> FALSE]

MCSteps ==
    {Mint(<<Entry("type", Str("coin")), Entry("recipient", Str("did")), Entry("amount", Num(-1)),
            Entry("data", [t |-> "object", pairs |-> <<Pair("x", Num(1))>>])>>),
     Mint(<<Entry("type", Str("coin")), Entry("data", [t |-> "object", pairs |-> <<>>])>>),
     Mint(<<Entry("amount", Num(3))>>),
     [rule |-> "anchor_data", stmts |-> <<Entry("path", Str("p")), Entry("data", Str("cid"))>>],
     [rule |-> "anchor_data", stmts |-> <<Entry("data", [t |-> "object", pairs |-> <<>>])>>],
     [rule |-> "anchor_data", stmts |-> <<Entry("path", Str("p"))>>],
     Metered("", "CPU", 5), Metered("u", "CPU", 5), Metered("", "GPU", 5)}

MCDefs ==
    {[rule |-> k, title |-> "t", stmts |-> b] :
        k \in {"proposal_def", "governance_def"}, b \in Blocks}
    \cup {[rule |-> "roles_def", title |-> "",
           stmts |-> <<Role("chair", b), Prop, Role("clerk", <<Prop>>)>>] : b \in Blocks}
    \cup {[rule |-> "actions_def", title |-> "", stmts |-> <<On(<<s>>)>>] : s \in MCSteps}
    \cup {[rule |-> "bylaws_def", title |-> "b", version |-> "1.0.0",
           stmts |-> <<Entry("description", Str("text")), RangeSt(<<Prop, Prop>>)>>],
          [rule |-> "election_def", title |-> "e", stmts |-> <<Flag("public")>>],
          [rule |-> "actions_def", title |-> "",
           stmts |-> <<Prop, On(<<Prop,
               [rule |-> "anchor_data", stmts |-> <<Entry("payload_cid", Str("cid"))>>]>>)>>],
          [rule |-> "organization_def", title |-> "", stmts |-> <<Prop>>],
          [rule |-> "import_statement", title |-> "", stmts |-> <<>>]}

C(fn, args, amount) == [fn |-> fn, args |-> args, amount |-> amount]

MCGuestCalls ==
    {C("host_begin_section", <<"role", "t">>, 0), C("host_begin_section", <<"bad", "t">>, 0),
     C("host_end_section", <<>>, 0), C("host_set_property", <<"k", "json">>, 0),
     C("host_create_proposal", <<"t", "1">>, 0),
     C("host_mint_token", <<"coin", "did", "">>, 1), C("host_mint_token", <<"coin", "", "">>, 1),
     C("host_transfer_token", <<"coin", "did", "did">>, 1),
     C("host_transfer_token", <<"coin", "", "did">>, 1),
     C("host_use_resource", <<"mana">>, 2), C("host_use_resource", <<"CPU">>, 1),
     C("host_submit_mesh_job", <<"params">>, 128), C("host_submit_mesh_job", <<"params">>, 4),
     [fn |-> "host_range_check", args |-> <<>>, amount |-> 1, min |-> 0, max |-> 2],
     [fn |-> "host_range_check", args |-> <<>>, amount |-> 3, min |-> 0, max |-> 2],
     C("host_log_todo", <<"m">>, 0), C("log_message", <<"m">>, 0),
     C("anchor_receipt", <<"r">>, 0)}

\* In a memory of 5 bytes with words of 8: texts that fit, among them one whose
\* length is negative as a signed word, an empty one, and one that wraps around.
MCTexts ==
    {[ptr |-> 0, len |-> 3], [ptr |-> 3, len |-> 0], [ptr |-> 0, len |-> -3],
     [ptr |-> -2, len |-> 3]}
=============================================================================
