----------------------------- MODULE CclLowering -----------------------------
(***************************************************************************)
(* icn-ccl-compiler/src/lower.rs: from the parse tree of a contract to the  *)
(* modules of icn-ccl-dsl.  A node of the tree is a record whose "rule" (a   *)
(* statement) or "t" (a value) is the name of the grammar rule; a block is   *)
(* the sequence of its statements.  Names and texts are opaque strings, a    *)
(* number is its integral part and whether it has a fraction.                *)
(*                                                                         *)
(* Lowering a block never fails on a tree of the grammar: the errors of      *)
(* lower_value_rule, lower_range_statement and lower_if_statement are for    *)
(* trees the parser cannot build.  Errors come from the top level (a         *)
(* statement that is no definition) and from the steps of a handler.         *)
(***************************************************************************)
EXTENDS Integers, Sequences, SequencesExt

\* RuleValue of icn-ccl-dsl.
StringV(s) == [v |-> "String", s |-> s]
NumberV(n, frac) == [v |-> "Number", n |-> n, frac |-> frac]
BooleanV(b) == [v |-> "Boolean", b |-> b]
ListV(elems) == [v |-> "List", elems |-> elems]
MapV(rules) == [v |-> "Map", rules |-> rules]
RangeV(start, end, rules) ==
    [v |-> "Range", start |-> start, end |-> end, rules |-> rules]
IfV(cond, then, hasElse, else) ==
    [v |-> "If", cond |-> cond, then |-> then, hasElse |-> hasElse,
     else |-> else]

Rule(key, value) == [key |-> key, value |-> value]

\* The concatenation of what f gives for each element.
FlatMap(f(_), s) == FlattenSeq([i \in DOMAIN s |-> f(s[i])])

-----------------------------------------------------------------------------
(* Values and blocks                                                        *)

RECURSIVE lower_value_rule(_), lower_statement(_)

lower_pairs(pairs) ==
    [i \in DOMAIN pairs |->
        Rule(pairs[i].key, lower_value_rule(pairs[i].arg))]

\* The rules of lower_block_common_fields.
lower_rules(stmts) == FlatMap(lower_statement, stmts)

\* The name becomes a rule of its own; codegen recognises a call by it.
lower_function_call(name, pairs) ==
    MapV(<<Rule("function_name", StringV(name)),
           Rule("args", MapV(lower_pairs(pairs)))>>)

\* The description of the block of a range is dropped.
lower_range_statement(r) == RangeV(r.start, r.end, lower_rules(r.stmts))

lower_if_statement(st) ==
    IfV(st.cond, lower_rules(st.then), st.hasElse, lower_rules(st.else))

lower_value_rule(x) ==
    CASE x.t \in {"string_literal", "duration", "general_identifier"} ->
            StringV(x.s)
      [] x.t = "number" -> NumberV(x.n, x.frac)
      [] x.t = "boolean" -> BooleanV(x.b)
      [] x.t = "array" ->
            ListV([i \in DOMAIN x.elems |-> lower_value_rule(x.elems[i])])
      [] x.t = "object" -> MapV(lower_pairs(x.pairs))
      [] x.t = "function_call" -> lower_function_call(x.name, x.pairs)
      [] x.t = "range_value" -> lower_range_statement(x)

\* key { ... }: the description inside is dropped.
lower_keyed_block(st) == <<Rule(st.key, MapV(lower_rules(st.arg.stmts)))>>

\* key value;  The description is no rule, whatever its value.  A key without
\* a value is a flag.
lower_any_statement(st) ==
    CASE st.arg.t = "none" -> <<Rule(st.key, BooleanV(TRUE))>>
      [] st.arg.t = "block" -> lower_keyed_block(st)
      [] OTHER -> IF st.key = "description"
                  THEN <<>>
                  ELSE <<Rule(st.key, lower_value_rule(st.arg))>>

\* One statement of a block.  Definitions, and the steps of handlers, are
\* ignored where they are nested in a block.
lower_statement(st) ==
    CASE st.rule = "any_statement" -> lower_any_statement(st)
      [] st.rule = "range_statement" ->
            <<Rule("range", lower_range_statement(st))>>
      [] st.rule = "if_statement" ->
            <<Rule("if_condition", lower_if_statement(st))>>
      [] st.rule = "function_call_statement" ->
            <<Rule(st.call.name, lower_value_rule(st.call))>>
      [] OTHER -> <<>>

\* The last description that is a string, or none.
lower_description(stmts) ==
    LET IsText(st) ==
            /\ st.rule = "any_statement"
            /\ st.key = "description"
            /\ st.arg.t \in {"string_literal", "duration",
                             "general_identifier"}
        texts == SelectSeq(stmts, IsText)
    IN  IF texts = <<>> THEN "" ELSE Last(texts).arg.s

-----------------------------------------------------------------------------
(* The steps of a handler.  A result is <<>> for an error, and <<x>> for x.  *)

\* The value of the last rule with one of the keys.
LastOf(rules, keys, default) ==
    LET OfKeys(r) == r.key \in keys
        found == SelectSeq(rules, OfKeys)
    IN  IF found = <<>> THEN default ELSE Last(found).value

\* Every rule with one of the keys has a value of one of the kinds.
Typed(rules, keys, kinds) ==
    \A i \in DOMAIN rules : rules[i].key \in keys => rules[i].value.v \in kinds

\* n as u64: a fraction is cut off, a negative number is 0.
AsU64(n) == IF n < 0 THEN 0 ELSE n

lower_mint_token(st) ==
    LET rules == lower_rules(st.stmts)
        type == LastOf(rules, {"type"}, StringV("")).s
        recipient == LastOf(rules, {"recipient", "recipients"}, StringV("")).s
        amount == LastOf(rules, {"amount"}, NumberV(1, FALSE)).n
    IN  IF /\ Typed(rules, {"type", "recipient", "recipients"}, {"String"})
           /\ Typed(rules, {"amount"}, {"Number"})
           /\ Typed(rules, {"data"}, {"Map"})
        THEN IF type = ""
             THEN <<>>
             ELSE <<[step |-> "Metered", resource |-> type,
                     amount |-> AsU64(amount), recipient |-> recipient,
                     hasData |-> \E i \in DOMAIN rules : rules[i].key = "data",
                     data |-> LastOf(rules, {"data"}, MapV(<<>>)).rules]>>
        ELSE <<>>

\* A map is anchored as its JSON text, which is never empty.
lower_anchor_data(st) ==
    LET rules == lower_rules(st.stmts)
        data == LastOf(rules, {"data", "payload_cid"}, StringV(""))
    IN  IF /\ Typed(rules, {"path"}, {"String"})
           /\ Typed(rules, {"data", "payload_cid"}, {"String", "Map"})
           /\ data # StringV("")
        THEN <<[step |-> "Anchor", path |-> LastOf(rules, {"path"}, StringV("")).s,
                dataRef |-> IF data.v = "Map" THEN "json" ELSE data.s]>>
        ELSE <<>>

\* extract_string_literal knows fewer escapes than the grammar.
extract_string_literal(lit) ==
    IF lit.escape \in {"", "n", "t", "quote", "backslash", "r"}
    THEN <<lit.s>> ELSE <<>>

\* amount_str.parse::<u64>(): neither a sign nor a fraction.
lower_perform_metered_action(st) ==
    IF /\ extract_string_literal(st.ident) # <<>>
       /\ st.namespace = "ResourceType"
       /\ st.resource \in {"CPU", "MEMORY", "TOKEN", "IO"}
       /\ st.amount >= 0 /\ ~st.frac
    THEN <<[step |-> "PerformMeteredAction",
            ident |-> extract_string_literal(st.ident)[1],
            resource |-> st.resource, amount |-> st.amount]>>
    ELSE <<>>

StepRules == {"mint_token", "anchor_data", "perform_metered_action"}

lower_step(st) ==
    CASE st.rule = "mint_token" -> lower_mint_token(st)
      [] st.rule = "anchor_data" -> lower_anchor_data(st)
      [] st.rule = "perform_metered_action" -> lower_perform_metered_action(st)

-----------------------------------------------------------------------------
(* Definitions.  A result is [err, modules].                                *)

Ok(modules) == [err |-> FALSE, modules |-> modules]
Failed == [err |-> TRUE, modules |-> <<>>]

\* The first error ends the lowering and its result is lost.
Sequenced(results) ==
    IF \E i \in DOMAIN results : results[i].err
    THEN Failed
    ELSE Ok(FlattenSeq([i \in DOMAIN results |-> results[i].modules]))

\* One handler of an actions block; other statements of the block are ignored,
\* and so are the statements of the handler that are no step.
lower_handler(on) ==
    IF on.rule # "action_def"
    THEN Ok(<<>>)
    ELSE LET IsStep(st) == st.rule \in StepRules
             kept == SelectSeq(on.stmts, IsStep)
             steps == [i \in DOMAIN kept |-> lower_step(kept[i])]
         IN  IF \E i \in DOMAIN steps : steps[i] = <<>>
             THEN Failed
             ELSE Ok(<<[module |-> "ActionHandler", event |-> on.title,
                        steps |-> FlattenSeq(steps)]>>)

lower_actions(d) == Sequenced([i \in DOMAIN d.stmts |-> lower_handler(d.stmts[i])])

build_stub_proposal(title, version, body, rules) ==
    [module |-> "Proposal", title |-> title, version |-> version,
     body |-> body, rules |-> rules]

Unversioned == "0.0.0-unknown"

lower_proposal(d) ==
    build_stub_proposal(d.title, Unversioned, lower_description(d.stmts),
                        lower_rules(d.stmts))

lower_election(d) == lower_proposal(d)

lower_bylaws_def(d) ==
    build_stub_proposal(d.title, d.version, lower_description(d.stmts),
                        lower_rules(d.stmts))

lower_single_role_def(d) ==
    [module |-> "Role", title |-> d.title,
     description |-> lower_description(d.stmts), rules |-> lower_rules(d.stmts)]

lower_roles_from_block(stmts) ==
    LET RoleOf(st) == IF st.rule = "role_def"
                      THEN <<lower_single_role_def(st)>> ELSE <<>>
    IN  FlatMap(RoleOf, stmts)

\* The title is that of an organization; the description is dropped.
lower_generic_section(d) ==
    [module |-> "Section", kind |-> d.rule, title |-> d.title,
     rules |-> lower_rules(d.stmts)]

SectionRules ==
    {"organization_def", "governance_def", "membership_def", "allocations_def",
     "spending_rules_def", "reporting_def", "process_def", "vacancies_def"}

dispatch_def(d) ==
    CASE d.rule \in {"proposal_def", "budget_def"} -> Ok(<<lower_proposal(d)>>)
      [] d.rule = "election_def" -> Ok(<<lower_election(d)>>)
      [] d.rule = "bylaws_def" -> Ok(<<lower_bylaws_def(d)>>)
      [] d.rule = "roles_def" -> Ok(lower_roles_from_block(d.stmts))
      [] d.rule = "actions_def" -> lower_actions(d)
      [] d.rule \in SectionRules -> Ok(<<lower_generic_section(d)>>)
      [] OTHER -> Failed                                \* Unhandled

\* lower_str: the statements of the contract in turn.
lower(contract) == Sequenced([i \in DOMAIN contract |-> dispatch_def(contract[i])])

=============================================================================
