------------------------------ MODULE CclCodegen ------------------------------
(***************************************************************************)
(* icn-ccl-wasm-codegen: WasmGenerator turns the modules of icn-ccl-dsl into *)
(* a stream of opcodes, program_to_wasm turns each opcode into the arguments *)
(* it pushes and one call, and lays the texts out in linear memory.          *)
(*                                                                         *)
(* An opcode is [op, args, amount]: its texts in the order in which they are *)
(* pushed ("" where an optional one is missing) and its number.  SetProperty *)
(* also carries the value that is written as JSON.                           *)
(***************************************************************************)
EXTENDS CclLowering

Op(name, args) == [op |-> name, args |-> args, amount |-> 0]
OpN(name, args, amount) == [op |-> name, args |-> args, amount |-> amount]
SetProperty(key, value) ==
    [op |-> "SetProperty", args |-> <<key, "json">>, amount |-> 0,
     value |-> value]

\* Recognised by the first key alone, so a block written in the contract can
\* be taken for a call.
is_function_call(rules) ==
    rules # <<>> /\ rules[1].key = "function_name"

\* The opcode names the key of the rule, which for a call that is the value of
\* a key is not the function.
walk_function_call(key, args) == <<Op("CallHost", <<key, "json">>)>>

RECURSIVE walk_rule(_)

walk_rules(rules) == FlatMap(walk_rule, rules)

walk_if_expr(x) ==
    <<Op("If", <<x.cond>>)>> \o walk_rules(x.then)
        \o (IF x.hasElse
            THEN <<Op("Else", <<>>)>> \o walk_rules(x.else)
            ELSE <<>>)
        \o <<Op("EndIf", <<>>)>>

walk_range(key, r) ==
    <<Op("BeginSection", <<"range", key>>)>> \o walk_rules(r.rules)
        \o <<Op("EndSection", <<>>)>>

\* A map is flattened: its own key is lost.
walk_rule(r) ==
    LET x == r.value
    IN  CASE x.v = "If" -> walk_if_expr(x)
          [] x.v = "Range" -> walk_range(r.key, x)
          [] x.v = "Map" -> IF is_function_call(x.rules)
                            THEN walk_function_call(r.key, x.rules)
                            ELSE walk_rules(x.rules)
          [] OTHER -> <<SetProperty(r.key, x)>>

walk_step(s) ==
    CASE s.step = "Metered" ->
            <<OpN("MintToken",
                  <<s.resource, s.recipient,
                    IF s.hasData THEN "json" ELSE "">>, s.amount)>>
      [] s.step = "Anchor" -> <<Op("AnchorData", <<s.path, s.dataRef>>)>>
      [] s.step = "PerformMeteredAction" ->
            <<OpN("UseResource", <<s.resource>>, s.amount),
              Op("Todo", <<s.ident>>)>>

\* The properties of a proposal follow its CreateProposal in no section.
walk_module(mod) ==
    CASE mod.module = "Proposal" ->
            <<Op("CreateProposal", <<mod.title, mod.version>>)>>
                \o walk_rules(mod.rules)
      [] mod.module = "ActionHandler" ->
            <<Op("OnEvent", <<mod.event>>)>> \o FlatMap(walk_step, mod.steps)
      [] mod.module = "Section" ->
            <<Op("BeginSection", <<mod.kind, mod.title>>)>>
                \o walk_rules(mod.rules) \o <<Op("EndSection", <<>>)>>
      [] mod.module = "Role" ->
            <<Op("BeginSection", <<"role", mod.title>>)>>
                \o (IF mod.description = ""
                    THEN <<>>
                    ELSE <<SetProperty("description",
                                       StringV(mod.description))>>)
                \o walk_rules(mod.rules) \o <<Op("EndSection", <<>>)>>

generate(modules) == FlatMap(walk_module, modules)

-----------------------------------------------------------------------------
(* emit.rs: the layout of the texts.  Of the length of a text only whether   *)
(* it is empty matters; any other is TextLen bytes long.                     *)

JOB_ID_BUFFER_SIZE == 128
TextLen == 2
Length(text) == IF text = "" THEN 0 ELSE TextLen

\* Every text of the program in the order in which encode_push_string sees it.
Texts(ops) == FlatMap(LAMBDA o : o.args, ops)

\* Mutant: a text that repeats the one before it does not advance the offset.
RepeatReusesOffset(e, text) ==
    [offset |-> IF e.segs # <<>> /\ Last(e.segs).text = text
                THEN e.offset ELSE e.offset + Length(text),
     segs |-> Append(e.segs, [ptr |-> e.offset, len |-> Length(text),
                              text |-> text])]

\* The pointer and length that are pushed for a text, and a segment for it at
\* current_data_offset unless it is empty.
encode_push_string(e, text) ==
    [offset |-> e.offset + Length(text),
     segs |-> Append(e.segs, [ptr |-> e.offset, len |-> Length(text),
                              text |-> text])]

\* The first texts follow the buffer for a job id.
program_to_wasm(ops) ==
    FoldLeft(encode_push_string, [offset |-> JOB_ID_BUFFER_SIZE, segs |-> <<>>],
             Texts(ops)).segs

\* What a byte of memory holds when the active segments have been written in
\* their order: the text and the position in it.
ByteAt(segments, addr) ==
    LET Holds(s) == s.ptr <= addr /\ addr < s.ptr + s.len
        s == Last(SelectSeq(segments, Holds))
    IN  [text |-> s.text, at |-> addr - s.ptr]

\* Every module imports all of these, whichever it calls, from "icn_host".
host_fns ==
    {"begin_section", "end_section", "create_proposal", "mint_token", "anchor_data",
     "call_host", "log_if_condition", "log_else", "log_endif", "set_property",
     "log_todo", "on_event", "log_range_check", "range_check", "use_resource",
     "transfer_token", "host_submit_mesh_job"}

\* The sections of the module in the order in which they are written.
ModuleSections == <<"type", "import", "function", "memory", "data", "code", "export">>

=============================================================================
