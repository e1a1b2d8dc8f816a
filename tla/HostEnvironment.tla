--------------------------- MODULE HostEnvironment ---------------------------
(***************************************************************************)
(* The host side of the mesh ABI in icn-runtime: ConcreteHostEnvironment     *)
(* (host_environment.rs), the JobExecutionContext it locks for each call     *)
(* (job_execution_context.rs) and the functions the linker offers to a guest *)
(* (wasm/linker_legacy_impl.rs, feature full_host_abi).                      *)
(*                                                                         *)
(* execute_wasm gives each execution a clone of the environment, and clones  *)
(* share the context: what one execution leaves behind the next one finds.   *)
(* The state of the context is h = [stack, mana]: the open sections with     *)
(* their properties, and the mana host_use_resource spends.  A call is       *)
(* [fn, args, amount]; it is accepted, or it traps and ends the execution.   *)
(***************************************************************************)
EXTENDS Integers, Sequences, SequencesExt

CONSTANTS
    ValidDids,   \* the texts that Did::from_str accepts
    HostMana,    \* mana of the caller at the start
    GuestCalls,  \* the calls guests make
    MaxRuns,     \* bound on executions
    MaxCalls     \* bound on the calls of one execution

ASSUME HostAssumption ==
    /\ HostMana \in Nat /\ MaxRuns \in Nat /\ MaxCalls \in Nat
    /\ \A c \in GuestCalls : c.fn = "host_use_resource" => c.amount \in Nat

VARIABLES
    host,        \* the shared JobExecutionContext and the caller's mana
    run,         \* the execution in progress, 0 for none
    space,       \* the name space its module imports from
    runs,        \* executions started
    calls,       \* calls of the execution in progress
    sectionCall, \* history: per execution its last accepted section call
    accepted,    \* history: mana of the accepted uses
    refused      \* history: modules that could not be instantiated

hostVars == <<host, run, space, runs, calls, sectionCall, accepted, refused>>

Accept(h) == [ok |-> TRUE, host |-> h]
Trap(h) == [ok |-> FALSE, host |-> h]

-----------------------------------------------------------------------------
(* JobExecutionContext.  "by" is the execution that calls, for the history.  *)

begin_section(h, kind, by) ==
    IF h.stack = <<>>
    THEN Accept([h EXCEPT !.stack = <<[kind |-> kind, by |-> by, props |-> {}]>>])
    ELSE Trap(h)

\* Mutant: the section is read and not taken off the stack.
SectionPeeked(h) == Accept(h)

\* No section to end is only a warning.
end_section(h) ==
    Accept([h EXCEPT !.stack = IF @ = <<>> THEN @ ELSE Front(@)])

set_property(h, key, by) ==
    IF h.stack = <<>>
    THEN Trap(h)
    ELSE Accept([h EXCEPT !.stack[Len(h.stack)].props = @ \cup {<<key, by>>}])

\* The message of the error says that a section is required.
create_proposal(h) == IF h.stack = <<>> THEN Accept(h) ELSE Trap(h)

mint_token(h) == IF h.stack = <<>> THEN Accept(h) ELSE Trap(h)

\* These print and succeed.
Stubs == {"host_anchor_data", "host_log_debug_deprecated", "host_generic_call", "host_if_condition_eval", "host_else_handler",
          "host_endif_handler", "host_on_event", "host_log_todo"}

-----------------------------------------------------------------------------
(* ConcreteHostEnvironment                                                  *)

host_mint_token(h, args) == IF args[2] \in ValidDids THEN mint_token(h) ELSE Trap(h)

host_transfer_token(h, args) ==
    IF {args[2], args[3]} \subseteq ValidDids THEN Accept(h) ELSE Trap(h)

host_range_check(h, c) ==
    IF c.amount >= c.min /\ c.amount <= c.max THEN Accept(h) ELSE Trap(h)

\* Any resource but mana is an error; mana is spent by record_usage.
host_use_resource(h, args, amount) ==
    IF args[1] = "mana" /\ amount <= h.mana
    THEN Accept([h EXCEPT !.mana = @ - amount])
    ELSE Trap(h)

\* The context answers every submission with one fixed id.
JobIdLen == 18

\* write_string_to_mem_ctx fails when the guest's buffer is too short.
host_submit_mesh_job(h, amount) == IF JobIdLen <= amount THEN Accept(h) ELSE Trap(h)

\* A text outside of the guest's memory, or no exported memory, is "bad".
Readable(c) == \A i \in DOMAIN c.args : c.args[i] # "bad"

host_call(h, c, by) ==
    IF c.fn = "host_range_check" THEN host_range_check(h, c)
    ELSE IF ~Readable(c) THEN Trap(h)
    ELSE
    CASE c.fn = "host_begin_section" -> begin_section(h, c.args[1], by)
      [] c.fn = "host_end_section" -> end_section(h)
      [] c.fn = "host_set_property" -> set_property(h, c.args[1], by)
      [] c.fn = "host_create_proposal" -> create_proposal(h)
      [] c.fn = "host_mint_token" -> host_mint_token(h, c.args)
      [] c.fn = "host_transfer_token" -> host_transfer_token(h, c.args)
      [] c.fn = "host_use_resource" -> host_use_resource(h, c.args, c.amount)
      [] c.fn = "host_submit_mesh_job" -> host_submit_mesh_job(h, c.amount)
      [] c.fn \in Stubs -> Accept(h)

-----------------------------------------------------------------------------
(* The linker.  The functions above are offered in one name space, and in     *)
(* another one older functions of which all but anchor_receipt always trap.   *)

NewFns ==
    {"host_begin_section", "host_end_section", "host_set_property", "host_create_proposal",
     "host_mint_token", "host_range_check", "host_use_resource", "host_transfer_token",
     "host_submit_mesh_job"} \cup Stubs

LegacyStubs ==
    {"account_get_mana", "account_spend_mana", "get_job_id",
     "host_job_get_initial_input_cid", "host_job_is_interactive",
     "host_workflow_get_current_stage_index", "host_workflow_get_current_stage_id",
     "host_workflow_get_current_stage_input_cid", "host_job_report_progress",
     "host_workflow_complete_current_stage", "interactive_send", "interactive_recv",
     "host_interactive_peek_input_len", "host_interactive_prompt_for_input", "read_data",
     "anchor_data", "log_message", "host_submit_mesh_job_old"}

register_host_functions ==
    [icn_host |-> LegacyStubs \cup {"anchor_receipt"}, icn_host_new |-> NewFns]

\* What a linked function does: the wrappers turn an error into a trap.
Linked(from, h, c, by) ==
    IF from = "icn_host_new" THEN host_call(h, c, by)
    ELSE IF c.fn = "anchor_receipt" /\ Readable(c) THEN Accept(h)
    ELSE Trap(h)

-----------------------------------------------------------------------------
HostInit ==
    /\ host = [stack |-> <<>>, mana |-> HostMana]
    /\ run = 0
    /\ space = "icn_host"
    /\ runs = 0
    /\ calls = 0
    /\ sectionCall = [r \in 1..MaxRuns |-> "none"]
    /\ accepted = 0
    /\ refused = 0

\* execute_wasm: the module, instantiated with the functions it imports.
ExecuteWasm(from, imports) ==
    /\ run = 0
    /\ runs < MaxRuns
    /\ runs' = runs + 1
    /\ space' = from
    /\ IF imports \subseteq register_host_functions[from]
       THEN run' = runs + 1 /\ UNCHANGED refused
       ELSE run' = 0 /\ refused' = refused + 1
    /\ calls' = 0
    /\ UNCHANGED <<host, sectionCall, accepted>>

\* One host call of the guest.
GuestCall(c) ==
    /\ run # 0
    /\ c.fn \in register_host_functions[space]
    /\ calls < MaxCalls
    /\ calls' = calls + 1
    /\ LET r == Linked(space, host, c, run)
       IN  /\ host' = r.host
           /\ run' = IF r.ok THEN run ELSE 0
           /\ accepted' = IF r.ok /\ c.fn = "host_use_resource"
                          THEN accepted + c.amount ELSE accepted
           /\ sectionCall' = IF r.ok /\ c.fn \in {"host_begin_section", "host_end_section"}
                             THEN [sectionCall EXCEPT ![run] = c.fn]
                             ELSE sectionCall
    /\ UNCHANGED <<space, runs, refused>>

\* The guest's function returns.
GuestReturns == run # 0 /\ run' = 0 /\ UNCHANGED <<host, space, runs, calls,
                                                   sectionCall, accepted, refused>>

=============================================================================
