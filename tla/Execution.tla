------------------------------ MODULE Execution ------------------------------
(***************************************************************************)
(* Guests at work: a runtime that executes them over one host environment    *)
(* (HostEnvironment), and a CoVm that executes them over one HostContext.    *)
(* The two share nothing; an execution of either may trap at any call.       *)
(***************************************************************************)
EXTENDS HostEnvironment, CoVm

HostStep ==
    \/ \E from \in DOMAIN register_host_functions,
          imports \in {LegacyStubs, NewFns} : ExecuteWasm(from, imports)
    \/ \E c \in GuestCalls : GuestCall(c)
    \/ GuestReturns

VmStep ==
    \/ \E compiles \in BOOLEAN : Execute(compiles)
    \/ Instantiated \/ InstantiationFails
    \/ \E t \in GuestTexts, utf8 \in BOOLEAN :
          Log(t, utf8) \/ Anchor(t, utf8) \/ RecordUsage(t, utf8) \/ CheckAuth(t, utf8)
    \/ \E a, b, c, d \in GuestTexts, utf8 \in BOOLEAN : SubmitJob(a, b, c, d, utf8)
    \/ Compute
    \/ Finish

execVars == <<hostVars, vmVars>>

ExecInit == HostInit /\ VmInit

ExecNext == (HostStep /\ UNCHANGED vmVars) \/ (VmStep /\ UNCHANGED hostVars)

ExecSpec == ExecInit /\ [][ExecNext]_execVars

-----------------------------------------------------------------------------
(* The host environment                                                     *)

\* Executions share one context: a section that is still open was opened by an
\* execution whose last section call was begin_section, so a guest that ends
\* its sections leaves none to the next one, whatever trapped in between.
OpenSectionsUnended ==
    \A i \in DOMAIN host.stack : sectionCall[host.stack[i].by] = "host_begin_section"

\* host_use_resource over all executions: the caller is charged exactly what
\* the accepted calls asked for, and never below zero.
SpendingExact == host.mana = HostMana - accepted /\ host.mana >= 0

-----------------------------------------------------------------------------
(* The VM                                                                   *)

\* host_calls is the sum of the records and of the calls that failed, and the
\* two counters lag behind the records they count by what start functions
\* recorded before an instantiation that failed, and by nothing else: once an
\* execution has reached its entry point they agree, however it ended.
MetricsAgree ==
    /\ context.host_calls = context.logs + context.anchored + context.checks
                              + context.usage + context.jobs + failed
    /\ vm = "idle" =>
          /\ context.anchored_count = context.anchored - early.anchored
          /\ context.submissions_count = context.jobs - early.jobs

\* b is a less some whole words.
WordsApart(a, b) == \E k \in 0..a : a = b + k * Word

\* io_bytes is what the guest had the host read, less whole words that the
\* casts of the lengths and the sum of submit_job lose; none is lost as long as
\* four texts of the guest's memory do not exceed a signed word.
IoExact ==
    /\ WordsApart(bytes, context.io_bytes)
    /\ 4 * MemoryLen < SignBit => context.io_bytes = bytes

\* The host functions and the VM keep their books over executions that trap:
\* sections and spending are exact, and so are the metrics.
ExecutionSound ==
    /\ OpenSectionsUnended /\ SpendingExact
    /\ MetricsAgree /\ IoExact

=============================================================================
