--------------------------------- MODULE CoVm ---------------------------------
(***************************************************************************)
(* icn-core-vm: CoVm::execute runs a guest with five host functions that     *)
(* record what it does in a HostContext, and with a supply of fuel.  The     *)
(* records are shared (Arc), so the caller keeps what a failed execution     *)
(* recorded and a later execution with the same context goes on from there.  *)
(*                                                                         *)
(* Pointers and lengths are 32-bit words of the guest; here the top bit of a  *)
(* word weighs SignBit, for 2^31.  The host casts them between signed and    *)
(* unsigned, and adds them in 32 bits as a release build does, without a     *)
(* check.                                                                    *)
(***************************************************************************)
EXTENDS Integers, Sequences

CONSTANTS
    SignBit,     \* weight of the top bit of a word of the guest
    MemoryLen,   \* bytes of the guest's memory
    GuestTexts,  \* the pointers and lengths guests pass, signed words
    MaxFuel,     \* ResourceLimits::max_fuel, in steps of the guest
    Executions   \* bound on executions with one context

ASSUME VmAssumption ==
    /\ SignBit \in Nat \ {0} /\ MemoryLen \in 0..(2 * SignBit)
    /\ \A t \in GuestTexts : {t.ptr, t.len} \subseteq (-SignBit)..(SignBit - 1)
    /\ MaxFuel \in Nat /\ Executions \in Nat

VARIABLES
    context,     \* the HostContext
    vm,          \* "idle", "starting" (the start function), "running" (_start)
    fuel,        \* fuel left
    executed,    \* executions started
    failed,      \* history: calls that ended an execution with an error
    bytes,       \* history: the bytes host functions read for accepted calls
    early        \* history: records of start functions since the last collection

vmVars == <<context, vm, fuel, executed, failed, bytes, early>>

Word == 2 * SignBit
AsUnsigned(w) == w % Word                        \* as u32
AsSigned(n) ==                                   \* the i32 of a sum of i32s
    LET u == n % Word IN IF u >= SignBit THEN u - Word ELSE u

\* memory.data().get(ptr as u32 as usize..(ptr as u32 + len as u32) as usize)
InMemory(ptr, len) ==
    LET end == (AsUnsigned(ptr) + AsUnsigned(len)) % Word
    IN  AsUnsigned(ptr) <= end /\ end <= MemoryLen

HostContextDefault ==
    [host_calls |-> 0, io_bytes |-> 0, logs |-> 0, anchored |-> 0, checks |-> 0,
     usage |-> 0, jobs |-> 0, anchored_count |-> 0, submissions_count |-> 0]

NoneEarly == [anchored |-> 0, jobs |-> 0]

VmInit ==
    /\ context = HostContextDefault
    /\ vm = "idle"
    /\ fuel = 0
    /\ executed = 0
    /\ failed = 0
    /\ bytes = 0
    /\ early = NoneEarly

\* execute: a module that does not compile is refused; for any other there is a
\* new store over the context, with a full supply of fuel, and it is instantiated.
Execute(compiles) ==
    /\ vm = "idle"
    /\ executed < Executions
    /\ vm' = IF compiles THEN "starting" ELSE "idle"
    /\ fuel' = IF compiles THEN MaxFuel ELSE fuel
    /\ executed' = executed + 1
    /\ UNCHANGED <<context, failed, bytes, early>>

\* Instance::new returns, after the start function if the module has one.
Instantiated ==
    /\ vm = "starting"
    /\ vm' = "running"
    /\ UNCHANGED <<context, fuel, executed, failed, bytes, early>>

\* Imports that do not fit, or a start function that traps or runs out of fuel:
\* execute returns by ?, before the counters are collected.
InstantiationFails ==
    /\ vm = "starting"
    /\ vm' = "idle"
    /\ UNCHANGED <<context, fuel, executed, failed, bytes, early>>

\* The end of execute: the counters are taken from the records, whether the
\* entry point returned or trapped.
Collected(ctx, ok) ==
    [ctx EXCEPT !.anchored_count = ctx.anchored, !.submissions_count = ctx.jobs]

\* Texts that a host function can read: in a memory that the guest exports, and
\* UTF-8 (that is what utf8 says of the guest and its texts).
Reads(texts, utf8) ==
    utf8 /\ \A i \in DOMAIN texts : InMemory(texts[i].ptr, texts[i].len)

\* A host function: the call is counted; an argument that cannot be read is an
\* error and ends the start function, and with it execute, or _start; otherwise
\* the record grows and the lengths are added to io_bytes.
HostFn(record, texts, io, utf8) ==
    /\ vm # "idle"
    /\ fuel > 0
    /\ fuel' = fuel - 1
    /\ LET called == [context EXCEPT !.host_calls = @ + 1]
       IN  IF Reads(texts, utf8)
           THEN /\ context' = [called EXCEPT ![record] = @ + 1,
                                             !.io_bytes = @ + io]
                /\ early' = IF vm = "starting" /\ record \in DOMAIN early
                            THEN [early EXCEPT ![record] = @ + 1] ELSE early
                /\ UNCHANGED <<vm, failed>>
           ELSE /\ context' = IF vm = "running" THEN Collected(called, FALSE) ELSE called
                /\ early' = IF vm = "running" THEN NoneEarly ELSE early
                /\ vm' = "idle"
                /\ failed' = failed + 1
    /\ UNCHANGED executed

CountBytes(texts, utf8, n) == bytes' = IF Reads(texts, utf8) THEN bytes + n ELSE bytes

\* The host function of one text whose length is added to io_bytes.
OneText(record, t, utf8) ==
    HostFn(record, <<t>>, t.len, utf8) /\ CountBytes(<<t>>, utf8, AsUnsigned(t.len))

Log(t, utf8) == OneText("logs", t, utf8)

Anchor(t, utf8) == OneText("anchored", t, utf8)

RecordUsage(t, utf8) == OneText("usage", t, utf8)

\* Always authorized; its argument is not counted in io_bytes.
CheckAuth(t, utf8) == HostFn("checks", <<t>>, 0, utf8) /\ UNCHANGED bytes

\* (wasm_cid_len + desc_len + rsrc_type_len + priority_len) as u64
JobBytes(a, b, c, d) == AsSigned(a.len + b.len + c.len + d.len)

SubmitJob(a, b, c, d, utf8) ==
    /\ HostFn("jobs", <<a, b, c, d>>, JobBytes(a, b, c, d), utf8)
    /\ CountBytes(<<a, b, c, d>>, utf8,
                  AsUnsigned(a.len) + AsUnsigned(b.len) + AsUnsigned(c.len) + AsUnsigned(d.len))

\* An instruction of the guest that calls no host function.
Compute ==
    /\ vm # "idle"
    /\ fuel > 0
    /\ fuel' = fuel - 1
    /\ UNCHANGED <<context, vm, executed, failed, bytes, early>>

\* _start returns, traps or is missing.
Finish ==
    /\ vm = "running"
    /\ vm' = "idle"
    /\ context' = Collected(context, fuel > 0)
    /\ early' = NoneEarly
    /\ UNCHANGED <<fuel, executed, failed, bytes>>

=============================================================================
