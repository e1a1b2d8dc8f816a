------------------------------- MODULE Contract -------------------------------
(***************************************************************************)
(* Three processes that share nothing: the compiler, whose module is handed  *)
(* to a runtime to be instantiated; and the runtime and the CoVm of           *)
(* Execution, at work on guests of any make.  Init chooses the process, so    *)
(* one run covers them all.                                                  *)
(***************************************************************************)
EXTENDS CclCodegen, Execution

CONSTANTS
    Defs,        \* the definitions contracts are written with
    MaxDefs      \* bound on the definitions of one contract

VARIABLES
    process,     \* "compiler", "host", "vm"
    contract,    \* the definitions written so far
    stage,       \* "writing", "rejected", "compiled", "instantiated", "refused"
    opcodes          \* the opcodes of the compiled contract

compilerVars == <<contract, stage, opcodes>>
contractVars == <<process, compilerVars, hostVars, vmVars>>

-----------------------------------------------------------------------------
Write(d) ==
    /\ stage = "writing"
    /\ Len(contract) < MaxDefs
    /\ contract' = Append(contract, d)
    /\ UNCHANGED <<stage, opcodes>>

\* CclCompiler::compile_to_wasm: parse, lower, generate.
Compile ==
    /\ stage = "writing"
    /\ LET lowered == lower(contract)
       IN  IF lowered.err
           THEN stage' = "rejected" /\ UNCHANGED opcodes
           ELSE stage' = "compiled" /\ opcodes' = generate(lowered.modules)
    /\ UNCHANGED contract

\* WebAssembly's order of sections, which Module::new checks.
WasmSections ==
    <<"type", "import", "function", "table", "memory", "global", "export", "start",
      "element", "code", "data">>

Validates(sections) ==
    LET At(x) == CHOOSE i \in DOMAIN WasmSections : WasmSections[i] = x
    IN  \A i, j \in DOMAIN sections : i < j => At(sections[i]) < At(sections[j])

\* execute_wasm on the compiled contract: load_module, then the linker has to
\* have every import.
LoadContract ==
    /\ stage = "compiled"
    /\ stage' = IF /\ Validates(ModuleSections)
                   /\ host_fns \subseteq register_host_functions["icn_host"]
                THEN "instantiated" ELSE "refused"
    /\ UNCHANGED <<contract, opcodes>>

-----------------------------------------------------------------------------
ContractInit ==
    /\ process \in {"compiler", "host", "vm"}
    /\ contract = <<>>
    /\ stage = "writing"
    /\ opcodes = <<>>
    /\ HostInit
    /\ VmInit

CompilerStep ==
    /\ process = "compiler"
    /\ (\E d \in Defs : Write(d)) \/ Compile \/ LoadContract
    /\ UNCHANGED <<process, hostVars, vmVars>>

HostRuns == process = "host" /\ HostStep /\ UNCHANGED <<process, compilerVars, vmVars>>

VmRuns == process = "vm" /\ VmStep /\ UNCHANGED <<process, compilerVars, hostVars>>

ContractNext == CompilerStep \/ HostRuns \/ VmRuns

ContractSpec == ContractInit /\ [][ContractNext]_contractVars

-----------------------------------------------------------------------------
(* The compiler, against the syntax of the contract                         *)

OpcodeNames ==
    {"BeginSection", "EndSection", "CreateProposal", "MintToken", "AnchorData", "CallHost",
     "If", "Else", "EndIf", "SetProperty", "Todo", "OnEvent", "UseResource"}

CompilerTypeOK ==
    /\ stage \in {"writing", "rejected", "compiled", "instantiated", "refused"}
    /\ Len(contract) <= MaxDefs /\ \A i \in DOMAIN contract : contract[i] \in Defs
    /\ \A i \in DOMAIN opcodes : opcodes[i].op \in OpcodeNames
    /\ run \in 0..MaxRuns
    /\ host.mana \in Nat
    /\ \A f \in DOMAIN context : context[f] \in Int

JustCompiled == stage = "compiled"

\* The opcodes up to i that open, less those that close.
Depth(i, open, close) ==
    Len(SelectSeq(SubSeq(opcodes, 1, i), LAMBDA o : o.op = open))
        - Len(SelectSeq(SubSeq(opcodes, 1, i), LAMBDA o : o.op = close))

\* walk_module, walk_range and walk_if_expr leave a stream in which every
\* section and every conditional that is opened is closed, an EndSection or
\* EndIf never comes before its opening, and an Else stands in a conditional,
\* however the definitions of the contract are nested.
WellNested ==
    JustCompiled =>
        /\ \A i \in DOMAIN opcodes :
              /\ Depth(i, "BeginSection", "EndSection") >= 0
              /\ Depth(i, "If", "EndIf") >= (IF opcodes[i].op = "Else" THEN 1 ELSE 0)
              /\ Depth(i, "Else", "EndIf") <= Depth(i, "If", "EndIf")
        /\ Depth(Len(opcodes), "BeginSection", "EndSection") = 0
        /\ Depth(Len(opcodes), "If", "EndIf") = 0

\* A block or object of the contract that codegen takes for a call.
NamesFunction(keys) == keys # <<>> /\ keys[1] = "function_name"

KeysOf(parts) ==
    LET Kept(p) == \/ "rule" \notin DOMAIN p
                   \/ /\ p.rule = "any_statement"
                      /\ p.key # "description" \/ p.arg.t \in {"none", "block"}
    IN  [i \in DOMAIN SelectSeq(parts, Kept) |-> SelectSeq(parts, Kept)[i].key]

\* What a contract says, in document order: the keys that hold a plain value
\* and the keys that hold a call.  A pair of an object reads like a statement.
RECURSIVE Leaves(_)

LeavesOfValue(key, x) ==
    CASE x.t = "block" -> IF NamesFunction(KeysOf(x.stmts))
                          THEN <<<<"call", key>>>> ELSE FlatMap(Leaves, x.stmts)
      [] x.t = "object" -> IF NamesFunction(KeysOf(x.pairs))
                           THEN <<<<"call", key>>>> ELSE FlatMap(Leaves, x.pairs)
      [] x.t = "function_call" -> <<<<"call", key>>>>
      [] x.t = "range_value" -> FlatMap(Leaves, x.stmts)
      [] OTHER -> <<<<"value", key>>>>

Leaves(st) ==
    CASE "rule" \notin DOMAIN st -> LeavesOfValue(st.key, st.arg)
      [] st.rule = "any_statement" ->
            IF st.key = "description" /\ st.arg.t \notin {"none", "block"}
            THEN <<>> ELSE LeavesOfValue(st.key, st.arg)
      [] st.rule = "range_statement" -> FlatMap(Leaves, st.stmts)
      [] st.rule = "if_statement" -> FlatMap(Leaves, st.then \o st.else)
      [] st.rule = "function_call_statement" -> <<<<"call", st.call.name>>>>
      [] OTHER -> <<>>

LeavesOfDef(d) ==
    LET Described(st) ==
            /\ st.rule = "any_statement" /\ st.key = "description"
            /\ st.arg.t = "string_literal" /\ st.arg.s # ""
        OfRole(st) == IF st.rule = "role_def"
                      THEN (IF SelectSeq(st.stmts, Described) = <<>>
                            THEN <<>> ELSE <<<<"value", "description">>>>)
                               \o FlatMap(Leaves, st.stmts)
                      ELSE <<>>
    IN  CASE d.rule = "actions_def" -> <<>>
          [] d.rule = "roles_def" -> FlatMap(OfRole, d.stmts)
          [] OTHER -> FlatMap(Leaves, d.stmts)

\* Through both passes of the compiler every value and every call of the
\* contract is emitted exactly once and in document order, whether it stands
\* in a block, an object, a range or a branch: nothing is dropped by the
\* flattening of maps, and nothing is attributed twice.
DocumentOrder ==
    JustCompiled =>
        LET IsLeaf(o) == o.op \in {"SetProperty", "CallHost"}
            emitted == SelectSeq(opcodes, IsLeaf)
        IN  [i \in DOMAIN emitted |->
                <<IF emitted[i].op = "CallHost" THEN "call" ELSE "value",
                  emitted[i].args[1]>>] = FlatMap(LeavesOfDef, contract)

\* encode_push_string: after the data segments have been written one over the
\* other, every pointer and length that is pushed reads back its own text, and
\* none of them reaches into the buffer for the job id.
ArgumentsReadBack ==
    JustCompiled =>
        LET segs == program_to_wasm(opcodes)
        IN  \A i \in DOMAIN segs :
              /\ segs[i].ptr >= JOB_ID_BUFFER_SIZE
              /\ \A k \in 0..(segs[i].len - 1) :
                    ByteAt(segs, segs[i].ptr + k) = [text |-> segs[i].text, at |-> k]

\* The compiler keeps the contract's structure: opcodes nest, they follow the
\* order of the document, and pushed texts read back as written.
CompilerSound == CompilerTypeOK /\ WellNested /\ DocumentOrder /\ ArgumentsReadBack

\* What a contract compiles to is a module that the runtime instantiates, as the
\* tests of the compiler expect ("output wasm must validate"; token_minting.rs
\* executes what it compiles) and the ABI document says of the names it imports.
ContractsInstantiate == stage # "refused"

=============================================================================
