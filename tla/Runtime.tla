------------------------------- MODULE Runtime -------------------------------
(***************************************************************************)
(* The runtime node (icn-runtime): execute_proposal, issue_receipt and        *)
(* anchor_receipt called by tasks that hold clones of one Runtime, the job    *)
(* loop run_forever, SledStorage with its delayed flush, crashes and restarts, *)
(* and the HTTP reputation updater, which main.rs sets up when it has a URL.   *)
(*                                                                         *)
(* Three parts are stubs at this commit and stand for what their callers      *)
(* expect: RuntimeExecutionReceipt::cid (CidOk says where it succeeds),       *)
(* poll_for_job (it answers some job of the mesh service or none) and the     *)
(* WASM of a proposal or a job, which is loaded and not run.                 *)
(***************************************************************************)
EXTENDS Integers, Sequences, FiniteSets, SequencesExt

CONSTANTS
    Tasks,       \* tasks that call a clone of the runtime
    Proposals, Receipts,
    PolledJobs,  \* jobs that poll_for_job answers
    Keys,        \* key pairs; a DID is the name of its key
    NodeDid,     \* config.node_did
    KeyPath,     \* a key file is configured
    CidOk,       \* receipts whose cid() succeeds
    ReceiptCost, \* metrics.mana_cost: receipt -> Nat or Unset
    JobParams,   \* job -> [explicit cost, resources, valid originator DID]
    Unset,       \* no cost, no signature
    MaxCrashes, MaxOps   \* bounds, for model checking

ASSUME RuntimeAssumption ==
    /\ NodeDid \in Keys /\ KeyPath \in BOOLEAN
    /\ CidOk \subseteq Receipts
    /\ MaxCrashes \in Nat /\ MaxOps \in Nat

VARIABLES
    db,          \* sled: proposals, wasm modules, receipts, finished executions
    disk,        \* what of db has been flushed
    dag,         \* receipts in the in-memory DAG store
    key,         \* the node's key pair
    issued,      \* receipt -> its issuer and signer, or Unset
    task,        \* the call each task is in
    loop,        \* run_forever: where it is and the job it has
    posted,      \* history: receipt -> posts and deductions that got through
    jobRuns,     \* history: job -> completed executions and deductions submitted
    crashes, ops

runtimeVars == <<db, disk, dag, key, issued, task, loop, posted, jobRuns, crashes, ops>>

Idle == [pc |-> "idle"]

Count == ops < MaxOps /\ ops' = ops + 1

Quorum == {"Pending", "MajorityReached", "ThresholdReached", "WeightedReached", "Failed"}
Reached == {"MajorityReached", "ThresholdReached", "WeightedReached"}

RuntimeInit ==
    /\ db = [proposal |-> [p \in Proposals |-> [state |-> "Created", quorum |-> "Pending"]],
             wasm |-> {}, receipt |-> {}, done |-> [p \in Proposals |-> 0]]
    /\ disk = db
    /\ dag = {}
    /\ key \in IF KeyPath THEN {NodeDid} ELSE Keys
    /\ issued = [r \in Receipts |-> Unset]
    /\ task = [t \in Tasks |-> Idle]
    /\ loop = Idle
    /\ posted = [r \in Receipts |-> [reputation |-> 0, mana |-> 0]]
    /\ jobRuns = [j \in PolledJobs |-> [executed |-> 0, charged |-> 0]]
    /\ crashes = 0 /\ ops = 0

-----------------------------------------------------------------------------
(* Writers of the store outside the runtime: governance and deployment.      *)

UpdateProposal(p, state, quorum) ==
    /\ Count
    /\ <<db.proposal[p].state, state>> \in {<<"Created", "Voting">>, <<"Voting", "Approved">>,
                                           <<"Voting", "Rejected">>}
    /\ state = "Voting" => quorum = "Pending"
    /\ db' = [db EXCEPT !.proposal[p] = [state |-> state, quorum |-> quorum]]
    /\ UNCHANGED <<disk, dag, key, issued, task, loop, posted, jobRuns, crashes>>

StoreWasm(x) ==
    /\ Count
    /\ x \notin db.wasm
    /\ db' = [db EXCEPT !.wasm = @ \cup {x}]
    /\ UNCHANGED <<disk, dag, key, issued, task, loop, posted, jobRuns, crashes>>

-----------------------------------------------------------------------------
(* execute_proposal: load and check, load the module, store Executed.        *)

Goto(t, call) == task' = [task EXCEPT ![t] = call]

\* Mutant: the state of the proposal is not checked.
MayExecuteAnyState(p) == p.quorum \in Reached

MayExecute(p) == p.state = "Approved" /\ p.quorum \in Reached

ExecuteLoad(t, p) ==
    /\ task[t] = Idle
    /\ Count
    /\ MayExecute(db.proposal[p])
    /\ Goto(t, [pc |-> "exec_wasm", p |-> p, copy |-> db.proposal[p], seen |-> db.done[p]])
    /\ UNCHANGED <<db, disk, dag, key, issued, loop, posted, jobRuns, crashes>>

ExecuteModule(t) ==
    /\ task[t].pc = "exec_wasm"
    /\ Goto(t, IF task[t].p \in db.wasm THEN [task[t] EXCEPT !.pc = "exec_update"] ELSE Idle)
    /\ UNCHANGED <<db, disk, dag, key, issued, loop, posted, jobRuns, crashes, ops>>

\* The copy that was loaded is written back as a whole.
ExecuteUpdate(t) ==
    /\ task[t].pc = "exec_update"
    /\ LET p == task[t].p
       IN  db' = [db EXCEPT !.proposal[p] = [task[t].copy EXCEPT !.state = "Executed"],
                            !.done[p] = @ + 1]
    /\ Goto(t, Idle)
    /\ UNCHANGED <<disk, dag, key, issued, loop, posted, jobRuns, crashes, ops>>

-----------------------------------------------------------------------------
(* issue_receipt, sign_runtime_receipt_in_place and anchor_receipt.          *)

\* sign_runtime_receipt_in_place: the node's own key signs.
Signed(issuer) == [issuer |-> issuer, signer |-> key]

\* The caller names the issuer.
IssueReceipt(r, issuer) ==
    /\ Count
    /\ issued[r] = Unset
    /\ issued' = [issued EXCEPT ![r] = Signed(issuer)]
    /\ UNCHANGED <<db, disk, dag, key, task, loop, posted, jobRuns, crashes>>

\* verify_signature: the key of the issuer's DID against the signature.
VerifySignature(r) == issued[r] # Unset /\ issued[r].issuer = issued[r].signer

\* Verification, CID and the insertion of the receipt's node into the DAG store.
AnchorInsert(t, r) ==
    /\ task[t] = Idle
    /\ Count
    /\ VerifySignature(r)
    /\ r \in CidOk
    /\ dag' = dag \cup {r}
    /\ Goto(t, [pc |-> "store", r |-> r])
    /\ UNCHANGED <<db, disk, key, issued, loop, posted, jobRuns, crashes>>

\* Mutant: a receipt that could not be stored is reported all the same.
AnchorStoreIgnoresError(t, ok) ==
    /\ task[t].pc = "store"
    /\ db' = IF ok THEN [db EXCEPT !.receipt = @ \cup {task[t].r}] ELSE db
    /\ Goto(t, [task[t] EXCEPT !.pc = "reputation"])
    /\ UNCHANGED <<disk, dag, key, issued, loop, posted, jobRuns, crashes, ops>>

AnchorStore(t, ok) ==
    /\ task[t].pc = "store"
    /\ IF ok
       THEN /\ db' = [db EXCEPT !.receipt = @ \cup {task[t].r}]
            /\ Goto(t, [task[t] EXCEPT !.pc = "reputation"])
       ELSE UNCHANGED db /\ Goto(t, Idle)
    /\ UNCHANGED <<disk, dag, key, issued, loop, posted, jobRuns, crashes, ops>>

\* submit_receipt_based_reputation: the record is computed and posted, with a
\* 10 s timeout; it gets through or not.
SubmitReputation(r) == {posted, [posted EXCEPT ![r].reputation = @ + 1]}

\* Whatever becomes of the record is only logged.
AnchorReputation(t) ==
    /\ task[t].pc = "reputation"
    /\ posted' \in SubmitReputation(task[t].r)
    /\ Goto(t, [task[t] EXCEPT !.pc = "mana"])
    /\ UNCHANGED <<db, disk, dag, key, issued, loop, jobRuns, crashes, ops>>

HasCost(r) == ReceiptCost[r] # Unset /\ ReceiptCost[r] > 0

SubmitManaDeduction(r) == {posted, [posted EXCEPT ![r].mana = @ + 1]}

\* Whatever becomes of the deduction is only logged.
AnchorMana(t) ==
    /\ task[t].pc = "mana"
    /\ posted' \in IF HasCost(task[t].r) THEN SubmitManaDeduction(task[t].r) ELSE {posted}
    /\ Goto(t, Idle)
    /\ UNCHANGED <<db, disk, dag, key, issued, loop, jobRuns, crashes, ops>>

-----------------------------------------------------------------------------
(* run_forever, process_polled_job, execute_mesh_job, anchor_mesh_receipt.    *)

DefaultManaCost == 100

\* Explicit cost, else the sum of the resources, else the default; a zero cost
\* of a job that needs resources becomes the default.
JobCost(params) ==
    LET sum == FoldSeq(LAMBDA a, n : n + a, 0, params.resources)
        calculated == IF params.explicit # Unset THEN params.explicit
                      ELSE IF params.resources # <<>> THEN sum ELSE DefaultManaCost
    IN  IF calculated = 0 /\ params.resources # <<>> THEN DefaultManaCost ELSE calculated

PollForJob(j) ==
    /\ loop = Idle
    /\ Count
    /\ loop' = [pc |-> "process", j |-> j]
    /\ UNCHANGED <<db, disk, dag, key, issued, task, posted, jobRuns, crashes>>

\* The execution is simulated and always completes.
ExecuteMeshJob(j) == jobRuns' = [jobRuns EXCEPT ![j].executed = @ + 1]

\* load_wasm and Did::from_str(originator), then the execution.
ProcessJob ==
    /\ loop.pc = "process"
    /\ LET j == loop.j
       IN  IF j \in db.wasm /\ JobParams[j].valid
           THEN /\ loop' = [pc |-> "anchor1", j |-> j]
                /\ ExecuteMeshJob(j)
           ELSE /\ loop' = [pc |-> "report", j |-> j]
                /\ UNCHANGED jobRuns
    /\ UNCHANGED <<db, disk, dag, key, issued, task, posted, crashes, ops>>

\* anchor_mesh_receipt: it submits the deduction, logs a failure and returns Ok.
AnchorMeshReceipt(j) ==
    jobRuns' = IF JobCost(JobParams[j]) > 0 THEN [jobRuns EXCEPT ![j].charged = @ + 1] ELSE jobRuns

\* At the end of process_polled_job.
AnchorPolled ==
    /\ loop.pc = "anchor1"
    /\ AnchorMeshReceipt(loop.j)
    /\ loop' = [loop EXCEPT !.pc = "anchor2"]
    /\ UNCHANGED <<db, disk, dag, key, issued, task, posted, crashes, ops>>

\* And again in run_forever.
AnchorInLoop ==
    /\ loop.pc = "anchor2"
    /\ AnchorMeshReceipt(loop.j)
    /\ loop' = Idle
    /\ UNCHANGED <<db, disk, dag, key, issued, task, posted, crashes, ops>>

\* POST /jobs/{id}/runtime-failure, when an API URL is configured; the loop
\* goes on whether it is accepted, refused or lost.  The client has no timeout:
\* a peer that never answers keeps the loop in "report".
ReportFailure ==
    /\ loop.pc = "report"
    /\ loop' = Idle
    /\ UNCHANGED <<db, disk, dag, key, issued, task, posted, jobRuns, crashes, ops>>

-----------------------------------------------------------------------------
(* sled's flush, crash and restart.                                         *)

Flush ==
    /\ disk # db
    /\ disk' = db
    /\ UNCHANGED <<db, dag, key, issued, task, loop, posted, jobRuns, crashes, ops>>

\* The key file is read back; without one a key is made up.
LoadOrGenerateKeypair == IF KeyPath THEN {key} ELSE Keys

\* The DAG store is in memory; sled comes back as last flushed.
CrashRestart ==
    /\ crashes < MaxCrashes
    /\ crashes' = crashes + 1
    /\ db' = disk
    /\ dag' = {}
    /\ key' \in LoadOrGenerateKeypair
    /\ task' = [t \in Tasks |-> Idle]
    /\ loop' = Idle
    /\ UNCHANGED <<disk, issued, posted, jobRuns, ops>>

-----------------------------------------------------------------------------
ProposalStep ==
    \/ \E p \in Proposals :
          \/ \E state \in {"Voting", "Approved", "Rejected"}, q \in Quorum : UpdateProposal(p, state, q)
          \/ \E t \in Tasks : ExecuteLoad(t, p)
    \/ \E x \in Proposals \cup PolledJobs : StoreWasm(x)
    \/ \E t \in Tasks : ExecuteModule(t) \/ ExecuteUpdate(t)

AnchorStep ==
    \/ \E r \in Receipts, d \in Keys : IssueReceipt(r, d)
    \/ \E t \in Tasks :
          \/ \E r \in Receipts : AnchorInsert(t, r)
          \/ \E ok \in BOOLEAN : AnchorStore(t, ok)
          \/ AnchorReputation(t) \/ AnchorMana(t)

LoopStep ==
    \/ \E j \in PolledJobs : PollForJob(j)
    \/ ProcessJob \/ AnchorPolled \/ AnchorInLoop \/ ReportFailure

RuntimeNext == ProposalStep \/ AnchorStep \/ LoopStep \/ Flush \/ CrashRestart

RuntimeSpec == RuntimeInit /\ [][RuntimeNext]_runtimeVars

-----------------------------------------------------------------------------
(* Properties.                                                              *)

ExecStages == {"exec_wasm", "exec_update"}
AnchorStages == {"store", "reputation", "mana"}

RuntimeTypeOK ==
    /\ db.wasm \subseteq Proposals \cup PolledJobs /\ db.receipt \subseteq Receipts
    /\ \A p \in Proposals :
           /\ db.proposal[p].state \in {"Created", "Voting", "Approved", "Rejected", "Executed"}
           /\ db.proposal[p].quorum \in Quorum
    /\ dag \subseteq Receipts /\ key \in Keys
    /\ \A t \in Tasks : task[t].pc \in {"idle"} \cup ExecStages \cup AnchorStages
    /\ loop.pc \in {"idle", "process", "anchor1", "anchor2", "report"}

\* Clones of the runtime may execute one approved proposal at the same time,
\* but no execution begins once the mark of an earlier one is in the store:
\* all executions of a proposal that count overlap.  A crash may take back the
\* mark that was not flushed, and the execution with it.
ExecutionsOverlap ==
    \A t \in Tasks : task[t].pc \in ExecStages => task[t].seen = 0

\* An Executed mark means approval, a reached quorum and a stored module, in
\* memory and in what a crash leaves on disk.
ExecutedWasApproved ==
    \A store \in {db, disk}, p \in Proposals :
        store.proposal[p].state = "Executed" =>
            store.proposal[p].quorum \in Reached /\ p \in store.wasm

\* Whatever is in the DAG, in the store or on disk was signed by the key of
\* the issuer it names, although callers name the issuer and the key may
\* change with a restart.
AnchoredIsSigned ==
    \A r \in dag \cup db.receipt \cup disk.receipt : issued[r].issuer = issued[r].signer

\* Nothing is reported of a receipt before it is in the DAG and in the store;
\* only a crash separates the two afterwards.
ReportedIsAnchored ==
    \A r \in Receipts :
        /\ posted[r].reputation + posted[r].mana > 0 /\ crashes = 0 => r \in dag \cap db.receipt
        /\ crashes = 0 => db.receipt \subseteq dag

\* A job is charged at most once per execution, as full_loop_test.rs asserts of
\* run_forever ("Expected one mana deduction call").
OneChargePerExecution == \A j \in PolledJobs : jobRuns[j].charged <= jobRuns[j].executed

\* What is marked Executed was approved, and is not executed once more after the
\* mark, on any clone and after any crash (execute_proposal).
ProposalsSound == RuntimeTypeOK /\ ExecutionsOverlap /\ ExecutedWasApproved

\* What the node keeps of receipts and tells others of them: signed by the
\* issuer, and anchored before it is reported (anchor_receipt).
ReceiptsSound == AnchoredIsSigned /\ ReportedIsAnchored

=============================================================================
