------------------------------ MODULE JobService ------------------------------
(***************************************************************************)
(* The icn-mesh-jobs service: the HTTP handlers of main.rs over SqliteStore. *)
(*                                                                         *)
(* A handler awaits the database, the reputation service and the mesh node;  *)
(* each await is a step here, and other handlers run in between.  A handler  *)
(* checks the status it read in an earlier step; update_job_status writes    *)
(* the new one whatever the row holds by then.  axum drops a handler whose   *)
(* client goes away, at any await.                                          *)
(***************************************************************************)
EXTENDS Integers

CONSTANTS
    Jobs,        \* payloads of POST /jobs
    Dids,        \* bidders and workers
    Handlers,    \* requests that may be served at the same time
    None,        \* NULL in the column status_bidder_did
    MaxRecords   \* bound on reputation records per job, kind and subject

ASSUME JobsAssumption ==
    /\ Jobs # {}
    /\ None \notin Dids
    /\ MaxRecords \in Nat

VARIABLES
    status,      \* job -> its row: status_type and status_bidder_did
    bids,        \* job -> bidders in the bids table
    pc,          \* per handler: the await it is at
    call,        \* per handler: the job, the did, the outcome it reports, the row it read
    told,        \* job -> executors that P2P notified of an assignment
    records,     \* reputation records accepted, by job, outcome and subject
    assigned,    \* history: job -> dids the row was ever assigned to
    fresh        \* history: job -> no handler has overwritten a row it had not read

vars == <<status, bids, pc, call, told, records, assigned, fresh>>

Outcomes == {"Completed", "Failed"}

\* JobStatus::to_db_fields: only Assigned and Running keep a did.
Row(type, did) ==
    [type |-> type, did |-> IF type \in {"Assigned", "Running"} THEN did ELSE None]

NoJob == Row("absent", None)
Rows == [type : {"absent", "Pending", "Bidding", "Completed", "Failed"}, did : {None}]
          \cup [type : {"Assigned", "Running"}, did : Dids]

Init ==
    /\ status = [j \in Jobs |-> NoJob]
    /\ bids = [j \in Jobs |-> {}]
    /\ pc = [h \in Handlers |-> "idle"]
    /\ call = [h \in Handlers |-> [job |-> CHOOSE j \in Jobs : TRUE, did |-> None,
                                   outcome |-> "Failed", seen |-> NoJob]]
    /\ told = [j \in Jobs |-> {}]
    /\ records = [j \in Jobs |-> [o \in Outcomes |-> [d \in Dids |-> 0]]]
    /\ assigned = [j \in Jobs |-> {}]
    /\ fresh = [j \in Jobs |-> TRUE]

-----------------------------------------------------------------------------
(* Single-await handlers.                                                   *)

\* The row is keyed by insert_job, by the cid of the whole JobRequest, and the key
\* is unique: a second insert of the same request is an error.  (create_job
\* answers with another hash, of the params and the originator; a client finds
\* its job by listing.)
CreateJob(h, j) ==
    /\ pc[h] = "idle"
    /\ status[j] = NoJob
    /\ status' = [status EXCEPT ![j] = Row("Pending", None)]
    /\ UNCHANGED <<bids, pc, call, told, records, assigned, fresh>>

\* submit_bid does not look at the job's status.  A reputation score that
\* cannot be fetched is left out of the bid.
SubmitBid(h, j, d) ==
    /\ pc[h] = "idle"
    /\ status[j] # NoJob
    /\ bids' = [bids EXCEPT ![j] = @ \cup {d}]
    /\ UNCHANGED <<status, pc, call, told, records, assigned, fresh>>

\* report_runtime_failure_handler asks for no status and no worker.
ReportRuntimeFailure(h, j) ==
    /\ pc[h] = "idle"
    /\ status[j] # NoJob
    /\ status' = [status EXCEPT ![j] = Row("Failed", None)]
    /\ UNCHANGED <<bids, pc, call, told, records, assigned, fresh>>

-----------------------------------------------------------------------------
(* Handlers of several awaits.                                              *)

\* The first await of a handler: it reads the row and goes on to step p.
Enter(h, p, j, d, o) ==
    /\ pc[h] = "idle"
    /\ pc' = [pc EXCEPT ![h] = p]
    /\ call' = [call EXCEPT ![h] = [job |-> j, did |-> d, outcome |-> o,
                                    seen |-> status[j]]]
    /\ UNCHANGED <<status, bids, told, records, assigned, fresh>>

\* update_job_status: UPDATE jobs SET ... WHERE job_id = ...
UpdateJobStatus(h, type) ==
    /\ status' = [status EXCEPT ![call[h].job] = Row(type, call[h].did)]
    /\ fresh' = [fresh EXCEPT ![call[h].job] = @ /\ status[call[h].job] = call[h].seen]

Leave(h) == pc' = [pc EXCEPT ![h] = "idle"]

\* begin_bidding_handler; a job that is Bidding already is left alone.
BeginBiddingRead(h, j) ==
    /\ status[j].type = "Pending"
    /\ Enter(h, "begin", j, None, "Failed")

BeginBiddingWrite(h) ==
    /\ pc[h] = "begin"
    /\ UpdateJobStatus(h, "Bidding")
    /\ Leave(h)
    /\ UNCHANGED <<bids, call, told, records, assigned>>

\* Mutant: the status is not looked at.
AssignAnyStatus(h, j) ==
    /\ status[j] # NoJob
    /\ Enter(h, "select", j, None, "Failed")

\* assign_best_bid_handler
AssignRead(h, j) ==
    /\ status[j].type = "Bidding"
    /\ Enter(h, "select", j, None, "Failed")

\* Mutant: whoever the selector names is taken, with a bid or without.
AssignUnchecked(h, d) ==
    /\ pc[h] = "select"
    /\ pc' = [pc EXCEPT ![h] = "assign"]
    /\ call' = [call EXCEPT ![h].did = d]
    /\ UNCHANGED <<status, bids, told, records, assigned, fresh>>

\* list_bids, then the selector's score: any of the bids may win.
AssignSelect(h, d) ==
    /\ pc[h] = "select"
    /\ d \in bids[call[h].job]
    /\ pc' = [pc EXCEPT ![h] = "assign"]
    /\ call' = [call EXCEPT ![h].did = d]
    /\ UNCHANGED <<status, bids, told, records, assigned, fresh>>

AssignWrite(h) ==
    /\ pc[h] = "assign"
    /\ UpdateJobStatus(h, "Assigned")
    /\ assigned' = [assigned EXCEPT ![call[h].job] = @ \cup {call[h].did}]
    /\ pc' = [pc EXCEPT ![h] = "notify"]
    /\ UNCHANGED <<bids, call, told, records>>

\* The lock of the mesh node, then its assign_job.
AssignNotify(h) ==
    /\ pc[h] = "notify"
    /\ told' = [told EXCEPT ![call[h].job] = @ \cup {call[h].did}]
    /\ Leave(h)
    /\ UNCHANGED <<status, bids, call, records, assigned, fresh>>

\* start_job_handler: the worker in the header is the bidder of the row.
StartRead(h, j, d) ==
    /\ status[j] = Row("Assigned", d)
    /\ Enter(h, "start", j, d, "Failed")

StartWrite(h) ==
    /\ pc[h] = "start"
    /\ UpdateJobStatus(h, "Running")
    /\ Leave(h)
    /\ UNCHANGED <<bids, call, told, records, assigned>>

\* mark_job_completed_handler and mark_job_failed_handler.
FinishRead(h, j, d, o) ==
    /\ status[j] = Row("Running", d)
    /\ Enter(h, "submit", j, d, o)

\* submit_reputation_record(..).await?
SubmitRecord(h) ==
    /\ pc[h] = "submit"
    /\ LET c == call[h]
       IN  /\ records[c.job][c.outcome][c.did] < MaxRecords
           /\ records' = [records EXCEPT ![c.job][c.outcome][c.did] = @ + 1]
    /\ pc' = [pc EXCEPT ![h] = "finish"]
    /\ UNCHANGED <<status, bids, call, told, assigned, fresh>>

FinishWrite(h) ==
    /\ pc[h] = "finish"
    /\ UpdateJobStatus(h, call[h].outcome)
    /\ Leave(h)
    /\ UNCHANGED <<bids, call, told, records, assigned>>

\* An await fails (`?`), no bid is acceptable, or the client has gone.
Abandon(h) ==
    /\ pc[h] # "idle"
    /\ Leave(h)
    /\ UNCHANGED <<status, bids, call, told, records, assigned, fresh>>

Request(h, j) ==
    \/ CreateJob(h, j)
    \/ \E d \in Dids : SubmitBid(h, j, d)
    \/ ReportRuntimeFailure(h, j)
    \/ BeginBiddingRead(h, j)
    \/ AssignRead(h, j)
    \/ \E d \in Dids : StartRead(h, j, d)
    \/ \E d \in Dids, o \in Outcomes : FinishRead(h, j, d, o)

Resume(h) ==
    \/ BeginBiddingWrite(h)
    \/ \E d \in Dids : AssignSelect(h, d)
    \/ AssignWrite(h)
    \/ AssignNotify(h)
    \/ StartWrite(h)
    \/ SubmitRecord(h)
    \/ FinishWrite(h)
    \/ Abandon(h)

Next ==
    \/ \E h \in Handlers, j \in Jobs : Request(h, j)
    \/ \E h \in Handlers : Resume(h)

Spec == Init /\ [][Next]_vars

-----------------------------------------------------------------------------
(* Properties.                                                              *)

Steps == {"idle", "begin", "select", "assign", "notify", "start", "submit", "finish"}

\* Every row is one that JobStatus::from_db_fields can read back: a did where the
\* status has one and nowhere else.
TypeOK ==
    /\ status \in [Jobs -> Rows]
    /\ bids \in [Jobs -> SUBSET Dids]
    /\ pc \in [Handlers -> Steps]
    /\ call \in [Handlers -> [job : Jobs, did : Dids \cup {None}, outcome : Outcomes,
                          seen : Rows]]
    /\ told \in [Jobs -> SUBSET Dids]
    /\ records \in [Jobs -> [Outcomes -> [Dids -> Nat]]]
    /\ assigned \in [Jobs -> SUBSET Dids]
    /\ fresh \in [Jobs -> BOOLEAN]

\* Whatever the handlers overwrite, an executor that a job is assigned to, that
\* runs it, or that is told of it is one that bid for it
\* (assign_best_bid_handler selects from list_bids).
ExecutorsBid ==
    \A j \in Jobs :
        /\ assigned[j] \cup told[j] \subseteq bids[j]
        /\ status[j].type \in {"Assigned", "Running"} => status[j].did \in bids[j]

\* Only a worker that the service assigned the job to gets a reputation record
\* for it, although assignments are overwritten and requests answered late
\* (the worker checks of start_job and mark_job_completed / _failed).
RecordsEarned ==
    \A j \in Jobs, o \in Outcomes, d \in Dids :
        records[j][o][d] > 0 => d \in assigned[j]

\* A job is Completed only when a completion record has been accepted for it:
\* the record comes first, and its failure ends the request
\* (mark_job_completed_handler).
CompletedRecorded ==
    \A j \in Jobs :
        status[j].type = "Completed" =>
            \E d \in Dids : records[j]["Completed"][d] > 0

Order == [absent |-> 0, Pending |-> 1, Bidding |-> 2, Assigned |-> 3, Running |-> 4,
          Completed |-> 5, Failed |-> 5]

\* A job that no handler overwrote behind another's back goes forward only, one
\* stage after the other but for a reported failure, and is never worked on again
\* once Completed: the checks of the handlers are the right ones, each for the
\* row it read.
Forward ==
    [][\A j \in Jobs : fresh'[j] /\ status'[j] # status[j] =>
          \/ status'[j].type = "Failed"
          \/ Order[status'[j].type] = Order[status[j].type] + 1]_vars

\* And at most one executor is told of such a job, however requests for it are
\* interleaved and abandoned (assign_best_bid_handler).
SoleExecutor ==
    \A j \in Jobs : fresh[j] => \A d, e \in told[j] : d = e

\* What the table and the reputation service say of each other, whatever the
\* handlers overwrite: bidders execute, assigned workers are rated, completed
\* jobs are recorded, and an orderly job has one executor (main.rs).
JobsSound ==
    TypeOK /\ ExecutorsBid /\ RecordsEarned /\ CompletedRecorded /\ SoleExecutor

=============================================================================
