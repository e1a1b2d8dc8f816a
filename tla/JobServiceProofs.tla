-------------------------- MODULE JobServiceProofs --------------------------
(***************************************************************************)
(* For any number of jobs, workers and concurrent requests: executors are    *)
(* bidders, records go to workers that were assigned, and Completed means    *)
(* recorded; and a job that no handler overwrote behind another's back goes  *)
(* forward only, to one executor.                                           *)
(***************************************************************************)
EXTENDS JobService, TLAPS

\* What a handler carries from one await to the next: bids, assignments and
\* records are never taken back, so what it saw stays true while it waits.
HandlerKnows ==
    \A h \in Handlers :
        LET c == call[h]
        IN  /\ pc[h] = "assign" => c.did \in bids[c.job]
            /\ pc[h] \in {"notify", "start", "submit", "finish"} => c.did \in assigned[c.job]
            /\ pc[h] = "finish" /\ c.outcome = "Completed" =>
                   records[c.job]["Completed"][c.did] > 0

AssignedBid == \A j \in Jobs : told[j] \subseteq assigned[j] /\ assigned[j] \subseteq bids[j]

HolderAssigned ==
    \A j \in Jobs : status[j].type \in {"Assigned", "Running"} => status[j].did \in assigned[j]

IInv ==
    /\ TypeOK
    /\ AssignedBid
    /\ HolderAssigned
    /\ HandlerKnows
    /\ RecordsEarned
    /\ CompletedRecorded

LEMMA InitIInv == Init => IInv
<1> SUFFICES ASSUME Init PROVE IInv
  OBVIOUS
<1>1. TypeOK
  BY JobsAssumption DEF Init, TypeOK, Rows, NoJob, Row, Outcomes, Steps
<1>2. AssignedBid /\ HolderAssigned /\ HandlerKnows /\ RecordsEarned /\ CompletedRecorded
  BY DEF Init, AssignedBid, HolderAssigned, HandlerKnows, RecordsEarned, CompletedRecorded,
         NoJob, Row, Outcomes
<1> QED BY <1>1, <1>2 DEF IInv

\* A handler that takes up a request changes nothing but its own step.
LEMMA EnterIInv ==
    ASSUME IInv, NEW h \in Handlers, NEW p \in Steps, NEW j \in Jobs,
           NEW d \in Dids \cup {None}, NEW o \in Outcomes, Enter(h, p, j, d, o),
           p \in {"start", "submit"} => d \in assigned[j],
           p \notin {"assign", "notify", "finish"}
    PROVE  IInv'
<1>1. TypeOK'
  BY DEF IInv, TypeOK, Enter, Rows
<1>2. HandlerKnows'
  <2> SUFFICES ASSUME NEW g \in Handlers
               PROVE  /\ pc'[g] = "assign" => call'[g].did \in bids'[call'[g].job]
                      /\ pc'[g] \in {"notify", "start", "submit", "finish"} =>
                             call'[g].did \in assigned'[call'[g].job]
                      /\ pc'[g] = "finish" /\ call'[g].outcome = "Completed" =>
                             records'[call'[g].job]["Completed"][call'[g].did] > 0
    BY DEF HandlerKnows
  <2>1. CASE g = h
    BY <2>1 DEF IInv, TypeOK, Enter
  <2>2. CASE g # h
    BY <2>2 DEF IInv, TypeOK, Enter, HandlerKnows
  <2> QED BY <2>1, <2>2
<1>3. AssignedBid' /\ HolderAssigned' /\ RecordsEarned' /\ CompletedRecorded'
  BY DEF IInv, Enter, AssignedBid, HolderAssigned, RecordsEarned, CompletedRecorded
<1> QED BY <1>1, <1>2, <1>3 DEF IInv

LEMMA RequestIInv ==
    ASSUME IInv, NEW h \in Handlers, NEW j \in Jobs, Request(h, j)
    PROVE  IInv'
<1>1. CASE CreateJob(h, j)
  <2>1. TypeOK'
    BY <1>1 DEF IInv, TypeOK, CreateJob, Row, Rows
  <2>2. HandlerKnows'
    BY <1>1 DEF IInv, HandlerKnows, CreateJob
  <2>3. AssignedBid' /\ RecordsEarned'
    BY <1>1 DEF IInv, CreateJob, AssignedBid, RecordsEarned
  <2>4. HolderAssigned' /\ CompletedRecorded'
    BY <1>1 DEF IInv, TypeOK, CreateJob, HolderAssigned, CompletedRecorded, Row
  <2> QED BY <2>1, <2>2, <2>3, <2>4 DEF IInv
<1>2. ASSUME NEW d \in Dids, SubmitBid(h, j, d) PROVE IInv'
  <2>1. TypeOK'
    BY <1>2 DEF IInv, TypeOK, SubmitBid, Rows
  <2>2. HandlerKnows'
    BY <1>2 DEF IInv, TypeOK, HandlerKnows, SubmitBid
  <2>3. AssignedBid'
    BY <1>2 DEF IInv, TypeOK, SubmitBid, AssignedBid
  <2>4. HolderAssigned' /\ CompletedRecorded' /\ RecordsEarned'
    BY <1>2 DEF IInv, SubmitBid, HolderAssigned, CompletedRecorded, RecordsEarned
  <2> QED BY <2>1, <2>2, <2>3, <2>4 DEF IInv
<1>3. CASE ReportRuntimeFailure(h, j)
  <2>1. TypeOK'
    BY <1>3 DEF IInv, TypeOK, ReportRuntimeFailure, Row, Rows
  <2>2. HandlerKnows' /\ AssignedBid' /\ RecordsEarned'
    BY <1>3 DEF IInv, HandlerKnows, AssignedBid, RecordsEarned, ReportRuntimeFailure
  <2>3. HolderAssigned' /\ CompletedRecorded'
    BY <1>3 DEF IInv, TypeOK, ReportRuntimeFailure, HolderAssigned, CompletedRecorded, Row
  <2> QED BY <2>1, <2>2, <2>3 DEF IInv
<1>4. CASE BeginBiddingRead(h, j)
  BY <1>4, EnterIInv DEF BeginBiddingRead, Steps, Outcomes
<1>5. CASE AssignRead(h, j)
  BY <1>5, EnterIInv DEF AssignRead, Steps, Outcomes
<1>6. ASSUME NEW d \in Dids, StartRead(h, j, d) PROVE IInv'
  <2>1. d \in assigned[j]
    BY <1>6 DEF StartRead, IInv, HolderAssigned, Row
  <2> QED BY <1>6, <2>1, EnterIInv DEF StartRead, Steps, Outcomes
<1>7. ASSUME NEW d \in Dids, NEW o \in Outcomes, FinishRead(h, j, d, o) PROVE IInv'
  <2>1. d \in assigned[j]
    BY <1>7 DEF FinishRead, IInv, HolderAssigned, Row
  <2> QED BY <1>7, <2>1, EnterIInv DEF FinishRead, Steps, Outcomes
<1> QED BY <1>1, <1>2, <1>3, <1>4, <1>5, <1>6, <1>7 DEF Request

\* The handler that writes a row: the did it writes, if any, was assigned.
LEMMA WriteIInv ==
    ASSUME IInv, NEW h \in Handlers,
           NEW type \in {"Bidding", "Running", "Completed", "Failed"},
           UpdateJobStatus(h, type), Leave(h),
           UNCHANGED <<bids, call, told, records, assigned>>,
           type = "Running" => call[h].did \in assigned[call[h].job],
           type = "Completed" => records[call[h].job]["Completed"][call[h].did] > 0
                                 /\ call[h].did \in Dids
    PROVE  IInv'
<1>1. TypeOK'
  <2>1. Row(type, call[h].did) \in Rows
    BY DEF IInv, TypeOK, Row, Rows
  <2> QED BY <2>1 DEF IInv, TypeOK, UpdateJobStatus, Leave, Steps
<1>2. HandlerKnows'
  BY DEF IInv, TypeOK, HandlerKnows, Leave
<1>3. AssignedBid' /\ RecordsEarned'
  BY DEF IInv, AssignedBid, RecordsEarned
<1>4. HolderAssigned'
  BY DEF IInv, TypeOK, HolderAssigned, UpdateJobStatus, Row
<1>5. CompletedRecorded'
  <2> SUFFICES ASSUME NEW k \in Jobs, status'[k].type = "Completed"
               PROVE  \E d \in Dids : records[k]["Completed"][d] > 0
    BY DEF CompletedRecorded
  <2>1. CASE k = call[h].job
    <3>1. type = "Completed"
      BY <2>1 DEF IInv, TypeOK, UpdateJobStatus, Row
    <3> QED BY <2>1, <3>1
  <2>2. CASE k # call[h].job
    BY <2>2 DEF IInv, TypeOK, UpdateJobStatus, CompletedRecorded
  <2> QED BY <2>1, <2>2
<1> QED BY <1>1, <1>2, <1>3, <1>4, <1>5 DEF IInv

LEMMA ResumeIInv ==
    ASSUME IInv, NEW h \in Handlers, Resume(h)
    PROVE  IInv'
<1>0. call[h].job \in Jobs /\ call[h].outcome \in Outcomes
  BY DEF IInv, TypeOK
<1>1. CASE BeginBiddingWrite(h)
  BY <1>1, WriteIInv DEF BeginBiddingWrite
<1>2. ASSUME NEW d \in Dids, AssignSelect(h, d) PROVE IInv'
  <2>1. TypeOK'
    BY <1>2 DEF IInv, TypeOK, AssignSelect, Steps
  <2>2. HandlerKnows'
    BY <1>2 DEF IInv, TypeOK, HandlerKnows, AssignSelect
  <2>3. AssignedBid' /\ HolderAssigned' /\ RecordsEarned' /\ CompletedRecorded'
    BY <1>2 DEF IInv, AssignSelect, AssignedBid, HolderAssigned, RecordsEarned, CompletedRecorded
  <2> QED BY <2>1, <2>2, <2>3 DEF IInv
<1>3. CASE AssignWrite(h)
  <2>0. call[h].did \in bids[call[h].job] /\ call[h].did \in Dids
    BY <1>0, <1>3 DEF IInv, TypeOK, HandlerKnows, AssignWrite
  <2>1. TypeOK'
    BY <1>0, <1>3, <2>0 DEF IInv, TypeOK, AssignWrite, UpdateJobStatus, Row, Rows, Steps
  <2>2. HandlerKnows'
    BY <1>0, <1>3, <2>0 DEF IInv, TypeOK, HandlerKnows, AssignWrite
  <2>3. AssignedBid' /\ RecordsEarned'
    BY <1>0, <1>3, <2>0 DEF IInv, TypeOK, AssignWrite, AssignedBid, RecordsEarned
  <2>4. HolderAssigned' /\ CompletedRecorded'
    BY <1>0, <1>3 DEF IInv, TypeOK, AssignWrite, UpdateJobStatus, Row, HolderAssigned,
                      CompletedRecorded
  <2> QED BY <2>1, <2>2, <2>3, <2>4 DEF IInv
<1>4. CASE AssignNotify(h)
  <2>0. call[h].did \in assigned[call[h].job] /\ call[h].did \in Dids
    BY <1>0, <1>4 DEF IInv, TypeOK, HandlerKnows, AssignNotify
  <2>1. TypeOK'
    BY <1>0, <1>4, <2>0 DEF IInv, TypeOK, AssignNotify, Leave, Rows, Steps
  <2>2. HandlerKnows'
    BY <1>4 DEF IInv, TypeOK, HandlerKnows, AssignNotify, Leave
  <2>3. AssignedBid'
    BY <1>0, <1>4, <2>0 DEF IInv, TypeOK, AssignNotify, AssignedBid
  <2>4. HolderAssigned' /\ RecordsEarned' /\ CompletedRecorded'
    BY <1>4 DEF IInv, AssignNotify, HolderAssigned, RecordsEarned, CompletedRecorded
  <2> QED BY <2>1, <2>2, <2>3, <2>4 DEF IInv
<1>5. CASE StartWrite(h)
  BY <1>5, WriteIInv DEF StartWrite, IInv, HandlerKnows
<1>6. CASE SubmitRecord(h)
  <2> DEFINE c == call[h]
  <2>0. c.did \in assigned[c.job] /\ c.did \in Dids
    BY <1>0, <1>6 DEF IInv, TypeOK, HandlerKnows, SubmitRecord
  <2>1. TypeOK'
    BY <1>0, <1>6, <2>0 DEF IInv, TypeOK, SubmitRecord, Rows, Steps
  <2>2. \A j \in Jobs, o \in Outcomes, d \in Dids :
           /\ records'[j][o][d] \in Nat
           /\ records'[j][o][d] >= records[j][o][d]
           /\ records'[j][o][d] # records[j][o][d] => j = c.job /\ o = c.outcome /\ d = c.did
    BY <1>0, <1>6, <2>0 DEF IInv, TypeOK, SubmitRecord
  <2>3. records'[c.job][c.outcome][c.did] > 0
    BY <1>0, <1>6, <2>0 DEF IInv, TypeOK, SubmitRecord
  <2>4. HandlerKnows'
    <3> SUFFICES ASSUME NEW g \in Handlers
                 PROVE  /\ pc'[g] = "assign" => call[g].did \in bids[call[g].job]
                        /\ pc'[g] \in {"notify", "start", "submit", "finish"} =>
                               call[g].did \in assigned[call[g].job]
                        /\ pc'[g] = "finish" /\ call[g].outcome = "Completed" =>
                               records'[call[g].job]["Completed"][call[g].did] > 0
      BY <1>6 DEF HandlerKnows, SubmitRecord
    <3>1. CASE g = h
      BY <3>1, <1>0, <1>6, <2>0, <2>3 DEF IInv, TypeOK, SubmitRecord
    <3>2. CASE g # h
      <4>1. pc'[g] = pc[g]
        BY <3>2, <1>6 DEF IInv, TypeOK, SubmitRecord
      <4>2. call[g].job \in Jobs
        BY DEF IInv, TypeOK
      <4>3. pc[g] = "finish" => call[g].did \in Dids
        BY <4>2 DEF IInv, TypeOK, HandlerKnows
      <4>4. records[call[g].job]["Completed"][call[g].did] \in Nat \/ pc[g] # "finish"
        BY <4>2, <4>3 DEF IInv, TypeOK, Outcomes
      <4> QED BY <4>1, <4>2, <4>3, <4>4, <2>2 DEF IInv, HandlerKnows, Outcomes
    <3> QED BY <3>1, <3>2
  <2>5. RecordsEarned'
    BY <1>6, <2>0, <2>2 DEF IInv, TypeOK, RecordsEarned, SubmitRecord
  <2>6. CompletedRecorded'
    <3> SUFFICES ASSUME NEW j \in Jobs, status[j].type = "Completed"
                 PROVE  \E d \in Dids : records'[j]["Completed"][d] > 0
      BY <1>6 DEF CompletedRecorded, SubmitRecord
    <3>1. PICK d \in Dids : records[j]["Completed"][d] > 0
      BY DEF IInv, CompletedRecorded
    <3>2. records[j]["Completed"][d] \in Nat
      BY DEF IInv, TypeOK, Outcomes
    <3> QED BY <3>1, <3>2, <2>2 DEF Outcomes
  <2>7. AssignedBid' /\ HolderAssigned'
    BY <1>6 DEF IInv, SubmitRecord, AssignedBid, HolderAssigned
  <2> QED BY <2>1, <2>4, <2>5, <2>6, <2>7 DEF IInv
<1>7. CASE FinishWrite(h)
  <2>1. call[h].did \in Dids
    BY <1>0, <1>7 DEF IInv, TypeOK, HandlerKnows, FinishWrite
  <2> QED BY <1>0, <1>7, <2>1, WriteIInv DEF FinishWrite, IInv, HandlerKnows, Outcomes
<1>8. CASE Abandon(h)
  <2>1. TypeOK'
    BY <1>8 DEF IInv, TypeOK, Abandon, Leave, Steps, Rows
  <2>2. HandlerKnows'
    BY <1>8 DEF IInv, TypeOK, HandlerKnows, Abandon, Leave
  <2>3. AssignedBid' /\ HolderAssigned' /\ RecordsEarned' /\ CompletedRecorded'
    BY <1>8 DEF IInv, Abandon, AssignedBid, HolderAssigned, RecordsEarned, CompletedRecorded
  <2> QED BY <2>1, <2>2, <2>3 DEF IInv
<1> QED BY <1>1, <1>2, <1>3, <1>4, <1>5, <1>6, <1>7, <1>8 DEF Resume

LEMMA NextIInv == IInv /\ [Next]_vars => IInv'
<1> SUFFICES ASSUME IInv, [Next]_vars PROVE IInv'
  OBVIOUS
<1>1. CASE UNCHANGED vars
  BY <1>1 DEF vars, IInv, TypeOK, AssignedBid, HolderAssigned, HandlerKnows, RecordsEarned,
              CompletedRecorded
<1>2. CASE Next
  BY <1>2, RequestIInv, ResumeIInv DEF Next
<1> QED BY <1>1, <1>2

LEMMA Invariance == Spec => []IInv
BY InitIInv, NextIInv, PTL DEF Spec

\* Rows stay readable whatever handlers overwrite (SqliteStore::update_job_status).
THEOREM JobsTypeCorrect == Spec => []TypeOK
<1>1. IInv => TypeOK
  BY DEF IInv
<1> QED BY <1>1, Invariance, PTL

\* No interleaving of requests makes a node an executor that did not bid.
THEOREM ExecutorsAreBidders == Spec => []ExecutorsBid
<1>1. IInv => ExecutorsBid
  BY DEF IInv, AssignedBid, HolderAssigned, ExecutorsBid
<1> QED BY <1>1, Invariance, PTL

\* No interleaving of requests gives a record to a worker that was not assigned.
THEOREM RecordsAreEarned == Spec => []RecordsEarned
<1>1. IInv => RecordsEarned
  BY DEF IInv
<1> QED BY <1>1, Invariance, PTL

\* A Completed job has its completion record, whichever requests were dropped
\* half-way (mark_job_completed_handler).
THEOREM CompletionIsRecorded == Spec => []CompletedRecorded
<1>1. IInv => CompletedRecorded
  BY DEF IInv
<1> QED BY <1>1, Invariance, PTL

-----------------------------------------------------------------------------
(* One executor.                                                            *)

\* The status that a handler found when it was let in.
HandlerSaw ==
    \A h \in Handlers :
        LET seen == call[h].seen.type
        IN  /\ pc[h] = "begin" => seen = "Pending"
            /\ pc[h] \in {"select", "assign"} => seen = "Bidding"
            /\ pc[h] = "start" => seen = "Assigned"
            /\ pc[h] \in {"submit", "finish"} => seen = "Running"

\* A job that has not come past Bidding has not been assigned: this is what a
\* handler relies on when the row is still the one it read.
AssignedOnce ==
    \A j \in Jobs : fresh[j] =>
        /\ status[j].type \in {"absent", "Pending", "Bidding"} => assigned[j] = {}
        /\ \A d, e \in assigned[j] : d = e

SInv == IInv /\ HandlerSaw /\ AssignedOnce

LEMMA InitSInv == Init => SInv
<1>1. Init => HandlerSaw /\ AssignedOnce
  BY DEF Init, HandlerSaw, AssignedOnce
<1> QED BY <1>1, InitIInv DEF SInv

LEMMA EnterSaw ==
    ASSUME SInv, NEW h \in Handlers, NEW p \in Steps, NEW j \in Jobs,
           NEW d \in Dids \cup {None}, NEW o \in Outcomes, Enter(h, p, j, d, o),
           p = "begin" => status[j].type = "Pending",
           p = "select" => status[j].type = "Bidding",
           p = "start" => status[j].type = "Assigned",
           p = "submit" => status[j].type = "Running",
           p \in {"begin", "select", "start", "submit"}
    PROVE  HandlerSaw' /\ AssignedOnce'
<1>1. HandlerSaw'
  BY DEF SInv, IInv, TypeOK, HandlerSaw, Enter
<1>2. AssignedOnce'
  BY DEF SInv, AssignedOnce, Enter
<1> QED BY <1>1, <1>2

LEMMA RequestSaw ==
    ASSUME SInv, NEW h \in Handlers, NEW j \in Jobs, Request(h, j)
    PROVE  HandlerSaw' /\ AssignedOnce'
<1>1. CASE CreateJob(h, j)
  BY <1>1 DEF SInv, IInv, TypeOK, HandlerSaw, AssignedOnce, CreateJob, NoJob, Row
<1>2. ASSUME NEW d \in Dids, SubmitBid(h, j, d) PROVE HandlerSaw' /\ AssignedOnce'
  BY <1>2 DEF SInv, HandlerSaw, AssignedOnce, SubmitBid
<1>3. CASE ReportRuntimeFailure(h, j)
  BY <1>3 DEF SInv, IInv, TypeOK, HandlerSaw, AssignedOnce, ReportRuntimeFailure, Row
<1>4. CASE BeginBiddingRead(h, j)
  BY <1>4, EnterSaw DEF BeginBiddingRead, Steps, Outcomes
<1>5. CASE AssignRead(h, j)
  BY <1>5, EnterSaw DEF AssignRead, Steps, Outcomes
<1>6. ASSUME NEW d \in Dids, StartRead(h, j, d) PROVE HandlerSaw' /\ AssignedOnce'
  BY <1>6, EnterSaw DEF StartRead, Row, Steps, Outcomes
<1>7. ASSUME NEW d \in Dids, NEW o \in Outcomes, FinishRead(h, j, d, o)
      PROVE  HandlerSaw' /\ AssignedOnce'
  BY <1>7, EnterSaw DEF FinishRead, Row, Steps, Outcomes
<1> QED BY <1>1, <1>2, <1>3, <1>4, <1>5, <1>6, <1>7 DEF Request

\* A row that is still the one the handler read had not been assigned if the
\* handler is about to begin bidding or to assign.
LEMMA WriteSaw ==
    ASSUME SInv, NEW h \in Handlers,
           NEW type \in {"Bidding", "Running", "Completed", "Failed"},
           UpdateJobStatus(h, type), Leave(h), UNCHANGED <<call, assigned>>,
           type = "Bidding" => pc[h] = "begin"
    PROVE  HandlerSaw' /\ AssignedOnce'
<1>1. HandlerSaw'
  BY DEF SInv, IInv, TypeOK, HandlerSaw, Leave
<1>2. AssignedOnce'
  <2> DEFINE k == call[h].job
  <2>1. k \in Jobs /\ (type = "Bidding" => call[h].seen.type = "Pending")
    BY DEF SInv, IInv, TypeOK, HandlerSaw
  <2>2. fresh'[k] => fresh[k] /\ status[k] = call[h].seen
    BY <2>1 DEF SInv, IInv, TypeOK, UpdateJobStatus
  <2>3. status'[k].type = type
    BY <2>1 DEF SInv, IInv, TypeOK, UpdateJobStatus, Row
  <2>4. \A j \in Jobs \ {k} : fresh'[j] = fresh[j] /\ status'[j] = status[j]
    BY DEF SInv, IInv, TypeOK, UpdateJobStatus
  <2> QED BY <2>1, <2>2, <2>3, <2>4 DEF SInv, AssignedOnce
<1> QED BY <1>1, <1>2

LEMMA ResumeSaw ==
    ASSUME SInv, NEW h \in Handlers, Resume(h)
    PROVE  HandlerSaw' /\ AssignedOnce'
<1>1. CASE BeginBiddingWrite(h)
  BY <1>1, WriteSaw DEF BeginBiddingWrite
<1>2. ASSUME NEW d \in Dids, AssignSelect(h, d) PROVE HandlerSaw' /\ AssignedOnce'
  BY <1>2 DEF SInv, IInv, TypeOK, HandlerSaw, AssignedOnce, AssignSelect
<1>3. CASE AssignWrite(h)
  <2>1. HandlerSaw'
    BY <1>3 DEF SInv, IInv, TypeOK, HandlerSaw, AssignWrite
  <2>2. AssignedOnce'
    <3> DEFINE k == call[h].job
    <3>1. k \in Jobs /\ call[h].seen.type = "Bidding"
      BY <1>3 DEF SInv, IInv, TypeOK, HandlerSaw, AssignWrite
    <3>2. fresh'[k] => fresh[k] /\ status[k].type = "Bidding"
      BY <1>3, <3>1 DEF SInv, IInv, TypeOK, AssignWrite, UpdateJobStatus
    <3>3. fresh'[k] => assigned'[k] = {call[h].did}
      BY <1>3, <3>1, <3>2 DEF SInv, IInv, TypeOK, AssignedOnce, AssignWrite
    <3>4. status'[k].type = "Assigned"
      BY <1>3, <3>1 DEF SInv, IInv, TypeOK, AssignWrite, UpdateJobStatus, Row
    <3>5. \A j \in Jobs \ {k} : /\ fresh'[j] = fresh[j] /\ status'[j] = status[j]
                                /\ assigned'[j] = assigned[j]
      BY <1>3 DEF SInv, IInv, TypeOK, AssignWrite, UpdateJobStatus
    <3> QED BY <3>1, <3>3, <3>4, <3>5 DEF SInv, AssignedOnce
  <2> QED BY <2>1, <2>2
<1>4. CASE AssignNotify(h)
  BY <1>4 DEF SInv, IInv, TypeOK, HandlerSaw, AssignedOnce, AssignNotify, Leave
<1>5. CASE StartWrite(h)
  BY <1>5, WriteSaw DEF StartWrite
<1>6. CASE SubmitRecord(h)
  BY <1>6 DEF SInv, IInv, TypeOK, HandlerSaw, AssignedOnce, SubmitRecord
<1>7. CASE FinishWrite(h)
  BY <1>7, WriteSaw DEF FinishWrite, SInv, IInv, TypeOK, Outcomes
<1>8. CASE Abandon(h)
  BY <1>8 DEF SInv, IInv, TypeOK, HandlerSaw, AssignedOnce, Abandon, Leave
<1> QED BY <1>1, <1>2, <1>3, <1>4, <1>5, <1>6, <1>7, <1>8 DEF Resume

LEMMA NextSInv == SInv /\ [Next]_vars => SInv'
<1> SUFFICES ASSUME SInv, [Next]_vars PROVE SInv'
  OBVIOUS
<1>1. IInv'
  BY NextIInv DEF SInv
<1>2. HandlerSaw' /\ AssignedOnce'
  <2>1. CASE UNCHANGED vars
    BY <2>1 DEF vars, SInv, HandlerSaw, AssignedOnce
  <2>2. CASE Next
    BY <2>2, RequestSaw, ResumeSaw DEF Next
  <2> QED BY <2>1, <2>2
<1> QED BY <1>1, <1>2 DEF SInv

LEMMA SInvariance == Spec => []SInv
BY InitSInv, NextSInv, PTL DEF Spec

\* A job whose row no handler overwrote unread has one executor, for any number
\* of concurrent requests (assign_best_bid_handler).
THEOREM OneExecutorIfFresh == Spec => []SoleExecutor
<1>1. SInv => SoleExecutor
  BY DEF SInv, IInv, AssignedBid, AssignedOnce, SoleExecutor
<1> QED BY <1>1, SInvariance, PTL

\* A write that finds the row as it was read moves the job one stage on.
LEMMA ForwardStep ==
    ASSUME SInv, [Next]_vars, NEW j \in Jobs, fresh'[j], status'[j] # status[j]
    PROVE  \/ status'[j].type = "Failed"
           \/ Order[status'[j].type] = Order[status[j].type] + 1
<1>0. Next
  BY DEF vars
<1>1. ASSUME NEW h \in Handlers, NEW k \in Jobs, Request(h, k)
      PROVE  \/ status'[j].type = "Failed"
             \/ status[j].type = "absent" /\ status'[j].type = "Pending"
  BY <1>1 DEF Request, CreateJob, SubmitBid, ReportRuntimeFailure, BeginBiddingRead,
              AssignRead, StartRead, FinishRead, Enter, SInv, IInv, TypeOK, Row, NoJob
<1>2. ASSUME NEW h \in Handlers, NEW type, UpdateJobStatus(h, type)
      PROVE  status[j].type = call[h].seen.type /\ status'[j].type = type
  BY <1>2 DEF UpdateJobStatus, SInv, IInv, TypeOK, Row
<1>3. ASSUME NEW h \in Handlers, Resume(h)
      PROVE  \/ status'[j].type = "Failed"
             \/ status[j].type = "Pending" /\ status'[j].type = "Bidding"
             \/ status[j].type = "Bidding" /\ status'[j].type = "Assigned"
             \/ status[j].type = "Assigned" /\ status'[j].type = "Running"
             \/ status[j].type = "Running" /\ status'[j].type = "Completed"
  <2>1. CASE BeginBiddingWrite(h)
    BY <1>2, <2>1 DEF BeginBiddingWrite, SInv, HandlerSaw
  <2>2. CASE AssignWrite(h)
    BY <1>2, <2>2 DEF AssignWrite, SInv, HandlerSaw
  <2>3. CASE StartWrite(h)
    BY <1>2, <2>3 DEF StartWrite, SInv, HandlerSaw
  <2>4. CASE FinishWrite(h)
    BY <1>2, <2>4 DEF FinishWrite, SInv, IInv, TypeOK, HandlerSaw, Outcomes
  <2> QED BY <1>3, <2>1, <2>2, <2>3, <2>4
          DEF Resume, AssignSelect, AssignNotify, SubmitRecord, Abandon
<1> QED BY <1>0, <1>1, <1>3 DEF Next, Order

\* Such a job goes through its stages in order, and nothing is done to it once it
\* is Completed but to report a failure.
THEOREM FreshGoesForward == Spec => Forward
<1>1. SInv /\ [Next]_vars =>
        [\A j \in Jobs : fresh'[j] /\ status'[j] # status[j] =>
            \/ status'[j].type = "Failed"
            \/ Order[status'[j].type] = Order[status[j].type] + 1]_vars
  BY ForwardStep
<1> QED BY <1>1, InitSInv, NextSInv, PTL DEF Spec, Forward

\* The table's promises together, for any jobs, dids and handlers.
THEOREM JobsAreSound == Spec => []JobsSound
<1>1. TypeOK /\ ExecutorsBid /\ RecordsEarned /\ CompletedRecorded /\ SoleExecutor
        => JobsSound
  BY DEF JobsSound
<1> QED BY <1>1, JobsTypeCorrect, ExecutorsAreBidders, RecordsAreEarned,
           CompletionIsRecorded, OneExecutorIfFresh, PTL

=============================================================================
