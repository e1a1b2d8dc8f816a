----------------------------- MODULE Reputation -----------------------------
(***************************************************************************)
(* The reputation service (icn-reputation): InMemoryReputationStore behind    *)
(* its HTTP handlers, and the profile arithmetic of icn-types/reputation.rs.  *)
(*                                                                         *)
(* submit_record logs a record under one lock, releases it and applies the    *)
(* record to the subject's profile under another.  Requests run concurrently,  *)
(* and a request whose client goes away is dropped where it waits: its record  *)
(* stays in the log and never reaches the profile.                          *)
(*                                                                         *)
(* A record is what storage.rs and main.rs use of it: subject, event and      *)
(* issued_at.  Scores are kept in thousandths; the accuracy of bids keeps its  *)
(* neutral default, the logarithm of a stake is the constant StakeLog, and     *)
(* the list of endorsers, kept without duplicates, is a set.                 *)
(***************************************************************************)
EXTENDS Integers, Sequences, FiniteSets, SequencesExt

CONSTANTS
    Subjects,    \* DIDs with a profile
    Clients,     \* HTTP requests in flight
    Durations,   \* execution_duration_ms of completed jobs
    Stakes,      \* new_total_stake
    StakeLog,    \* 300 * ln(1 + stake), in thousandths of a point
    Stamps,      \* issued_at: set by the sender's clock
    Events,      \* the events that are submitted
    NoValue,     \* no profile, no request, no average
    MaxRecords   \* bound on records, for model checking

TopScore == 10000

AllEvents ==
    [kind : {"JobCompletedSuccessfully"}, ms : Durations, on_time : BOOLEAN]
        \cup [kind : {"JobFailed", "DishonestyPenalty"}]
        \cup [kind : {"StakeIncreased", "StakeDecreased"}, stake : Stakes]
        \cup [kind : {"EndorsementReceived", "EndorsementRevoked"}, from : Subjects]
        \cup [kind : {"ProfileScoreManuallyAdjusted"}, score : 0 .. TopScore]

Record == [subject : Subjects, event : Events, issued_at : Stamps]

Profile ==
    [total : Nat, successful : Nat, failed : Nat, on_time : Nat, late : Nat,
     average_ms : Nat \cup {NoValue}, dishonesty : Nat, endorsements : SUBSET Subjects,
     stake : Stakes \cup {NoValue}, score : 0 .. TopScore]

ASSUME ReputationAssumption ==
    /\ Durations \subseteq Nat /\ Stamps \subseteq Nat /\ MaxRecords \in Nat
    /\ StakeLog \in [Stakes -> Nat]
    /\ \A e \in Events : e \in AllEvents
    /\ IsFiniteSet(Clients)
    /\ NoValue \notin Nat \cup Stakes
    /\ NoValue \notin Record /\ NoValue \notin Profile

VARIABLES
    records,     \* the log: subject -> sequence of records
    profiles,    \* subject -> profile or NoValue
    request,     \* client -> the record logged and not yet applied, or NoValue
    dropped      \* history: records logged by requests that were dropped

repVars == <<records, profiles, request, dropped>>

Success == "JobCompletedSuccessfully"
Failure == "JobFailed"

-----------------------------------------------------------------------------
(* The profile.                                                             *)

NewProfile ==
    [total |-> 0, successful |-> 0, failed |-> 0, on_time |-> 0, late |-> 0,
     average_ms |-> NoValue, dishonesty |-> 0, endorsements |-> {},
     stake |-> NoValue, score |-> 0]

\* Integer running average; count already includes the new value.
AverageU32(prev, new, count) ==
    IF prev = NoValue THEN new ELSE (prev * (count - 1) + new) \div count

Completed(p, e) ==
    [p EXCEPT !.successful = @ + 1,
              !.on_time = IF e.on_time THEN @ + 1 ELSE @,
              !.late = IF e.on_time THEN @ ELSE @ + 1,
              !.average_ms = AverageU32(@, e.ms, p.successful + 1),
              !.total = @ + 1]

ApplyEvent(p, e) ==
    CASE e.kind = Success -> Completed(p, e)
      [] e.kind = Failure -> [p EXCEPT !.failed = @ + 1, !.total = @ + 1]
      [] e.kind = "DishonestyPenalty" -> [p EXCEPT !.dishonesty = @ + 1]
      [] e.kind \in {"StakeIncreased", "StakeDecreased"} -> [p EXCEPT !.stake = e.stake]
      [] e.kind = "EndorsementReceived" -> [p EXCEPT !.endorsements = @ \cup {e.from}]
      [] e.kind = "EndorsementRevoked" -> [p EXCEPT !.endorsements = @ \ {e.from}]
      [] e.kind = "ProfileScoreManuallyAdjusted" -> [p EXCEPT !.score = e.score]

AtLeastOne(n) == IF n = 0 THEN 1 ELSE n

Clamp(x, lo, hi) == IF x < lo THEN lo ELSE IF x > hi THEN hi ELSE x

ComputeScore(p) ==
    Clamp(500 + (2000 * p.successful) \div AtLeastOne(p.total)
              + (1000 * p.on_time) \div AtLeastOne(p.successful)
              + 750
              + (IF p.stake = NoValue THEN 0 ELSE StakeLog[p.stake])
              - 700 * p.dishonesty,
          0, TopScore)

Updated(p, e) ==
    LET applied == ApplyEvent(p, e) IN [applied EXCEPT !.score = ComputeScore(applied)]

-----------------------------------------------------------------------------
(* submit_record_handler.                                                   *)

RepInit ==
    /\ records = [s \in Subjects |-> <<>>]
    /\ profiles = [s \in Subjects |-> NoValue]
    /\ request = [c \in Clients |-> NoValue]
    /\ dropped = [s \in Subjects |-> <<>>]

Logged == FoldSet(LAMBDA s, n : n + Len(records[s]), 0, Subjects)

\* Step 1: the raw record, under the records lock.
SubmitLog(c, r) ==
    /\ request[c] = NoValue
    /\ Logged < MaxRecords
    /\ records' = [records EXCEPT ![r.subject] = Append(@, r)]
    /\ request' = [request EXCEPT ![c] = r]
    /\ UNCHANGED <<profiles, dropped>>

\* Mutant: the profile that was read replaces what is there, from the default.
SubmitApplyFresh(c) ==
    /\ request[c] # NoValue
    /\ LET r == request[c]
       IN  profiles' = [profiles EXCEPT ![r.subject] = Updated(NewProfile, r.event)]
    /\ request' = [request EXCEPT ![c] = NoValue]
    /\ UNCHANGED <<records, dropped>>

\* Steps 2 to 5: create, apply and rescore, under the profiles lock.
SubmitApply(c) ==
    /\ request[c] # NoValue
    /\ LET r == request[c]
           p == IF profiles[r.subject] = NoValue THEN NewProfile ELSE profiles[r.subject]
       IN  profiles' = [profiles EXCEPT ![r.subject] = Updated(p, r.event)]
    /\ request' = [request EXCEPT ![c] = NoValue]
    /\ UNCHANGED <<records, dropped>>

\* The connection closes while the handler waits for the second lock.
RequestDropped(c) ==
    /\ request[c] # NoValue
    /\ dropped' = [dropped EXCEPT ![request[c].subject] = Append(@, request[c])]
    /\ request' = [request EXCEPT ![c] = NoValue]
    /\ UNCHANGED <<records, profiles>>

-----------------------------------------------------------------------------
(* The queries that replay the log.                                         *)

CountIn(seq, kind) == Cardinality({i \in DOMAIN seq : seq[i].event.kind = kind})

\* get_all_reputation_profiles_handler: one clamp at the end.
SummaryScore(s) ==
    Clamp(50 + 10 * CountIn(records[s], Success) - 15 * CountIn(records[s], Failure), 0, 100)

Weight(e) == IF e.kind = Success THEN 10 ELSE IF e.kind = Failure THEN -15 ELSE 0

\* sort_by_key is stable: the place of a record is the number of records that
\* are earlier, or as early and logged no later.
Place(seq, i) ==
    Cardinality({k \in DOMAIN seq :
                     \/ seq[k].issued_at < seq[i].issued_at
                     \/ seq[k].issued_at = seq[i].issued_at /\ k <= i})

ByIssueTime(seq) ==
    [k \in DOMAIN seq |-> seq[CHOOSE i \in DOMAIN seq : Place(seq, i) = k]]

\* The score after each record, clamped every time.
ScoreAfter(seq) ==
    LET At[i \in 0 .. Len(seq)] ==
            IF i = 0 THEN 50 ELSE Clamp(At[i - 1] + Weight(seq[i].event), 0, 100)
    IN  At

\* get_reputation_profile_history_handler: sorted by issue time, clamped at
\* every point.
History(s) ==
    LET sorted == ByIssueTime(records[s])
    IN  [i \in DOMAIN sorted |-> ScoreAfter(sorted)[i]]

-----------------------------------------------------------------------------
(* Properties.                                                              *)

RepTypeOK ==
    /\ \A s \in Subjects : records[s] \in Seq(Record) /\ dropped[s] \in Seq(Record)
    /\ \A c \in Clients : request[c] \in Record \cup {NoValue}
    /\ \A s \in Subjects :
           profiles[s] # NoValue => profiles[s].score \in 0 .. TopScore
                                 /\ profiles[s].average_ms \in Nat \cup {NoValue}

InFlight(s, kind) ==
    {c \in Clients : /\ request[c] # NoValue
                     /\ request[c].subject = s
                     /\ request[c].event.kind = kind}

\* The log and the profile are written under two locks: whatever is
\* interleaved or dropped, a profile counts exactly the logged job events
\* that are neither in flight nor dropped, and never one that is not logged.
ProfileMatchesLog ==
    \A s \in Subjects :
        LET p == IF profiles[s] = NoValue THEN NewProfile ELSE profiles[s]
        IN  /\ CountIn(records[s], Success) =
                   p.successful + Cardinality(InFlight(s, Success)) + CountIn(dropped[s], Success)
            /\ CountIn(records[s], Failure) =
                   p.failed + Cardinality(InFlight(s, Failure)) + CountIn(dropped[s], Failure)
            /\ p.total = p.successful + p.failed
            /\ p.successful = p.on_time + p.late

LoggedMs(s) ==
    {records[s][i].event.ms :
        i \in {k \in DOMAIN records[s] : records[s][k].event.kind = Success}}

\* The integer running average, rounded down at every step and updated in
\* whatever order the requests arrive, stays between the least and the
\* greatest duration that was logged.
AverageWithinRange ==
    \A s \in Subjects :
        profiles[s] # NoValue /\ profiles[s].average_ms # NoValue =>
            /\ \E d \in LoggedMs(s) : d <= profiles[s].average_ms
            /\ \E d \in LoggedMs(s) : profiles[s].average_ms <= d

\* The two views of one log agree wherever no point of the history was
\* clamped; the history clamps at every point and the summary at the end.
HistoryAgrees ==
    \A s \in Subjects :
        LET h == History(s)
        IN  /\ Len(h) = Len(records[s])
            /\ \A i \in DOMAIN h : h[i] \in 0 .. 100
            /\ h # <<>> /\ (\A i \in DOMAIN h : h[i] \notin {0, 100}) =>
                   h[Len(h)] = SummaryScore(s)

\* The service's three views of one log of records agree: the profile, the
\* summary and the history (submit_record, get_all_reputation_profiles_handler,
\* get_reputation_profile_history_handler).
ReputationSound == RepTypeOK /\ ProfileMatchesLog /\ AverageWithinRange /\ HistoryAgrees

=============================================================================
