----------------------------- MODULE TransferApi -----------------------------
(***************************************************************************)
(* The transfer endpoints of icn-agoranet (handlers.rs) over the in-memory   *)
(* Ledger (transfers.rs): process_entity_transfer and process_batch_transfers*)
(* run concurrently, share the ledger behind one RwLock, and announce what   *)
(* they did on WebSocket channels.  A single transfer lets go of the lock    *)
(* before it announces; a batch keeps it to the end.                        *)
(*                                                                         *)
(* A request that is refused (permission, membership, an amount of 0, too    *)
(* low a balance) changes nothing and is no step of its own.                *)
(***************************************************************************)
EXTENDS LedgerBook, SequencesExt

CONSTANTS
    Callers,      \* handlers that may be at work at the same time
    LedgerFeds,   \* the federations of the endpoints' paths
    Registry,     \* organisation id -> federation, for the ones in the registry
    Claims,       \* tokens: [sub, federations, roles]; roles: the organisations they may act for
    Requests,     \* TransferRequest bodies: [from, to, amount]
    BatchBodies,  \* bodies of the batch endpoint: sequences of requests
    StatsFeds,    \* federations with an entry in federation_stats
    PageSizes,    \* limits of paged queries
    None,
    MaxRequests   \* bound on accepted requests, for model checking

TransferRequest == [from : Entities, to : Entities, amount : Nat]

ASSUME ApiAssumption ==
    /\ IsFiniteSet(Entities) /\ IsFiniteSet(Callers)
    /\ \A e \in Entities : e.type \in {"Federation", "Cooperative", "Community", "User"}
    /\ Requests \subseteq TransferRequest /\ BatchBodies \subseteq Seq(TransferRequest)
    /\ StatsFeds \subseteq LedgerFeds
    /\ PageSizes \subseteq Nat \ {0}
    /\ None \notin Callers
    /\ MaxRequests \in Nat

VARIABLES
    transfers,         \* Ledger::transfers
    federation_stats,  \* Ledger::federation_stats
    writer,            \* the batch that holds the ledger's write lock between steps
    pc,                \* per caller: idle, ready or prepared (waits for the lock), batch, notify, report
    todo,              \* per caller: transfers prepared and not yet processed; their timestamps order them
    notices,           \* per caller: channel events still to send
    done,              \* per caller: transfers its answer will count
    told,              \* history, per caller: amounts of all transfers it was told of
    shown,             \* entity -> the balance in the last event on its channel; history: how many
                       \* transfers there were when it was read, and at most in an earlier event
    clock              \* Utc::now(); also numbers the requests

ledger == <<bookVars, transfers, federation_stats>>
apiVars == <<ledger, writer, pc, todo, notices, done, told, shown, clock>>

Sum(f) == SumFunctionOnSet(f, DOMAIN f)
Opened == Sum(Opening)

\* with_example_data: one federation's entry starts with all the balances.
ApiInit ==
    /\ BookInit
    /\ transfers = <<>>
    /\ federation_stats = [f \in StatsFeds |-> Opened]
    /\ writer = None
    /\ pc = [c \in Callers |-> "idle"]
    /\ todo = [c \in Callers |-> {}]
    /\ notices = [c \in Callers |-> {}]
    /\ done = [c \in Callers |-> <<>>]
    /\ told = [c \in Callers |-> 0]
    /\ shown = [e \in Entities |-> [balance |-> None, age |-> 0, newest |-> 0]]
    /\ clock = 0

-----------------------------------------------------------------------------
(* Checks and fees.                                                         *)

CheckTransferFromPermission(claims, from) ==
    IF from.type = "User" THEN claims.sub = from.id
                          ELSE from.id \in claims.roles

VerifyEntityInFederation(e, f) ==
    e.type = "User" \/ (e.id \in DOMAIN Registry /\ Registry[e.id] = f)

RatePpm(from, to) ==
    CASE from.type = "User" /\ to.type = "User" -> 1000
      [] from.type = "Cooperative" -> 3000
      [] from.type = "Federation" -> 500
      [] from.type \notin {"Cooperative", "Federation"} /\ to.type = "Community" -> 1500
      [] OTHER -> 2000

CalculateFee(amount, from, to) == (amount * RatePpm(from, to)) \div 1000000

Accepted(claims, f, r) ==
    /\ CheckTransferFromPermission(claims, r.from)
    /\ r.amount > 0
    /\ VerifyEntityInFederation(r.from, f)
    /\ VerifyEntityInFederation(r.to, f)

CreateTransfer(r, f, time, call) ==
    [from |-> r.from, to |-> r.to, amount |-> r.amount,
     fee |-> CalculateFee(r.amount, r.from, r.to),
     federation |-> f, timestamp |-> time, call |-> call]

-----------------------------------------------------------------------------
(* The ledger, under its lock.                                              *)

\* Ledger::process_transfer.
ProcessTransfer(t) ==
    /\ Apply(t)
    /\ transfers' = Append(transfers, t)
    /\ federation_stats' = [f \in StatsFeds |-> federation_stats[f] +
                                IF f = t.federation THEN t.fee ELSE 0]

\* get_transfer_notification_channels: the payer's channel and the payee's, which may be
\* the same.  The federation's channel gets an event as well; it is left out, since it
\* is nobody's balance that a listener follows there.
EventsOf(t, b, age) == {[channel |-> e, balance |-> b[e], age |-> age] : e \in {t.from, t.to}}

-----------------------------------------------------------------------------
(* process_entity_transfer.                                                 *)

\* Everything up to the lock.
Request(c, claims, f, r) ==
    /\ pc[c] = "idle"
    /\ clock < MaxRequests
    /\ f \in claims.federations
    /\ Accepted(claims, f, r)
    /\ clock' = clock + 1
    /\ todo' = [todo EXCEPT ![c] = {CreateTransfer(r, f, clock, clock)}]
    /\ pc' = [pc EXCEPT ![c] = "ready"]
    /\ UNCHANGED <<ledger, writer, notices, done, told, shown>>

\* Mutant: the transfer is processed without the write lock.
TransferUnlocked(c) ==
    \E t \in todo[c] :
        /\ pc[c] = "ready"
        /\ ProcessTransfer(t)
        /\ notices' = [notices EXCEPT ![c] = EventsOf(t, balances', Len(transfers'))]
        /\ done' = [done EXCEPT ![c] = <<t>>]
        /\ todo' = [todo EXCEPT ![c] = {}]
        /\ pc' = [pc EXCEPT ![c] = "notify"]
        /\ UNCHANGED <<writer, told, shown, clock>>

\* Mutant: the balances to announce are read before the transfer.
TransferStale(c) ==
    \E t \in todo[c] :
        /\ pc[c] = "ready"
        /\ writer = None
        /\ ProcessTransfer(t)
        /\ notices' = [notices EXCEPT ![c] = EventsOf(t, balances, Len(transfers'))]
        /\ done' = [done EXCEPT ![c] = <<t>>]
        /\ todo' = [todo EXCEPT ![c] = {}]
        /\ pc' = [pc EXCEPT ![c] = "notify"]
        /\ UNCHANGED <<writer, told, shown, clock>>

\* With the lock: the transfer, and the balances for its answer and its events.
Transfer(c) ==
    \E t \in todo[c] :
        /\ pc[c] = "ready"
        /\ writer = None
        /\ ProcessTransfer(t)
        /\ notices' = [notices EXCEPT ![c] = EventsOf(t, balances', Len(transfers'))]
        /\ done' = [done EXCEPT ![c] = <<t>>]
        /\ todo' = [todo EXCEPT ![c] = {}]
        /\ pc' = [pc EXCEPT ![c] = "notify"]
        /\ UNCHANGED <<writer, told, shown, clock>>

\* InsufficientBalance.
TransferFails(c) ==
    /\ pc[c] = "ready"
    /\ writer = None
    /\ \E t \in todo[c] : ~CanApply(t)
    /\ todo' = [todo EXCEPT ![c] = {}]
    /\ pc' = [pc EXCEPT ![c] = "idle"]
    /\ UNCHANGED <<ledger, writer, notices, done, told, shown, clock>>

-----------------------------------------------------------------------------
(* process_batch_transfers.                                                 *)

\* Requests that are not acceptable are skipped; the rest are prepared.
Batch(c, claims, f, body) ==
    /\ pc[c] = "idle"
    /\ clock + Len(body) <= MaxRequests
    /\ f \in claims.federations
    /\ clock' = clock + Len(body)
    /\ todo' = [todo EXCEPT ![c] =
           {CreateTransfer(body[i], f, clock + i - 1, clock) :
               i \in {k \in DOMAIN body : Accepted(claims, f, body[k])}}]
    /\ pc' = [pc EXCEPT ![c] = "prepared"]
    /\ UNCHANGED <<ledger, writer, notices, done, told, shown>>

BatchLock(c) ==
    /\ pc[c] = "prepared"
    /\ writer = None
    /\ writer' = c
    /\ pc' = [pc EXCEPT ![c] = "batch"]
    /\ UNCHANGED <<ledger, todo, notices, done, told, shown, clock>>

\* The transfers of a batch are processed in the order they were prepared in.
Foremost(S) == {t \in S : \A x \in S : t.timestamp <= x.timestamp}

\* Ledger::process_batch_transfer, one transfer; one that fails is only counted.
BatchTransfer(c) ==
    \E t \in Foremost(todo[c]) :
        /\ pc[c] = "batch"
        /\ \/ ProcessTransfer(t) /\ done' = [done EXCEPT ![c] = Append(@, t)]
           \/ ~CanApply(t) /\ UNCHANGED <<ledger, done>>
        /\ todo' = [todo EXCEPT ![c] = @ \ {t}]
        /\ UNCHANGED <<writer, pc, notices, told, shown, clock>>

\* The events of the transfers that went through carry the balances at the end.
BatchDone(c) ==
    /\ pc[c] = "batch"
    /\ todo[c] = {}
    /\ notices' = [notices EXCEPT ![c] =
           UNION {EventsOf(done[c][i], balances, Len(transfers)) : i \in DOMAIN done[c]}]
    /\ pc' = [pc EXCEPT ![c] = "report"]
    /\ UNCHANGED <<ledger, writer, todo, done, told, shown, clock>>

-----------------------------------------------------------------------------
(* Both end by sending their events and answering.                          *)

\* send_event_to_channel.  In which order a request's own events go out makes no
\* difference: those on one channel are alike.
SendEvent(c) ==
    \E event \in notices[c] :
        /\ shown' = [shown EXCEPT ![event.channel] =
                        [balance |-> event.balance, age |-> event.age,
                         newest |-> IF event.age > @.newest THEN event.age ELSE @.newest]]
        /\ notices' = [notices EXCEPT ![c] = @ \ {event}]
        /\ UNCHANGED <<ledger, writer, pc, todo, done, told, clock>>

AmountsIn(s) == Sum([i \in DOMAIN s |-> s[i].amount])

Respond(c) ==
    /\ pc[c] \in {"notify", "report"}
    /\ notices[c] = {}
    /\ told' = [told EXCEPT ![c] = @ + AmountsIn(done[c])]
    /\ done' = [done EXCEPT ![c] = <<>>]
    /\ writer' = IF writer = c THEN None ELSE writer
    /\ pc' = [pc EXCEPT ![c] = "idle"]
    /\ UNCHANGED <<ledger, todo, notices, shown, clock>>

ApiNext ==
    \E c \in Callers :
        \/ \E k \in Claims, f \in LedgerFeds : \/ \E r \in Requests : Request(c, k, f, r)
                                                \/ \E b \in BatchBodies : Batch(c, k, f, b)
        \/ Transfer(c)
        \/ TransferFails(c)
        \/ BatchLock(c)
        \/ BatchTransfer(c)
        \/ BatchDone(c)
        \/ SendEvent(c)
        \/ Respond(c)

ApiSpec == ApiInit /\ [][ApiNext]_apiVars

-----------------------------------------------------------------------------
(* Reading the ledger.                                                      *)

\* Ledger::get_federation_stats, the parts that depend on the transfers; a
\* federation without an entry has none.
GetFederationStats(f) ==
    LET mine == {i \in DOMAIN transfers : transfers[i].federation = f}
    IN  IF f \notin StatsFeds THEN None
        ELSE [total_transfers |-> Cardinality(mine),
              total_volume |-> Sum([i \in mine |-> transfers[i].amount]),
              total_fees |-> Sum([i \in mine |-> transfers[i].fee])]

\* The filters of Ledger::query_transfers.  A type given with an id must be that
\* of every side with the id, whichever side was asked for.
MatchesQuery(t, q) ==
    LET from == t.from.id = q.entity
        to   == t.to.id = q.entity
    IN  /\ q.federation # None => t.federation = q.federation
        /\ q.entity # None =>
              /\ CASE q.side = "from" -> from
                   [] q.side = "to" -> to
                   [] OTHER -> from \/ to
              /\ from /\ q.type # None => t.from.type = q.type
              /\ to /\ q.type # None => t.to.type = q.type
        /\ q.entity = None /\ q.type # None => q.type \in {t.from.type, t.to.type}
        /\ q.start # None => t.timestamp >= q.start
        /\ q.end # None => t.timestamp <= q.end
        /\ q.min # None => t.amount >= q.min
        /\ q.max # None => t.amount <= q.max

\* The transfers a query asks for, by their place in the ledger.
Found(q) == {i \in DOMAIN transfers : MatchesQuery(transfers[i], q)}

\* sort_by is stable: the rank of a transfer is the number of found ones that are
\* newer, or as new and recorded no later.
Rank(found, i) ==
    Cardinality({k \in found :
                     \/ transfers[k].timestamp > transfers[i].timestamp
                     \/ transfers[k].timestamp = transfers[i].timestamp /\ k <= i})

NewestFirst(found) ==
    [r \in 1..Cardinality(found) |-> transfers[CHOOSE i \in found : Rank(found, i) = r]]

Skipped(s, offset) == IF offset < Len(s) THEN SubSeq(s, offset + 1, Len(s)) ELSE <<>>
Truncated(s, limit) == IF Len(s) > limit THEN SubSeq(s, 1, limit) ELSE s

\* Mutant: the limit is applied before the offset.
TruncatedFirst(q, offset, limit) ==
    Skipped(Truncated(NewestFirst(Found(q)), limit), offset)

\* Ledger::query_transfers: filter, newest first, skip, truncate.
QueryTransfers(q, offset, limit) ==
    Truncated(Skipped(NewestFirst(Found(q)), offset), limit)

-----------------------------------------------------------------------------
(* Properties.                                                              *)

Prepared == UNION {todo[c] : c \in Callers}

ApiTypeOK ==
    /\ balances \in [Entities -> Nat]
    /\ \A t \in Prepared \cup Range(transfers) : t.amount > 0 /\ t.fee \in 0..t.amount
    /\ federation_stats \in [StatsFeds -> Nat]
    /\ writer \in Callers \cup {None}
    /\ \A c \in Callers : /\ pc[c] \in {"idle", "ready", "notify", "prepared", "batch", "report"}
                          /\ writer = c <=> pc[c] \in {"batch", "report"}
                          /\ pc[c] = "idle" => todo[c] = {} /\ notices[c] = {}
    /\ \A e \in Entities : shown[e].balance \in Nat \cup {None} /\ shown[e].age <= shown[e].newest
    /\ clock \in 0..MaxRequests

\* The transfers of a batch are recorded side by side, nothing of another
\* request in between (one write lock around Ledger::process_batch_transfer).
BatchesIsolated ==
    \A i, j, k \in DOMAIN transfers :
        i < j /\ j < k /\ transfers[i].call = transfers[k].call =>
            transfers[j].call = transfers[i].call

\* What callers were told was transferred, with what they are about to be told,
\* is what entities were credited (BatchTransferResponse::total_transferred).
AnswersMatch ==
    Sum([c \in Callers |-> told[c] + AmountsIn(done[c])]) = Sum(received)

\* The statistics of the federations account for everything that left the
\* balances: the fees are exactly what the entities are short of, and the entry
\* of federation_stats has drifted by exactly its own fees.
FeesAccounted ==
    /\ Sum(balances) + Sum([i \in DOMAIN transfers |-> transfers[i].fee]) = Opened
    /\ \A f \in StatsFeds : federation_stats[f] = Opened + GetFederationStats(f).total_fees

AllAnswered == \A c \in Callers : pc[c] = "idle"

\* Once all callers have their answers, the last event on every channel shows the
\* balance the ledger has, unless an older event overtook a newer one there (a
\* single transfer announces after the lock is gone; events of a batch carry the
\* balances at its end, whichever of its transfers they are about).
LastEventTrue ==
    AllAnswered => \A e \in Entities :
        shown[e].balance # None /\ shown[e].age = shown[e].newest =>
            shown[e].balance = balances[e]

AnyTransfer == [federation |-> None, entity |-> None, side |-> "any", type |-> None,
                start |-> None, end |-> None, min |-> None, max |-> None]

\* Queries by entity, and by each other filter.
Queries ==
    {[AnyTransfer EXCEPT !.entity = e.id, !.side = side, !.type = type] :
        e \in Entities, side \in {"from", "to", "any"}, type \in {None} \cup {x.type : x \in Entities}}
    \cup {[AnyTransfer EXCEPT !.federation = f] : f \in LedgerFeds}
    \cup {[AnyTransfer EXCEPT !.type = e.type] : e \in Entities}
    \cup {[AnyTransfer EXCEPT !.start = n] : n \in 0..clock}
    \cup {[AnyTransfer EXCEPT !.end = n] : n \in 0..clock}
    \cup {[AnyTransfer EXCEPT !.min = r.amount] : r \in Requests}
    \cup {[AnyTransfer EXCEPT !.max = r.amount] : r \in Requests}

\* What the i-th page of a query shows, and where.
PageOf(q, limit, i) ==
    LET page == QueryTransfers(q, limit * i, limit)
    IN  {[page |-> i, place |-> a, transfer |-> page[a]] : a \in DOMAIN page}

\* Pages of a query tile its whole answer, newest first: every transfer that
\* matches is on a page, nothing else is, and what comes later, on the same page
\* or on another, is older, so that no transfer comes twice (offset and limit in
\* Ledger::query_transfers, while nothing is being transferred).
PagesTile ==
    AllAnswered => \A q \in Queries, limit \in PageSizes :
        LET shownAt == UNION {PageOf(q, limit, i) : i \in 0..Len(transfers)}
        IN  /\ {e.transfer : e \in shownAt} = {transfers[i] : i \in Found(q)}
            /\ \A e, x \in shownAt :
                   e.page < x.page \/ (e.page = x.page /\ e.place < x.place) =>
                       e.transfer.timestamp > x.transfer.timestamp

\* The books of the service add up: every balance is explained by the recorded
\* transfers, every fee by the statistics (Ledger::process_transfer).
BooksBalance == ApiTypeOK /\ Explained /\ FeesAccounted

\* Callers do not see into one another's requests: a batch runs on a ledger that
\* only it changes, and its answer is about its own transfers (batch_transfer).
RequestsIsolated == BatchesIsolated /\ AnswersMatch

=============================================================================
