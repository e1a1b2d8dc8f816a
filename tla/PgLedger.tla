------------------------------ MODULE PgLedger ------------------------------
(***************************************************************************)
(* PostgresLedgerStore (icn-agoranet/src/ledger/pg_store.rs): transfers as   *)
(* database transactions at READ COMMITTED, run by concurrent callers.       *)
(*                                                                         *)
(* A row that a transaction has locked or written stays locked until it      *)
(* ends, so its writes are applied at commit here.  A statement that needs a *)
(* row held by another transaction waits; the server breaks a cycle of       *)
(* waiting transactions by aborting one.  sqlx rolls back a transaction that *)
(* is dropped, which every `?` and every lost connection does.               *)
(***************************************************************************)
EXTENDS Integers, Sequences, FiniteSets, Functions

CONSTANTS
    Entities, Transfers, Opening,   \* as in LedgerBook
    Workers,     \* callers served at the same time (pool connections)
    Batches,     \* argument lists of process_batch_transfer; a single transfer is a batch of one
    None,
    MaxCalls     \* bound on calls, for model checking

Total(t) == t.amount + t.fee

ASSUME PgAssumption ==
    /\ IsFiniteSet(Entities)
    /\ Opening \in [Entities -> Nat]
    /\ Transfers \subseteq [from : Entities, to : Entities, amount : Nat, fee : Nat]
    /\ Batches \subseteq Seq(Transfers) \ {<<>>}
    /\ None \notin Workers
    /\ MaxCalls \in Nat

VARIABLES
    balances,    \* committed column balance; 0 where there is no row
    known,       \* entities with a committed row
    received, paid,  \* history, as in LedgerBook
    fstats,      \* committed row of federation_stats
    rowLock,     \* entity -> the transaction that holds its balances row
    inserting,   \* entity -> the transaction with an uncommitted row for it
    statsLock,   \* the transaction that holds the federation_stats row
    pc,          \* per worker: the statement it is at
    todo,        \* per worker: transfers still to process, the first one under way
    report,      \* per worker: the BatchTransferResponse being built
    calls

tables == <<balances, known, received, paid, fstats>>
locks == <<rowLock, inserting, statsLock>>
control == <<todo, report, calls>>
vars == <<tables, locks, pc, control>>

Free == None
NoReport == [successful |-> 0, failed |-> 0, transferred |-> 0]

Init ==
    /\ balances = Opening
    /\ known \in {K \in SUBSET Entities : \A e \in Entities \ K : Opening[e] = 0}
    /\ received = [e \in Entities |-> 0]
    /\ paid = [e \in Entities |-> 0]
    /\ fstats = [transfers |-> 0, volume |-> 0, fees |-> 0]
    /\ rowLock = [e \in Entities |-> Free]
    /\ inserting = [e \in Entities |-> Free]
    /\ statsLock = Free
    /\ pc = [w \in Workers |-> "idle"]
    /\ todo = [w \in Workers |-> <<>>]
    /\ report = [w \in Workers |-> NoReport]
    /\ calls = 0

T(w) == Head(todo[w])

-----------------------------------------------------------------------------
(* process_transfer, statement by statement.                                *)

Call(w, batch) ==
    /\ pc[w] = "idle"
    /\ calls < MaxCalls
    /\ calls' = calls + 1
    /\ todo' = [todo EXCEPT ![w] = batch]
    /\ report' = [report EXCEPT ![w] = NoReport]
    /\ pc' = [pc EXCEPT ![w] = "from"]
    /\ UNCHANGED <<tables, locks>>

Goto(w, step) == pc' = [pc EXCEPT ![w] = step]

\* ensure_entity_exists_in_tx: SELECT 1 sees committed rows and its own.
EnsureSelect(w, here, e, insert, next) ==
    /\ pc[w] = here
    /\ Goto(w, IF e \in known \/ inserting[e] = w THEN next ELSE insert)
    /\ UNCHANGED <<tables, locks, control>>

\* The INSERT waits for another uncommitted insert of the same key.
EnsureInsert(w, here, e, next) ==
    /\ pc[w] = here
    /\ e \notin known
    /\ inserting[e] = Free
    /\ inserting' = [inserting EXCEPT ![e] = w]
    /\ Goto(w, next)
    /\ UNCHANGED <<tables, rowLock, statsLock, control>>

\* Mutant: the balance is read without FOR UPDATE.
SelectWithoutLock(w) ==
    /\ pc[w] = "select"
    /\ balances[T(w).from] >= Total(T(w))
    /\ Goto(w, "debit")
    /\ UNCHANGED <<tables, locks, control>>

\* SELECT balance ... FOR UPDATE, and the check.
SelectForUpdate(w) ==
    /\ pc[w] = "select"
    /\ rowLock[T(w).from] \in {Free, w}
    /\ balances[T(w).from] >= Total(T(w))
    /\ rowLock' = [rowLock EXCEPT ![T(w).from] = w]
    /\ Goto(w, "debit")
    /\ UNCHANGED <<tables, inserting, statsLock, control>>

\* INSERT INTO transfers, whose column has CHECK (amount > 0), then the first
\* UPDATE balances.
Debit(w) ==
    /\ pc[w] = "debit"
    /\ T(w).amount > 0
    /\ rowLock[T(w).from] \in {Free, w}
    /\ rowLock' = [rowLock EXCEPT ![T(w).from] = w]
    /\ Goto(w, "credit")
    /\ UNCHANGED <<tables, inserting, statsLock, control>>

\* The second UPDATE balances.
Credit(w) ==
    /\ pc[w] = "credit"
    /\ rowLock[T(w).to] \in {Free, w}
    /\ rowLock' = [rowLock EXCEPT ![T(w).to] = w]
    /\ Goto(w, "stats")
    /\ UNCHANGED <<tables, inserting, statsLock, control>>

\* update_federation_stats: an upsert of the one row all transfers share.
UpdateStats(w) ==
    /\ pc[w] = "stats"
    /\ statsLock = Free
    /\ statsLock' = w
    /\ Goto(w, "commit")
    /\ UNCHANGED <<tables, rowLock, inserting, control>>

Release(w) ==
    /\ rowLock' = [e \in Entities |-> IF rowLock[e] = w THEN Free ELSE rowLock[e]]
    /\ inserting' = [e \in Entities |-> IF inserting[e] = w THEN Free ELSE inserting[e]]
    /\ statsLock' = IF statsLock = w THEN Free ELSE statsLock

\* process_batch_transfer goes on with the next transfer, whatever became of this one.
NextTransfer(w) ==
    /\ todo' = [todo EXCEPT ![w] = Tail(@)]
    /\ Goto(w, IF Len(todo[w]) = 1 THEN "idle" ELSE "from")
    /\ UNCHANGED calls

\* Mutant: the volume counts the fee as well.
CommittedGross(w) ==
    LET t == T(w)
    IN  /\ balances' = [[balances EXCEPT ![t.from] = @ - Total(t)] EXCEPT ![t.to] = @ + t.amount]
        /\ known' = known \cup {e \in Entities : inserting[e] = w}
        /\ received' = [received EXCEPT ![t.to] = @ + t.amount]
        /\ paid' = [paid EXCEPT ![t.from] = @ + Total(t)]
        /\ fstats' = [transfers |-> fstats.transfers + 1,
                      volume |-> fstats.volume + Total(t),
                      fees |-> fstats.fees + t.fee]

\* Mutant: both rows are computed from what was committed before.
CommittedFromCopies(w) ==
    LET t == T(w)
    IN  /\ balances' = [balances EXCEPT ![t.from] = balances[t.from] - Total(t),
                                        ![t.to] = balances[t.to] + t.amount]
        /\ known' = known \cup {e \in Entities : inserting[e] = w}
        /\ received' = [received EXCEPT ![t.to] = @ + t.amount]
        /\ paid' = [paid EXCEPT ![t.from] = @ + Total(t)]
        /\ fstats' = [transfers |-> fstats.transfers + 1,
                      volume |-> fstats.volume + t.amount,
                      fees |-> fstats.fees + t.fee]

Committed(w) ==
    LET t == T(w)
    IN  /\ balances' = [[balances EXCEPT ![t.from] = @ - Total(t)] EXCEPT ![t.to] = @ + t.amount]
        /\ known' = known \cup {e \in Entities : inserting[e] = w}
        /\ received' = [received EXCEPT ![t.to] = @ + t.amount]
        /\ paid' = [paid EXCEPT ![t.from] = @ + Total(t)]
        /\ fstats' = [transfers |-> fstats.transfers + 1,
                      volume |-> fstats.volume + t.amount,
                      fees |-> fstats.fees + t.fee]

Failed(w) == report' = [report EXCEPT ![w].failed = @ + 1]

Commit(w) ==
    /\ pc[w] = "commit"
    /\ Committed(w)
    /\ Release(w)
    /\ report' = [report EXCEPT ![w].successful = @ + 1,
                                ![w].transferred = @ + T(w).amount]
    /\ NextTransfer(w)

\* The server commits, the answer is lost: the caller is told of a failure.
CommitUnacknowledged(w) ==
    /\ pc[w] = "commit"
    /\ Committed(w)
    /\ Release(w)
    /\ Failed(w)
    /\ NextTransfer(w)

\* Mutant: the error path leaves the transaction open.
LeakedRollback(w) ==
    /\ UNCHANGED <<tables, locks>>
    /\ Failed(w)
    /\ NextTransfer(w)

Rollback(w) ==
    /\ UNCHANGED tables
    /\ Release(w)
    /\ Failed(w)
    /\ NextTransfer(w)

\* InsufficientBalance, once the row is locked.
Insufficient(w) ==
    /\ pc[w] = "select"
    /\ rowLock[T(w).from] \in {Free, w}
    /\ balances[T(w).from] < Total(T(w))
    /\ Rollback(w)

\* CHECK (amount > 0) on the transfers table.
InvalidAmount(w) ==
    /\ pc[w] = "debit"
    /\ T(w).amount = 0
    /\ Rollback(w)

\* The key was committed by another transaction since SELECT 1.
DuplicateEntity(w) ==
    /\ \/ pc[w] = "insertFrom" /\ T(w).from \in known
       \/ pc[w] = "insertTo" /\ T(w).to \in known
    /\ Rollback(w)

\* Any other error of a statement, a lost connection, a dropped request.
DatabaseError(w) == pc[w] # "idle" /\ Rollback(w)

\* Whom a worker's next statement waits for.
WaitsFor(w) ==
    LET holder == CASE pc[w] = "insertFrom" -> inserting[T(w).from]
                    [] pc[w] = "insertTo" -> inserting[T(w).to]
                    [] pc[w] = "select" -> rowLock[T(w).from]
                    [] pc[w] = "debit" -> rowLock[T(w).from]
                    [] pc[w] = "credit" -> rowLock[T(w).to]
                    [] pc[w] = "stats" -> statsLock
                    [] OTHER -> Free
    IN  {holder} \ {Free, w}

\* The deadlock detector of the server.
DeadlockAbort(w) ==
    /\ \E W \in SUBSET Workers : w \in W /\ \A v \in W : WaitsFor(v) \cap W # {}
    /\ Rollback(w)

Statement(w) ==
    \/ EnsureSelect(w, "from", T(w).from, "insertFrom", "to")
    \/ EnsureInsert(w, "insertFrom", T(w).from, "to")
    \/ EnsureSelect(w, "to", T(w).to, "insertTo", "select")
    \/ EnsureInsert(w, "insertTo", T(w).to, "select")
    \/ SelectForUpdate(w)
    \/ Debit(w)
    \/ Credit(w)
    \/ UpdateStats(w)
    \/ Commit(w)
    \/ CommitUnacknowledged(w)
    \/ Insufficient(w)
    \/ InvalidAmount(w)
    \/ DuplicateEntity(w)

Next ==
    \/ \E w \in Workers, b \in Batches : Call(w, b)
    \/ \E w \in Workers : Statement(w) \/ DatabaseError(w) \/ DeadlockAbort(w)

\* The server runs every statement that need not wait, and breaks deadlocks.
Fairness ==
    /\ \A w \in Workers : WF_vars(Statement(w))
    /\ WF_vars(\E w \in Workers : DeadlockAbort(w))

Spec == Init /\ [][Next]_vars
FairSpec == Spec /\ Fairness

-----------------------------------------------------------------------------
(* Properties.                                                              *)

Steps == {"idle", "from", "insertFrom", "to", "insertTo", "select", "debit", "credit",
          "stats", "commit"}

TypeOK ==
    /\ balances \in [Entities -> Nat]
    /\ known \subseteq Entities
    /\ received \in [Entities -> Nat]
    /\ paid \in [Entities -> Nat]
    /\ fstats \in [transfers : Nat, volume : Nat, fees : Nat]
    /\ rowLock \in [Entities -> Workers \cup {None}]
    /\ inserting \in [Entities -> Workers \cup {None}]
    /\ statsLock \in Workers \cup {None}
    /\ pc \in [Workers -> Steps]
    /\ todo \in [Workers -> Seq(Transfers)]
    /\ \A w \in Workers : pc[w] # "idle" => todo[w] # <<>>
    /\ report \in [Workers -> [successful : Nat, failed : Nat, transferred : Nat]]
    /\ calls \in Nat

\* Every transaction that has passed the check of the balance is still covered
\* by the committed balance, whatever others commit meanwhile, and holds the
\* rows it has changed (FOR UPDATE in PostgresLedgerStore::process_transfer).
Covered ==
    \A w \in Workers :
        /\ pc[w] \in {"debit", "credit", "stats", "commit"} =>
               rowLock[T(w).from] = w /\ balances[T(w).from] >= Total(T(w))
        /\ pc[w] \in {"stats", "commit"} => rowLock[T(w).to] = w
        /\ pc[w] = "commit" => statsLock = w

\* The columns are the ledger's balances, the histories its own.
Book == INSTANCE LedgerBook
    WITH Entities <- Entities, Transfers <- Transfers, Opening <- Opening,
         balances <- balances, received <- received, paid <- paid

\* The transactions implement the ledger of LedgerBook: each commit is one whole
\* transfer, everything else leaves the books alone ("Process a single transfer,
\* updating balances atomically", LedgerStore::process_transfer).
ImplementsBook == Book!BookSpec

Sum(f) == SumFunctionOnSet(f, Entities)

\* The statistics of the federation agree with the balances at every instant:
\* what its entities are short of is exactly the fees, the volume is exactly what
\* they were credited; and no caller is told of more than that, although an
\* answer may be lost (update_federation_stats runs in the same transaction).
StatsExact ==
    /\ Sum(balances) + fstats.fees = Sum(Opening)
    /\ Sum(received) = fstats.volume
    /\ \A w \in Workers : report[w].transferred <= fstats.volume

\* A transaction that has ended, well or not, holds nothing that another could
\* wait for (Transaction's rollback on drop).
NothingLeaked ==
    \A w \in Workers : pc[w] \in {"idle", "from"} =>
        /\ statsLock # w
        /\ \A e \in Entities : rowLock[e] # w /\ inserting[e] # w

\* Every call comes to an end, although transfers in opposite directions lock
\* their rows in opposite orders.
CallsEnd == \A w \in Workers : pc[w] # "idle" ~> pc[w] = "idle"

\* The row locks do what the transactions rely on: a checked balance stays
\* until the commit, and nothing is held by a transaction that is over
\* (process_transfer, process_batch_transfer).
LocksHeld == TypeOK /\ Covered /\ NothingLeaked

=============================================================================
