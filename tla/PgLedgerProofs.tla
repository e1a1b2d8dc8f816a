--------------------------- MODULE PgLedgerProofs ---------------------------
(***************************************************************************)
(* For any number of entities, callers and batches: a transaction that has   *)
(* checked the payer's balance stays covered until it commits, and so the    *)
(* store implements LedgerBook; and the statistics of the federation, kept   *)
(* in the same transactions, are exactly what the balances lost and gained.  *)
(***************************************************************************)
EXTENDS PgLedger, SequenceTheorems, InductionTheorems

\* Whoever is past the CHECK of the transfers table moves a positive amount.
Positive == \A w \in Workers : pc[w] \in {"credit", "stats", "commit"} => T(w).amount > 0

IInv == TypeOK /\ Covered /\ Positive

Reports == [successful : Nat, failed : Nat, transferred : Nat]

\* A worker that is not idle has a transfer in hand.
LEMMA InHand ==
    ASSUME TypeOK, NEW w \in Workers, pc[w] # "idle"
    PROVE  /\ T(w) \in Transfers
           /\ T(w).from \in Entities
           /\ T(w).to \in Entities
           /\ T(w).amount \in Nat
           /\ T(w).fee \in Nat
           /\ Total(T(w)) \in Nat
           /\ Total(T(w)) = T(w).amount + T(w).fee
<1>1. T(w) \in Transfers
  BY DEF TypeOK, T
<1> QED BY <1>1, PgAssumption DEF Total

LEMMA InitIInv == Init => IInv
<1> SUFFICES ASSUME Init PROVE IInv
  OBVIOUS
<1>1. known \subseteq Entities
  BY DEF Init
<1>2. todo \in [Workers -> Seq(Transfers)]
  BY DEF Init
<1>3. TypeOK
  BY <1>1, <1>2, PgAssumption DEF Init, TypeOK, Steps, NoReport, Free
<1>4. Covered /\ Positive
  BY DEF Init, Covered, Positive
<1> QED BY <1>3, <1>4 DEF IInv

\* What a worker that goes on to its next statement has to show.
LEMMA StepIInv ==
    ASSUME IInv, NEW w \in Workers, NEW step \in Steps, pc[w] # "idle",
           Goto(w, step), UNCHANGED <<tables, control>>,
           rowLock' \in [Entities -> Workers \cup {None}],
           inserting' \in [Entities -> Workers \cup {None}],
           statsLock' \in Workers \cup {None},
           \A v \in Workers \ {w} : \A e \in Entities : rowLock[e] = v => rowLock'[e] = v,
           \A v \in Workers \ {w} : statsLock = v => statsLock' = v,
           step \in {"debit", "credit", "stats", "commit"} =>
               rowLock'[T(w).from] = w /\ balances[T(w).from] >= Total(T(w)),
           step \in {"stats", "commit"} => rowLock'[T(w).to] = w,
           step = "commit" => statsLock' = w,
           step \in {"credit", "stats", "commit"} => T(w).amount > 0
    PROVE  IInv'
<1>1. TypeOK'
  BY DEF IInv, TypeOK, Goto, tables, control
<1>2. ASSUME NEW v \in Workers
      PROVE  /\ pc'[v] \in {"debit", "credit", "stats", "commit"} =>
                    rowLock'[T(v).from] = v /\ balances[T(v).from] >= Total(T(v))
             /\ pc'[v] \in {"stats", "commit"} => rowLock'[T(v).to] = v
             /\ pc'[v] = "commit" => statsLock' = v
             /\ pc'[v] \in {"credit", "stats", "commit"} => T(v).amount > 0
  <2>1. CASE v = w
    BY <2>1 DEF IInv, TypeOK, Goto
  <2>2. CASE v # w
    <3>1. pc'[v] = pc[v]
      BY <2>2 DEF IInv, TypeOK, Goto
    <3>2. pc[v] # "idle" => T(v).from \in Entities /\ T(v).to \in Entities
      BY InHand DEF IInv
    <3> QED BY <2>2, <3>1, <3>2 DEF IInv, Covered, Positive
  <2> QED BY <2>1, <2>2
<1>3. \A v \in Workers : T(v)' = T(v)
  BY DEF T, control
<1>4. Covered' /\ Positive'
  BY <1>2, <1>3 DEF Covered, Positive, tables
<1> QED BY <1>1, <1>4 DEF IInv

\* The end of a transaction, with or without its writes.
LEMMA EndIInv ==
    ASSUME IInv, NEW w \in Workers, pc[w] # "idle", Release(w), NextTransfer(w),
           report' \in [Workers -> Reports],
           balances' \in [Entities -> Nat],
           \A e \in Entities : rowLock[e] # w => balances'[e] = balances[e],
           known' \subseteq Entities,
           received' \in [Entities -> Nat], paid' \in [Entities -> Nat],
           fstats' \in [transfers : Nat, volume : Nat, fees : Nat]
    PROVE  IInv'
<1>1. pc' \in [Workers -> Steps] /\ \A v \in Workers \ {w} : pc'[v] = pc[v]
  BY DEF IInv, TypeOK, NextTransfer, Goto, Steps
<1>2. todo[w] \in Seq(Transfers) /\ todo[w] # <<>>
  BY DEF IInv, TypeOK
<1>3. Tail(todo[w]) \in Seq(Transfers) /\ (Len(todo[w]) # 1 => Tail(todo[w]) # <<>>)
  <2> DEFINE s == todo[w]
  <2>1. s \in Seq(Transfers) /\ s # <<>>
    BY <1>2
  <2> HIDE DEF s
  <2>2. Tail(s) \in Seq(Transfers) /\ Len(Tail(s)) = Len(s) - 1 /\ Len(s) \in Nat
    BY <2>1, HeadTailProperties, LenProperties
  <2>3. Len(<<>>) = 0
    OBVIOUS
  <2>4. Len(s) # 1 => Len(Tail(s)) # 0
    BY <2>2
  <2>5. Len(s) # 1 => Tail(s) # <<>>
    BY <2>3, <2>4
  <2> QED BY <2>2, <2>5 DEF s
<1>4. todo' \in [Workers -> Seq(Transfers)]
  BY <1>3 DEF IInv, TypeOK, NextTransfer
<1>5. \A v \in Workers : pc'[v] # "idle" => todo'[v] # <<>>
  BY <1>1, <1>3 DEF IInv, TypeOK, NextTransfer, Goto
<1>6. /\ rowLock' \in [Entities -> Workers \cup {None}]
      /\ inserting' \in [Entities -> Workers \cup {None}]
      /\ statsLock' \in Workers \cup {None}
  BY DEF IInv, TypeOK, Release, Free
<1>7. calls' \in Nat
  BY DEF IInv, TypeOK, NextTransfer
<1>8. TypeOK'
  BY <1>1, <1>4, <1>5, <1>6, <1>7 DEF TypeOK, Reports
<1>9. ASSUME NEW v \in Workers
      PROVE  /\ pc'[v] \in {"debit", "credit", "stats", "commit"} =>
                    rowLock'[T(v)'.from] = v /\ balances'[T(v)'.from] >= Total(T(v)')
             /\ pc'[v] \in {"stats", "commit"} => rowLock'[T(v)'.to] = v
             /\ pc'[v] = "commit" => statsLock' = v
             /\ pc'[v] \in {"credit", "stats", "commit"} => T(v)'.amount > 0
  <2>1. CASE v = w
    BY <2>1 DEF IInv, TypeOK, NextTransfer, Goto
  <2>2. CASE v # w
    <3>1. pc'[v] = pc[v] /\ T(v)' = T(v)
      BY <2>2, <1>1 DEF IInv, TypeOK, NextTransfer, T
    <3>2. pc[v] # "idle" => T(v).from \in Entities /\ T(v).to \in Entities
      BY InHand DEF IInv
    <3>3. \A e \in Entities : rowLock[e] = v => rowLock'[e] = v /\ balances'[e] = balances[e]
      BY <2>2 DEF Release
    <3>4. statsLock = v => statsLock' = v
      BY <2>2 DEF Release
    <3> QED BY <3>1, <3>2, <3>3, <3>4 DEF IInv, Covered, Positive
  <2> QED BY <2>1, <2>2
<1>10. Covered' /\ Positive'
  BY <1>9 DEF Covered, Positive, Total
<1> QED BY <1>8, <1>10 DEF IInv

\* One more failure is still a report.
LEMMA FailedReport ==
    ASSUME IInv, NEW w \in Workers, Failed(w)
    PROVE  report' \in [Workers -> Reports]
<1>1. report \in [Workers -> Reports]
  BY DEF IInv, TypeOK, Reports
<1>2. [report[w] EXCEPT !.failed = @ + 1] \in Reports
  BY <1>1 DEF Reports
<1>3. report' = [report EXCEPT ![w] = [report[w] EXCEPT !.failed = @ + 1]]
  BY <1>1 DEF Failed
<1> QED BY <1>1, <1>2, <1>3

LEMMA RollbackIInv ==
    ASSUME IInv, NEW w \in Workers, pc[w] # "idle", Rollback(w)
    PROVE  IInv'
<1>1. report' \in [Workers -> Reports]
  BY FailedReport DEF Rollback
<1>2. /\ balances' \in [Entities -> Nat]
      /\ \A e \in Entities : rowLock[e] # w => balances'[e] = balances[e]
      /\ known' \subseteq Entities
      /\ received' \in [Entities -> Nat] /\ paid' \in [Entities -> Nat]
      /\ fstats' \in [transfers : Nat, volume : Nat, fees : Nat]
  BY DEF IInv, TypeOK, Rollback, tables
<1> QED BY <1>1, <1>2, EndIInv DEF Rollback

\* At its commit a transaction moves a covered amount between rows it holds.
LEMMA CommittedMoves ==
    ASSUME IInv, NEW w \in Workers, pc[w] = "commit", Committed(w)
    PROVE  /\ balances' \in [Entities -> Nat]
           /\ \A e \in Entities : rowLock[e] # w => balances'[e] = balances[e]
           /\ known' \subseteq Entities
           /\ received' \in [Entities -> Nat]
           /\ paid' \in [Entities -> Nat]
           /\ fstats' \in [transfers : Nat, volume : Nat, fees : Nat]
<1> DEFINE t == T(w)
<1>1. /\ t.from \in Entities /\ t.to \in Entities /\ t.amount \in Nat /\ t.fee \in Nat
      /\ Total(t) \in Nat
  BY InHand DEF IInv
<1>2. rowLock[t.from] = w /\ rowLock[t.to] = w /\ balances[t.from] >= Total(t)
  BY DEF IInv, Covered
<1>3. balances' = [[balances EXCEPT ![t.from] = @ - Total(t)] EXCEPT ![t.to] = @ + t.amount]
  BY DEF Committed
<1>4. balances \in [Entities -> Nat]
  BY DEF IInv, TypeOK
<1>5. balances' \in [Entities -> Nat]
  <2> DEFINE debited == [balances EXCEPT ![t.from] = @ - Total(t)]
  <2>1. balances[t.from] - Total(t) \in Nat
    BY <1>1, <1>2, <1>4
  <2>2. debited \in [Entities -> Nat]
    BY <1>4, <2>1
  <2>3. debited[t.to] + t.amount \in Nat
    BY <1>1, <2>2
  <2>4. balances' = [debited EXCEPT ![t.to] = @ + t.amount]
    BY <1>3
  <2> HIDE DEF debited
  <2> QED BY <2>2, <2>3, <2>4
<1>6. \A e \in Entities : rowLock[e] # w => balances'[e] = balances[e]
  BY <1>2, <1>3, <1>4
<1>7. known' \subseteq Entities
  BY DEF IInv, TypeOK, Committed
<1>8. received' \in [Entities -> Nat]
  <2>1. received' = [received EXCEPT ![t.to] = @ + t.amount]
    BY DEF Committed
  <2>2. received \in [Entities -> Nat]
    BY DEF IInv, TypeOK
  <2>3. received[t.to] + t.amount \in Nat
    BY <1>1, <2>2
  <2> QED BY <1>1, <2>1, <2>2, <2>3
<1>9. paid' \in [Entities -> Nat]
  <2>1. paid' = [paid EXCEPT ![t.from] = @ + Total(t)]
    BY DEF Committed
  <2>2. paid \in [Entities -> Nat]
    BY DEF IInv, TypeOK
  <2>3. paid[t.from] + Total(t) \in Nat
    BY <1>1, <2>2
  <2> QED BY <1>1, <2>1, <2>2, <2>3
<1>10. fstats' \in [transfers : Nat, volume : Nat, fees : Nat]
  <2>1. fstats' = [transfers |-> fstats.transfers + 1,
                   volume |-> fstats.volume + t.amount,
                   fees |-> fstats.fees + t.fee]
    BY DEF Committed
  <2>2. fstats.transfers \in Nat /\ fstats.volume \in Nat /\ fstats.fees \in Nat
    BY DEF IInv, TypeOK
  <2>3. /\ fstats.transfers + 1 \in Nat
        /\ fstats.volume + t.amount \in Nat
        /\ fstats.fees + t.fee \in Nat
    BY <1>1, <2>2
  <2> HIDE DEF t
  <2> QED BY <2>1, <2>3
<1> QED BY <1>5, <1>6, <1>7, <1>8, <1>9, <1>10

LEMMA StatementIInv ==
    ASSUME IInv, NEW w \in Workers, Statement(w)
    PROVE  IInv'
<1> USE DEF Free
<1>1. ASSUME NEW here \in Steps \ {"idle"}, NEW e \in Entities,
             NEW ins \in {"insertFrom", "insertTo"}, NEW nxt \in {"to", "select"},
             EnsureSelect(w, here, e, ins, nxt)
      PROVE  IInv'
  <2>1. (IF e \in known \/ inserting[e] = w THEN nxt ELSE ins) \in
            Steps \ {"debit", "credit", "stats", "commit"}
    BY DEF Steps
  <2>2. /\ pc[w] # "idle"
        /\ Goto(w, IF e \in known \/ inserting[e] = w THEN nxt ELSE ins)
        /\ UNCHANGED <<tables, control>>
        /\ UNCHANGED locks
    BY <1>1 DEF EnsureSelect
  <2>3. /\ rowLock' \in [Entities -> Workers \cup {None}]
        /\ inserting' \in [Entities -> Workers \cup {None}]
        /\ statsLock' \in Workers \cup {None}
    BY <2>2 DEF IInv, TypeOK, locks
  <2> QED BY <2>1, <2>2, <2>3, StepIInv DEF locks
<1>2. ASSUME NEW here \in Steps \ {"idle"}, NEW e \in Entities,
             NEW nxt \in {"to", "select"}, EnsureInsert(w, here, e, nxt)
      PROVE  IInv'
  <2>1. /\ inserting' \in [Entities -> Workers \cup {None}]
        /\ rowLock' = rowLock /\ statsLock' = statsLock
    BY <1>2 DEF EnsureInsert, IInv, TypeOK
  <2>2. rowLock' \in [Entities -> Workers \cup {None}] /\ statsLock' \in Workers \cup {None}
    BY <2>1 DEF IInv, TypeOK
  <2>3. nxt \in Steps
    BY DEF Steps
  <2> QED BY <1>2, <2>1, <2>2, <2>3, StepIInv DEF EnsureInsert
<1>3. CASE pc[w] # "idle"
  <2>0. T(w).from \in Entities /\ T(w).to \in Entities /\ Total(T(w)) \in Nat
    BY <1>3, InHand DEF IInv
  <2>1. CASE EnsureSelect(w, "from", T(w).from, "insertFrom", "to")
    BY <2>0, <2>1, <1>1 DEF Steps
  <2>2. CASE EnsureInsert(w, "insertFrom", T(w).from, "to")
    BY <2>0, <2>2, <1>2 DEF Steps
  <2>3. CASE EnsureSelect(w, "to", T(w).to, "insertTo", "select")
    BY <2>0, <2>3, <1>1 DEF Steps
  <2>4. CASE EnsureInsert(w, "insertTo", T(w).to, "select")
    BY <2>0, <2>4, <1>2 DEF Steps
  <2>5. CASE SelectForUpdate(w)
    <3>1. /\ rowLock' \in [Entities -> Workers \cup {None}]
          /\ inserting' \in [Entities -> Workers \cup {None}]
          /\ statsLock' \in Workers \cup {None}
          /\ rowLock'[T(w).from] = w
          /\ \A v \in Workers \ {w} : \A e \in Entities : rowLock[e] = v => rowLock'[e] = v
          /\ statsLock' = statsLock
      BY <2>0, <2>5, PgAssumption DEF SelectForUpdate, IInv, TypeOK
    <3> QED BY <1>3, <2>5, <3>1, StepIInv DEF SelectForUpdate, Steps
  <2>6. CASE Debit(w)
    <3>1. /\ rowLock' \in [Entities -> Workers \cup {None}]
          /\ inserting' \in [Entities -> Workers \cup {None}]
          /\ statsLock' \in Workers \cup {None}
          /\ rowLock'[T(w).from] = w
          /\ \A v \in Workers \ {w} : \A e \in Entities : rowLock[e] = v => rowLock'[e] = v
          /\ statsLock' = statsLock
      BY <2>0, <2>6, PgAssumption DEF Debit, IInv, TypeOK
    <3>2. balances[T(w).from] >= Total(T(w))
      BY <2>6 DEF Debit, IInv, Covered
    <3> QED BY <1>3, <2>6, <3>1, <3>2, StepIInv DEF Debit, Steps
  <2>7. CASE Credit(w)
    <3>1. /\ rowLock' \in [Entities -> Workers \cup {None}]
          /\ inserting' \in [Entities -> Workers \cup {None}]
          /\ statsLock' \in Workers \cup {None}
          /\ rowLock'[T(w).to] = w
          /\ \A v \in Workers \ {w} : \A e \in Entities : rowLock[e] = v => rowLock'[e] = v
          /\ statsLock' = statsLock
      BY <2>0, <2>7, PgAssumption DEF Credit, IInv, TypeOK
    <3>2. /\ rowLock[T(w).from] = w /\ balances[T(w).from] >= Total(T(w))
          /\ T(w).amount > 0
      BY <2>7 DEF Credit, IInv, Covered, Positive
    <3>3. rowLock'[T(w).from] = w
      BY <2>0, <2>7, <3>2 DEF Credit, IInv, TypeOK
    <3> QED BY <1>3, <2>7, <3>1, <3>2, <3>3, StepIInv DEF Credit, Steps
  <2>8. CASE UpdateStats(w)
    <3>1. /\ rowLock' = rowLock /\ inserting' = inserting
          /\ statsLock' = w /\ statsLock = None
      BY <2>8 DEF UpdateStats
    <3>2. /\ rowLock' \in [Entities -> Workers \cup {None}]
          /\ inserting' \in [Entities -> Workers \cup {None}]
      BY <3>1 DEF IInv, TypeOK
    <3>3. /\ rowLock[T(w).from] = w /\ balances[T(w).from] >= Total(T(w))
          /\ rowLock[T(w).to] = w /\ T(w).amount > 0
      BY <2>8 DEF UpdateStats, IInv, Covered, Positive
    <3> QED BY <1>3, <2>8, <3>1, <3>2, <3>3, StepIInv, PgAssumption DEF UpdateStats, Steps
  <2>9. CASE Commit(w)
    <3>1. report' \in [Workers -> Reports]
      <4>1. T(w).amount \in Nat
        BY <1>3, InHand DEF IInv
      <4>2. report \in [Workers -> Reports]
        BY DEF IInv, TypeOK, Reports
      <4> DEFINE q == [report[w] EXCEPT !.successful = @ + 1]
                 r == [q EXCEPT !.transferred = @ + T(w).amount]
      <4>3. q \in Reports
        BY <4>2 DEF Reports
      <4>4. report' = [report EXCEPT ![w] = r]
        BY <2>9, <4>2 DEF Commit
      <4> HIDE DEF q
      <4>5. r \in Reports
        BY <4>1, <4>3 DEF Reports
      <4> HIDE DEF r
      <4> QED BY <4>2, <4>4, <4>5
    <3> QED BY <1>3, <2>9, <3>1, CommittedMoves, EndIInv DEF Commit
  <2>10. CASE CommitUnacknowledged(w)
    <3>1. report' \in [Workers -> Reports]
      BY <2>10, FailedReport DEF CommitUnacknowledged
    <3> QED BY <1>3, <2>10, <3>1, CommittedMoves, EndIInv DEF CommitUnacknowledged
  <2>11. CASE Insufficient(w) \/ InvalidAmount(w) \/ DuplicateEntity(w)
    BY <1>3, <2>11, RollbackIInv DEF Insufficient, InvalidAmount, DuplicateEntity
  <2> QED BY <2>1, <2>2, <2>3, <2>4, <2>5, <2>6, <2>7, <2>8, <2>9, <2>10, <2>11 DEF Statement
<1>4. pc[w] # "idle"
  BY DEF Statement, EnsureSelect, EnsureInsert, SelectForUpdate, Debit, Credit, UpdateStats,
         Commit, CommitUnacknowledged, Insufficient, InvalidAmount, DuplicateEntity
<1> QED BY <1>3, <1>4

LEMMA NextIInv == IInv /\ [Next]_vars => IInv'
<1> SUFFICES ASSUME IInv, [Next]_vars PROVE IInv'
  OBVIOUS
<1>1. ASSUME NEW w \in Workers, NEW b \in Batches, Call(w, b) PROVE IInv'
  <2>1. b \in Seq(Transfers) /\ b # <<>>
    BY PgAssumption
  <2>2. TypeOK'
    BY <1>1, <2>1 DEF Call, IInv, TypeOK, tables, locks, Steps, NoReport
  <2>3. ASSUME NEW v \in Workers
        PROVE  /\ pc'[v] \in {"debit", "credit", "stats", "commit"} =>
                      rowLock[T(v)'.from] = v /\ balances[T(v)'.from] >= Total(T(v)')
               /\ pc'[v] \in {"stats", "commit"} => rowLock[T(v)'.to] = v
               /\ pc'[v] = "commit" => statsLock = v
               /\ pc'[v] \in {"credit", "stats", "commit"} => T(v)'.amount > 0
    <3>1. CASE v = w
      BY <3>1, <1>1 DEF Call, IInv, TypeOK
    <3>2. CASE v # w
      <4>1. pc'[v] = pc[v] /\ T(v)' = T(v)
        BY <3>2, <1>1 DEF Call, IInv, TypeOK, T
      <4> QED BY <4>1 DEF IInv, Covered, Positive
    <3> QED BY <3>1, <3>2
  <2>4. Covered' /\ Positive'
    BY <1>1, <2>3 DEF Covered, Positive, Call, tables, locks, Total
  <2> QED BY <2>2, <2>4 DEF IInv
<1>2. ASSUME NEW w \in Workers, DatabaseError(w) \/ DeadlockAbort(w) PROVE IInv'
  <2>1. pc[w] # "idle" /\ Rollback(w)
    <3>1. CASE DatabaseError(w)
      BY <3>1 DEF DatabaseError
    <3>2. CASE DeadlockAbort(w)
      BY <3>2 DEF DeadlockAbort, WaitsFor, Free
    <3> QED BY <1>2, <3>1, <3>2
  <2> QED BY <2>1, RollbackIInv
<1>3. CASE UNCHANGED vars
  <2>1. TypeOK'
    BY <1>3 DEF vars, tables, locks, control, IInv, TypeOK
  <2>2. Covered' /\ Positive'
    BY <1>3 DEF vars, tables, locks, control, IInv, Covered, Positive, T
  <2> QED BY <2>1, <2>2 DEF IInv
<1> QED BY <1>1, <1>2, <1>3, StatementIInv DEF Next

LEMMA Invariance == Spec => []IInv
BY InitIInv, NextIInv, PTL DEF Spec

\* The store's rows stay well formed, balances never negative
\* (PostgresLedgerStore::process_transfer).
THEOREM PgTypeCorrect == Spec => []TypeOK
<1>1. IInv => TypeOK
  BY DEF IInv
<1> QED BY <1>1, Invariance, PTL

\* A checked balance is still enough at the commit, whatever others did since.
THEOREM CheckedStaysCovered == Spec => []Covered
<1>1. IInv => Covered
  BY DEF IInv
<1> QED BY <1>1, Invariance, PTL

\* Each step of the store is a step of the ledger's promise, or none.
LEMMA StepRefines == IInv /\ [Next]_vars => [Book!BookNext]_(Book!bookVars)
<1> SUFFICES ASSUME IInv, [Next]_vars PROVE [Book!BookNext]_(Book!bookVars)
  OBVIOUS
<1>1. ASSUME UNCHANGED tables PROVE UNCHANGED Book!bookVars
  BY <1>1 DEF tables, Book!bookVars
<1>2. ASSUME NEW w \in Workers, pc[w] = "commit", Committed(w)
      PROVE  Book!BookNext
  <2>1. T(w) \in Transfers
    BY <1>2, InHand DEF IInv
  <2>2. balances[T(w).from] >= Total(T(w)) /\ T(w).amount > 0
    BY <1>2 DEF IInv, Covered, Positive
  <2>3. Book!Apply(T(w))
    BY <1>2, <2>2 DEF Committed, Book!Apply, Book!CanApply, Book!Moved, Book!Total, Total
  <2> QED BY <2>1, <2>3 DEF Book!BookNext
<1>3. ASSUME NEW w \in Workers, Rollback(w) PROVE UNCHANGED Book!bookVars
  BY <1>1, <1>3 DEF Rollback
<1>4. ASSUME NEW w \in Workers, Statement(w) PROVE [Book!BookNext]_(Book!bookVars)
  <2>1. CASE Commit(w) \/ CommitUnacknowledged(w)
    BY <1>2, <2>1 DEF Commit, CommitUnacknowledged
  <2>2. CASE Insufficient(w) \/ InvalidAmount(w) \/ DuplicateEntity(w)
    BY <1>3, <2>2 DEF Insufficient, InvalidAmount, DuplicateEntity
  <2>3. CASE UNCHANGED tables
    BY <1>1, <2>3
  <2>4. Commit(w) \/ CommitUnacknowledged(w) \/ Insufficient(w) \/ InvalidAmount(w)
        \/ DuplicateEntity(w) \/ UNCHANGED tables
    BY <1>4 DEF Statement, EnsureSelect, EnsureInsert, SelectForUpdate, Debit, Credit, UpdateStats
  <2> QED BY <2>1, <2>2, <2>3, <2>4
<1>5. ASSUME NEW w \in Workers, DatabaseError(w) \/ DeadlockAbort(w)
      PROVE  UNCHANGED Book!bookVars
  BY <1>3, <1>5 DEF DatabaseError, DeadlockAbort
<1>6. ASSUME NEW w \in Workers, NEW b \in Batches, Call(w, b) PROVE UNCHANGED Book!bookVars
  BY <1>1, <1>6 DEF Call
<1>7. CASE UNCHANGED vars
  BY <1>1, <1>7 DEF vars
<1> QED BY <1>4, <1>5, <1>6, <1>7 DEF Next

\* The store keeps the ledger's promise: every commit is one whole transfer that
\* the committed balance covers, and nothing else touches the books
\* (PostgresLedgerStore::process_transfer).
THEOREM PgImplementsBook == Spec => ImplementsBook
<1>1. Init => Book!BookInit
  BY DEF Init, Book!BookInit
<1> QED BY <1>1, Invariance, StepRefines, PTL DEF Spec, ImplementsBook, Book!BookSpec

\* What a worker holds does not grow but by its own statements, none of which
\* leaves it at the beginning of a transaction.
LEMMA NothingTaken ==
    ASSUME TypeOK, NothingLeaked, NEW w \in Workers, NEW step,
           step \notin {"idle", "from"}, Goto(w, step),
           \A v \in Workers \ {w} :
               /\ statsLock' = v => statsLock = v
               /\ \A e \in Entities : /\ rowLock'[e] = v => rowLock[e] = v
                                      /\ inserting'[e] = v => inserting[e] = v
    PROVE  NothingLeaked'
<1>1. \A v \in Workers : pc'[v] = IF v = w THEN step ELSE pc[v]
  BY DEF Goto, TypeOK
<1> QED BY <1>1 DEF NothingLeaked

\* A transaction that ends gives everything back.
LEMMA ReleaseLeaksNothing ==
    ASSUME TypeOK, NothingLeaked, NEW w \in Workers, Release(w), NextTransfer(w)
    PROVE  NothingLeaked'
<1>1. \A v \in Workers \ {w} : pc'[v] = pc[v]
  BY DEF NextTransfer, Goto, TypeOK
<1>2. /\ statsLock' # w
      /\ \A e \in Entities : rowLock'[e] # w /\ inserting'[e] # w
  BY PgAssumption DEF Release, Free
<1>3. \A v \in Workers \ {w} :
          /\ statsLock' = v => statsLock = v
          /\ \A e \in Entities : /\ rowLock'[e] = v => rowLock[e] = v
                                 /\ inserting'[e] = v => inserting[e] = v
  BY PgAssumption DEF Release, Free
<1> QED BY <1>1, <1>2, <1>3 DEF NothingLeaked

LEMMA NextNothingLeaked == TypeOK /\ NothingLeaked /\ [Next]_vars => NothingLeaked'
<1> SUFFICES ASSUME TypeOK, NothingLeaked, [Next]_vars PROVE NothingLeaked'
  OBVIOUS
<1>1. ASSUME NEW w \in Workers, Release(w), NextTransfer(w) PROVE NothingLeaked'
  BY <1>1, ReleaseLeaksNothing
<1>2. ASSUME NEW w \in Workers, Rollback(w) PROVE NothingLeaked'
  BY <1>1, <1>2 DEF Rollback
<1>3. ASSUME NEW w \in Workers, NEW b \in Batches, Call(w, b) PROVE NothingLeaked'
  <2>1. /\ pc[w] = "idle"
        /\ \A v \in Workers \ {w} : pc'[v] = pc[v]
        /\ rowLock' = rowLock /\ inserting' = inserting /\ statsLock' = statsLock
    BY <1>3 DEF Call, TypeOK, locks
  <2> QED BY <2>1 DEF NothingLeaked
<1>4. ASSUME NEW w \in Workers, Statement(w) PROVE NothingLeaked'
  <2>1. CASE \/ EnsureSelect(w, "from", T(w).from, "insertFrom", "to")
             \/ EnsureSelect(w, "to", T(w).to, "insertTo", "select")
    BY <2>1, NothingTaken DEF EnsureSelect, locks
  <2>2. CASE \/ EnsureInsert(w, "insertFrom", T(w).from, "to")
             \/ EnsureInsert(w, "insertTo", T(w).to, "select")
    BY <2>2, NothingTaken DEF EnsureInsert, TypeOK
  <2>3. CASE SelectForUpdate(w)
    BY <2>3, NothingTaken DEF SelectForUpdate, TypeOK
  <2>4. CASE Debit(w)
    BY <2>4, NothingTaken DEF Debit, TypeOK
  <2>5. CASE Credit(w)
    BY <2>5, NothingTaken DEF Credit, TypeOK
  <2>6. CASE UpdateStats(w)
    BY <2>6, NothingTaken DEF UpdateStats
  <2>7. CASE Commit(w) \/ CommitUnacknowledged(w)
    BY <1>1, <2>7 DEF Commit, CommitUnacknowledged
  <2>8. CASE Insufficient(w) \/ InvalidAmount(w) \/ DuplicateEntity(w)
    BY <1>2, <2>8 DEF Insufficient, InvalidAmount, DuplicateEntity
  <2> QED BY <1>4, <2>1, <2>2, <2>3, <2>4, <2>5, <2>6, <2>7, <2>8 DEF Statement
<1>5. CASE UNCHANGED vars
  BY <1>5 DEF vars, locks, NothingLeaked
<1> QED BY <1>2, <1>3, <1>4, <1>5 DEF Next, DatabaseError, DeadlockAbort

\* A transaction that is over holds no lock and no uncommitted row, however it
\* ended (Transaction's rollback on drop).
THEOREM EndedHoldsNothing == Spec => []NothingLeaked
<1>1. Init => NothingLeaked
  BY PgAssumption DEF Init, NothingLeaked, Free
<1> QED BY <1>1, PgTypeCorrect, NextNothingLeaked, PTL DEF Spec

\* The locks do what the transactions rely on, for any number of workers.
THEOREM LocksAreHeld == Spec => []LocksHeld
<1>1. TypeOK /\ Covered /\ NothingLeaked => LocksHeld
  BY DEF LocksHeld
<1> QED BY <1>1, PgTypeCorrect, CheckedStaysCovered, EndedHoldsNothing, PTL

\* What a transfer takes and gives, summed over all rows.
LEMMA CommittedSums ==
    ASSUME IInv, StatsExact, NEW w \in Workers, pc[w] = "commit", Committed(w)
    PROVE  /\ Sum(balances') + fstats'.fees = Sum(Opening)
           /\ Sum(received') = fstats'.volume
           /\ fstats'.volume = fstats.volume + T(w).amount
<1> DEFINE t == T(w)
           debited == [balances EXCEPT ![t.from] = @ - Total(t)]
<1>1. /\ t.from \in Entities /\ t.to \in Entities /\ t.amount \in Nat /\ t.fee \in Nat
      /\ Total(t) \in Nat /\ Total(t) = t.amount + t.fee
  BY InHand DEF IInv
<1>2. balances[t.from] >= Total(t)
  BY DEF IInv, Covered
<1>3. /\ balances' = [debited EXCEPT ![t.to] = @ + t.amount]
      /\ received' = [received EXCEPT ![t.to] = @ + t.amount]
      /\ fstats'.volume = fstats.volume + t.amount
      /\ fstats'.fees = fstats.fees + t.fee
  BY DEF Committed
<1>4. /\ balances \in [Entities -> Nat] /\ received \in [Entities -> Nat]
      /\ fstats.volume \in Nat /\ fstats.fees \in Nat
  BY DEF IInv, TypeOK
<1>5. IsFiniteSet(Entities) /\ Opening \in [Entities -> Nat]
  BY PgAssumption
<1>6. balances' \in [Entities -> Nat] /\ received' \in [Entities -> Nat]
  BY CommittedMoves
<1>7. debited \in [Entities -> Nat]
  BY <1>1, <1>2, <1>4
<1> DEFINE a == t.from
           b == t.to
           n == t.amount
           d == Total(t)
<1>8. /\ debited[a] = balances[a] - d
      /\ \A e \in Entities : e # a => debited[e] = balances[e]
  BY <1>1, <1>4
<1> HIDE DEF debited
<1>9. /\ balances'[b] = debited[b] + n
      /\ \A e \in Entities : e # b => balances'[e] = debited[e]
  BY <1>1, <1>3, <1>7
<1>10. /\ received'[b] = received[b] + n
       /\ \A e \in Entities : e # b => received'[e] = received[e]
  BY <1>1, <1>3, <1>4
<1>11. PICK bal2, rec2 : bal2 = balances' /\ rec2 = received'
  OBVIOUS
<1>12. a \in Entities /\ b \in Entities /\ n \in Nat /\ d \in Nat
  BY <1>1
<1> HIDE DEF a, b, n, d
<1>13. Sum(debited) = Sum(balances) - balances[a] + debited[a]
  <2>1. (\A x \in Entities : balances[x] \in Nat) /\ (\A x \in Entities : debited[x] \in Nat)
    BY <1>4, <1>7
  <2> QED  BY <1>5, <1>8, <1>12, <2>1, SumUpdate DEF Sum
<1>14. Sum(bal2) = Sum(debited) - debited[b] + bal2[b]
  <2>1. (\A x \in Entities : bal2[x] \in Nat) /\ (\A x \in Entities : debited[x] \in Nat)
    BY <1>6, <1>7, <1>11
  <2> QED  BY <1>5, <1>9, <1>11, <1>12, <2>1, SumUpdate DEF Sum
<1>15. Sum(rec2) = Sum(received) - received[b] + rec2[b]
  <2>1. (\A x \in Entities : rec2[x] \in Nat) /\ (\A x \in Entities : received[x] \in Nat)
    BY <1>4, <1>6, <1>11
  <2> QED  BY <1>5, <1>10, <1>11, <1>12, <2>1, SumUpdate DEF Sum
<1>16. Sum(balances) \in Nat /\ Sum(received) \in Nat /\ Sum(Opening) \in Nat
  <2>1. /\ \A x \in Entities : balances[x] \in Nat
        /\ \A x \in Entities : received[x] \in Nat
        /\ \A x \in Entities : Opening[x] \in Nat
    BY <1>4, <1>5
  <2>2. Entities \in SUBSET Entities
    OBVIOUS
  <2> QED  BY <1>5, <2>1, <2>2, SumStep DEF Sum
<1>17. Sum(bal2) = Sum(balances) - d + n
  <2>1. balances[a] \in Nat /\ debited[b] \in Nat
    BY <1>4, <1>7, <1>12
  <2>2. debited[a] = balances[a] - d /\ bal2[b] = debited[b] + n
    BY <1>8, <1>9, <1>11
  <2> QED  BY <1>12, <1>13, <1>14, <1>16, <2>1, <2>2
<1>18. Sum(rec2) = Sum(received) + n
  <2>1. received[b] \in Nat /\ rec2[b] = received[b] + n
    BY <1>4, <1>10, <1>11, <1>12
  <2> QED  BY <1>12, <1>15, <1>16, <2>1
<1>19. Sum(balances) + fstats.fees = Sum(Opening) /\ Sum(received) = fstats.volume
  BY DEF StatsExact
<1>20. d = n + t.fee
  BY <1>1 DEF d, n
<1>21. Sum(bal2) + fstats'.fees = Sum(Opening) /\ Sum(rec2) = fstats'.volume
  <2>1. fstats'.volume = fstats.volume + n /\ fstats'.fees = fstats.fees + t.fee
    BY <1>3 DEF n
  <2> HIDE DEF t
  <2> QED  BY <1>1, <1>4, <1>12, <1>16, <1>17, <1>18, <1>19, <1>20, <2>1
<1> QED  BY <1>3, <1>11, <1>21

LEMMA NextStats == IInv /\ StatsExact /\ [Next]_vars => StatsExact'
<1> SUFFICES ASSUME IInv, StatsExact, [Next]_vars PROVE StatsExact'
  OBVIOUS
<1>0. /\ report \in [Workers -> Reports]
      /\ fstats.volume \in Nat
      /\ \A v \in Workers : report[v].transferred \in Nat /\ report[v].transferred <= fstats.volume
  BY DEF IInv, TypeOK, StatsExact, Reports
<1>1. ASSUME UNCHANGED tables, \A v \in Workers : report'[v].transferred <= fstats.volume
      PROVE  StatsExact'
  BY <1>1 DEF StatsExact, Sum, tables
<1>2. ASSUME NEW w \in Workers, Failed(w)
      PROVE  \A v \in Workers : report'[v].transferred = report[v].transferred
  BY <1>0, <1>2 DEF Failed, Reports
<1>3. ASSUME NEW w \in Workers, Rollback(w) PROVE StatsExact'
  BY <1>0, <1>1, <1>2, <1>3 DEF Rollback
<1>4. ASSUME NEW w \in Workers, pc[w] = "commit", Committed(w),
             \A v \in Workers : report'[v].transferred \in {report[v].transferred, report[v].transferred + T(w).amount}
      PROVE  StatsExact'
  <2>1. /\ Sum(balances') + fstats'.fees = Sum(Opening)
        /\ Sum(received') = fstats'.volume
        /\ fstats'.volume = fstats.volume + T(w).amount
    BY <1>4, CommittedSums
  <2>2. T(w).amount \in Nat
    BY <1>4, InHand DEF IInv
  <2>3. \A v \in Workers : report'[v].transferred <= fstats'.volume
    BY <1>0, <1>4, <2>1, <2>2
  <2> QED  BY <2>1, <2>3 DEF StatsExact, Sum
<1>5. ASSUME NEW w \in Workers, Statement(w) PROVE StatsExact'
  <2>1. CASE Commit(w)
    <3>1. /\ pc[w] = "commit" /\ Committed(w)
          /\ report' = [report EXCEPT ![w].successful = @ + 1, ![w].transferred = @ + T(w).amount]
      BY <2>1 DEF Commit
    <3>2. \A v \in Workers : report'[v].transferred \in {report[v].transferred, report[v].transferred + T(w).amount}
      BY <1>0, <3>1 DEF Reports
    <3> QED  BY <1>4, <3>1, <3>2
  <2>2. CASE CommitUnacknowledged(w)
    BY <1>2, <1>4, <2>2 DEF CommitUnacknowledged
  <2>3. CASE Insufficient(w) \/ InvalidAmount(w) \/ DuplicateEntity(w)
    BY <1>3, <2>3 DEF Insufficient, InvalidAmount, DuplicateEntity
  <2>4. CASE UNCHANGED tables /\ UNCHANGED report
    BY <1>0, <1>1, <2>4
  <2>5. Commit(w) \/ CommitUnacknowledged(w) \/ Insufficient(w) \/ InvalidAmount(w)
        \/ DuplicateEntity(w) \/ (UNCHANGED tables /\ UNCHANGED report)
    BY <1>5 DEF Statement, EnsureSelect, EnsureInsert, SelectForUpdate, Debit, Credit, UpdateStats, control
  <2> QED BY <2>1, <2>2, <2>3, <2>4, <2>5
<1>6. ASSUME NEW w \in Workers, NEW b \in Batches, Call(w, b) PROVE StatsExact'
  <2>1. UNCHANGED tables /\ report' = [report EXCEPT ![w] = NoReport]
    BY <1>6 DEF Call
  <2>2. \A v \in Workers : report'[v].transferred <= fstats.volume
    BY <1>0, <2>1 DEF NoReport
  <2> QED  BY <1>1, <2>1, <2>2
<1>7. CASE UNCHANGED vars
  BY <1>0, <1>1, <1>7 DEF vars, control
<1> QED BY <1>3, <1>5, <1>6, <1>7 DEF Next, DatabaseError, DeadlockAbort

\* The statistics of the federation agree with the balances at every instant, for any
\* number of entities and callers: what is missing from the balances is the fees, what was
\* credited is the volume, and no caller is told of more
\* (PostgresLedgerStore::update_federation_stats).
THEOREM StatisticsAreExact == Spec => []StatsExact
<1>1. Init => StatsExact
  <2> SUFFICES ASSUME Init PROVE StatsExact
    OBVIOUS
  <2>1. Sum(received) = 0
    BY PgAssumption, SumOfZeros DEF Init, Sum
  <2>2. Sum(Opening) \in Nat
    <3>1. /\ \A x \in Entities : Opening[x] \in Nat
          /\ IsFiniteSet(Entities) /\ Entities \in SUBSET Entities
      BY PgAssumption
    <3> QED  BY <3>1, SumStep DEF Sum
  <2>3. balances = Opening /\ fstats.fees = 0 /\ fstats.volume = 0
        /\ \A w \in Workers : report[w].transferred = 0
    BY DEF Init, NoReport
  <2> QED  BY <2>1, <2>2, <2>3 DEF StatsExact
<1> QED  BY <1>1, Invariance, NextStats, PTL DEF Spec

=============================================================================
