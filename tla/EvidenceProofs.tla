--------------------------- MODULE EvidenceProofs ---------------------------
(***************************************************************************)
(* Proofs about evidence and what is made of it: the DAG store for any tasks,  *)
(* nodes, ids and cid(), documents for any keys, bodies and maps, the          *)
(* validator for any DIDs, rules, weights and proofs, the reputation service   *)
(* for any subjects, requests and events, and the selection of an executor     *)
(* for any jobs, bids, prices and policy.                                    *)
(*                                                                         *)
(* That readers see whole batches is not inductive: while a batch is being   *)
(* applied nobody reads, and what is visible once the lock is given back     *)
(* depends on what was left to apply.  CommitOnTrack says so, and OneWriter  *)
(* says whose rest that is.                                                 *)
(*                                                                         *)
(* A verdict is about the receiver's instance; DocInv ties that instance to   *)
(* the signer's, and the signer's signature to what it was made over.        *)
(*                                                                         *)
(* A profile is tied to the log through the requests that have logged and not  *)
(* applied (PendingLogged), and a choice to the profiles it rests on through   *)
(* when each was read, which a cached entry (EntryOk) and an answer on its     *)
(* way (AnswerOk) both carry.                                                *)
(***************************************************************************)
EXTENDS Evidence, BidSelection, InductionTheorems

OneWriter == \A t \in Tasks : writer = t <=> batch[t] = "committing"

IInv == TypeOK /\ OneWriter /\ ReadersSeeWholeBatches /\ CommitOnTrack /\ KeyedByCid

-----------------------------------------------------------------------------
(* Facts about staged operations.                                           *)

\* Applying one staged operation leaves the same result to be reached.
LEMMA MergedStep ==
    ASSUME NEW m \in [Ids -> Nodes \cup {None}], NEW s \in Staging,
           NEW i \in DOMAIN s
    PROVE  /\ i \in Ids
           /\ s[i] \in Nodes \cup {None}
           /\ [k \in DOMAIN s \ {i} |-> s[k]] \in Staging
           /\ Merged([m EXCEPT ![i] = s[i]], [k \in DOMAIN s \ {i} |-> s[k]]) = Merged(m, s)
<1>1. PICK S \in SUBSET Ids : s \in [S -> Nodes \cup {None}]
  BY DEF Staging
<1>2. i \in Ids /\ s[i] \in Nodes \cup {None}
  BY <1>1
<1> DEFINE r == [k \in DOMAIN s \ {i} |-> s[k]]
<1>3. r \in [S \ {i} -> Nodes \cup {None}] /\ S \ {i} \in SUBSET Ids
  BY <1>1
<1>4. r \in Staging
  BY <1>3 DEF Staging
<1>5. Merged([m EXCEPT ![i] = s[i]], r) = Merged(m, s)
  <2>1. ASSUME NEW k \in Ids
        PROVE  (IF k \in DOMAIN r THEN r[k] ELSE [m EXCEPT ![i] = s[i]][k])
                 = (IF k \in DOMAIN s THEN s[k] ELSE m[k])
    BY <1>1
  <2> QED
    BY <2>1 DEF Merged
<1> QED
  BY <1>2, <1>4, <1>5

\* With nothing left the map is the result.
LEMMA MergedEmpty ==
    ASSUME NEW m \in [Ids -> Nodes \cup {None}]
    PROVE  Merged(m, NothingStaged) = m /\ NothingStaged \in Staging
<1>1. Merged(m, NothingStaged) = m
  BY DEF Merged, NothingStaged
<1>2. NothingStaged \in [{} -> Nodes \cup {None}] /\ {} \in SUBSET Ids
  BY DEF NothingStaged
<1> QED
  BY <1>1, <1>2 DEF Staging

\* Staging one more operation.
LEMMA StagedMore ==
    ASSUME NEW s \in Staging, NEW key \in Ids, NEW value \in Nodes \cup {None}
    PROVE  [i \in DOMAIN s \cup {key} |-> IF i = key THEN value ELSE s[i]] \in Staging
<1>1. PICK S \in SUBSET Ids : s \in [S -> Nodes \cup {None}]
  BY DEF Staging
<1>2. /\ [i \in DOMAIN s \cup {key} |-> IF i = key THEN value ELSE s[i]]
             \in [S \cup {key} -> Nodes \cup {None}]
      /\ S \cup {key} \in SUBSET Ids
  BY <1>1
<1> QED
  BY <1>2 DEF Staging

-----------------------------------------------------------------------------
(* The invariant, action by action.                                         *)

LEMMA InitInv == Init => IInv
<1> SUFFICES ASSUME Init PROVE IInv
  OBVIOUS
<1>1. NothingStaged \in Staging
  BY MergedEmpty DEF Init
<1>2. TypeOK
  BY <1>1, DagAssumption DEF Init, TypeOK
<1>3. OneWriter /\ ReadersSeeWholeBatches /\ CommitOnTrack
  BY DagAssumption DEF Init, OneWriter, ReadersSeeWholeBatches, CommitOnTrack
<1>4. KeyedByCid
  BY DEF Init, KeyedByCid, NothingStaged
<1> QED
  BY <1>2, <1>3, <1>4 DEF IInv

\* A write of one entry, by a task that needs no batch.
LEMMA PutInv ==
    ASSUME IInv, NEW key \in Ids, NEW value \in Nodes \cup {None},
           value # None => CidOf[value] = key, Count, Put(key, value)
    PROVE  IInv'
<1> USE DEF IInv
<1>1. TypeOK'
  BY DagAssumption DEF TypeOK, Put, Count
<1>2. OneWriter' /\ ReadersSeeWholeBatches' /\ CommitOnTrack'
  BY DEF OneWriter, ReadersSeeWholeBatches, CommitOnTrack, Put
<1>3. KeyedByCid'
  BY DEF TypeOK, KeyedByCid, Put
<1> QED
  BY <1>1, <1>2, <1>3

\* An operation staged by a task.
LEMMA StageInv ==
    ASSUME IInv, NEW t \in Tasks, NEW key \in Ids, NEW value \in Nodes \cup {None},
           value # None => CidOf[value] = key, Stage(t, key, value)
    PROVE  IInv'
<1> USE DEF IInv
<1> DEFINE more == [i \in DOMAIN staged[t] \cup {key} |->
                      IF i = key THEN value ELSE staged[t][i]]
<1>1. staged' = [staged EXCEPT ![t] = more]
  BY DEF Stage, TypeOK
<1>2. more \in Staging
  <2>1. staged[t] \in Staging
    BY DEF TypeOK
  <2> QED
    BY <2>1, StagedMore, Zenon
<1>3. TypeOK'
  <2>1. staged' \in [Tasks -> Staging]
    BY <1>1, <1>2 DEF TypeOK
  <2>2. \A u \in Tasks : batch'[u] = "none" => staged'[u] = NothingStaged
    BY <1>1 DEF TypeOK, Stage
  <2> QED
    BY <2>1, <2>2, DagAssumption DEF TypeOK, Stage, Count
<1>4. OneWriter' /\ ReadersSeeWholeBatches'
  BY DEF OneWriter, ReadersSeeWholeBatches, Stage
<1>5. CommitOnTrack'
  <2>1. writer # t
    BY DEF OneWriter, Stage
  <2>2. writer # None => staged'[writer] = staged[writer]
    BY <1>1, <2>1 DEF TypeOK
  <2> QED
    BY <2>2 DEF CommitOnTrack, Stage
<1>6. KeyedByCid'
  BY <1>1 DEF TypeOK, KeyedByCid, Stage
<1> QED
  BY <1>3, <1>4, <1>5, <1>6

LEMMA CommitInv ==
    ASSUME IInv, NEW t \in Tasks, CommitLock(t) \/ Committing(t)
    PROVE  IInv'
<1> USE DEF IInv
<1>1. CASE CommitLock(t)
  <2>1. TypeOK' /\ OneWriter' /\ ReadersSeeWholeBatches'
    BY <1>1, DagAssumption
    DEF TypeOK, OneWriter, ReadersSeeWholeBatches, CommitLock
  <2>2. CommitOnTrack' /\ KeyedByCid'
    BY <1>1 DEF CommitOnTrack, KeyedByCid, CommitLock
  <2> QED
    BY <2>1, <2>2
<1>2. CASE CommitEnd(t)
  <2>1. writer = t /\ inner \in versions
    BY <1>2, DagAssumption, MergedEmpty
    DEF TypeOK, OneWriter, CommitOnTrack, CommitEnd
  <2>2. TypeOK' /\ OneWriter'
    BY <1>2, <2>1, DagAssumption DEF TypeOK, OneWriter, CommitEnd
  <2>3. ReadersSeeWholeBatches' /\ CommitOnTrack' /\ KeyedByCid'
    BY <1>2, <2>1 DEF ReadersSeeWholeBatches, CommitOnTrack, KeyedByCid, CommitEnd
  <2> QED
    BY <2>2, <2>3
<1>3. ASSUME NEW i \in Ids, CommitOne(t, i)
      PROVE  IInv'
  <2> DEFINE r == [k \in DOMAIN staged[t] \ {i} |-> staged[t][k]]
  <2>1. staged' = [staged EXCEPT ![t] = r] /\ staged'[t] = r
    BY <1>3 DEF CommitOne, TypeOK
  <2>2. /\ staged[t][i] \in Nodes \cup {None}
        /\ r \in Staging
        /\ Merged([inner EXCEPT ![i] = staged[t][i]], r) = Merged(inner, staged[t])
    BY <1>3, MergedStep DEF CommitOne, TypeOK
  <2>3. writer = t /\ writer # None
    BY <1>3, DagAssumption DEF OneWriter, CommitOne
  <2>4. TypeOK'
    <3>1. inner' \in [Ids -> Nodes \cup {None}]
      BY <1>3, <2>2 DEF TypeOK, CommitOne
    <3>2. staged' \in [Tasks -> Staging]
      BY <2>1, <2>2 DEF TypeOK
    <3>3. \A u \in Tasks : batch'[u] = "none" => staged'[u] = NothingStaged
      BY <1>3, <2>1 DEF TypeOK, CommitOne
    <3> QED
      BY <1>3, <3>1, <3>2, <3>3 DEF TypeOK, CommitOne
  <2>5. OneWriter' /\ ReadersSeeWholeBatches'
    BY <1>3, <2>3 DEF OneWriter, ReadersSeeWholeBatches, CommitOne
  <2>6. CommitOnTrack'
    BY <1>3, <2>1, <2>2, <2>3 DEF CommitOnTrack, CommitOne
  <2>7. KeyedByCid'
    BY <1>3, <2>1 DEF TypeOK, KeyedByCid, CommitOne
  <2> QED
    BY <2>4, <2>5, <2>6, <2>7
<1> QED
  BY <1>1, <1>2, <1>3 DEF Committing

LEMMA NextInv == IInv /\ [Next]_vars => IInv'
<1> SUFFICES ASSUME IInv, [Next]_vars PROVE IInv'
  OBVIOUS
<1> USE DEF IInv
<1>1. ASSUME NEW n \in Nodes, Insert(n) PROVE IInv'
  <2>1. CidOf[n] \in Ids /\ n # None
    BY <1>1, DagAssumption DEF Insert
  <2> QED
    BY <1>1, <2>1, PutInv DEF Insert
<1>2. ASSUME NEW i \in Ids, RemoveNode(i) PROVE IInv'
  BY <1>2, PutInv DEF RemoveNode
<1>3. ASSUME NEW t \in Tasks, BeginBatch(t) PROVE IInv'
  <2>1. TypeOK' /\ OneWriter'
    BY <1>3, DagAssumption DEF TypeOK, OneWriter, BeginBatch, Count
  <2>2. ReadersSeeWholeBatches' /\ CommitOnTrack' /\ KeyedByCid'
    BY <1>3 DEF ReadersSeeWholeBatches, CommitOnTrack, KeyedByCid, BeginBatch
  <2> QED
    BY <2>1, <2>2
<1>4. ASSUME NEW t \in Tasks, NEW n \in Nodes, StageInsert(t, n) PROVE IInv'
  <2>1. CidOf[n] \in Ids /\ n # None
    BY <1>4, DagAssumption DEF StageInsert
  <2> QED
    BY <1>4, <2>1, StageInv DEF StageInsert
<1>5. ASSUME NEW t \in Tasks, NEW i \in Ids, StageRemove(t, i) PROVE IInv'
  BY <1>5, StageInv DEF StageRemove
<1>6. ASSUME NEW t \in Tasks, CommitLock(t) \/ Committing(t) PROVE IInv'
  BY <1>6, CommitInv
<1>7. ASSUME NEW t \in Tasks, DropBatch(t) PROVE IInv'
  <2>1. NothingStaged \in Staging
    BY MergedEmpty DEF TypeOK
  <2>2. writer # t
    BY <1>7 DEF OneWriter, DropBatch
  <2>3. TypeOK' /\ OneWriter'
    BY <1>7, <2>1 DEF TypeOK, OneWriter, DropBatch
  <2>4. ReadersSeeWholeBatches' /\ CommitOnTrack'
    BY <1>7, <2>2 DEF TypeOK, ReadersSeeWholeBatches, CommitOnTrack, DropBatch
  <2>5. KeyedByCid'
    BY <1>7 DEF TypeOK, KeyedByCid, DropBatch, NothingStaged
  <2> QED
    BY <2>3, <2>4, <2>5
<1>8. CASE UNCHANGED vars
  BY <1>8 DEF vars, TypeOK, OneWriter, ReadersSeeWholeBatches, CommitOnTrack, KeyedByCid
<1> QED
  BY <1>1, <1>2, <1>3, <1>4, <1>5, <1>6, <1>7, <1>8 DEF Next

LEMMA Invariance == Spec => []IInv
  BY InitInv, NextInv, PTL DEF Spec

\* Types, among them that a batch that was dropped or is done stages nothing
\* (DagStoreBatch::commit, rollback and drop).
THEOREM DagTypeCorrect == Spec => []TypeOK
<1>1. IInv => TypeOK
  BY DEF IInv
<1> QED
  BY <1>1, Invariance, PTL

\* Atomicity: whoever can read sees what whole operations made, for any number of
\* tasks and batches ("Changes are only visible after calling `commit()`").
THEOREM BatchesAreAtomic == Spec => []ReadersSeeWholeBatches
<1>1. IInv => ReadersSeeWholeBatches
  BY DEF IInv
<1> QED
  BY <1>1, Invariance, PTL

\* What is left of a batch leads to the result that its commit announced.
THEOREM CommitsStayOnTrack == Spec => []CommitOnTrack
<1>1. IInv => CommitOnTrack
  BY DEF IInv
<1> QED
  BY <1>1, Invariance, PTL

\* Content addressing, stored and staged (insert takes the key from cid()).
THEOREM ContentAddressed == Spec => []KeyedByCid
<1>1. IInv => KeyedByCid
  BY DEF IInv
<1> QED
  BY <1>1, Invariance, PTL

\* The store's promises together, for any number of tasks and batches.
THEOREM StoreIsSound == Spec => []StoreSound
<1>1. TypeOK /\ ReadersSeeWholeBatches /\ CommitOnTrack /\ KeyedByCid => StoreSound
  BY DEF StoreSound
<1> QED
  BY <1>1, DagTypeCorrect, BatchesAreAtomic, CommitsStayOnTrack, ContentAddressed, PTL


-----------------------------------------------------------------------------
(* Signed documents.                                                        *)

SignatureRecord == [key : Range(KeyOf), payload : {PayloadOf(d) : d \in
    [kind : Kinds, executor : Dids, body : Bodies, map : Maps]}]

Document == [kind : Kinds, executor : Dids, body : Bodies, map : Maps,
             sig : SignatureRecord \cup {Absent}]

\* What the signer holds was signed as it stands, an execution receipt by its
\* executor; the receiver's instance differs in body and order only; a verdict is
\* that of the receiver's instance.
DocInv ==
    /\ doc # Absent => doc \in Document
    /\ doc # Absent /\ doc.sig # Absent =>
          /\ doc.sig.key \in Range(KeyOf)
          /\ doc.sig = Signature(doc.sig.key, PayloadOf(doc))
          /\ doc.kind = "mesh_receipt" => doc.sig.key = KeyOf[doc.executor]
    /\ copy # Absent =>
          /\ doc # Absent /\ copy \in Document
          /\ copy.kind = doc.kind /\ copy.executor = doc.executor /\ copy.sig = doc.sig
          /\ Range(copy.map) = Range(doc.map)
    /\ verdict \in {"none", "valid", "invalid"}
    /\ verdict # "none" => copy # Absent
    /\ verdict = "valid" => Verified(copy)
    /\ verdict = "invalid" => ~Verified(copy)

\* The payload of a document does not depend on its signature.
LEMMA PayloadFields ==
    ASSUME NEW d \in Document
    PROVE  /\ PayloadOf([kind |-> d.kind, executor |-> d.executor,
                         body |-> d.body, map |-> d.map]) = PayloadOf(d)
           /\ PayloadOf(d) \in {PayloadOf(e) : e \in [kind : Kinds, executor : Dids,
                                                      body : Bodies, map : Maps]}
           /\ \A k \in Range(KeyOf) : Signature(k, PayloadOf(d)) # Absent
<1> DEFINE e == [kind |-> d.kind, executor |-> d.executor, body |-> d.body, map |-> d.map]
<1>1. /\ d.kind \in Kinds /\ d.executor \in Dids /\ d.body \in Bodies /\ d.map \in Maps
      /\ e \in [kind : Kinds, executor : Dids, body : Bodies, map : Maps]
  BY DEF Document
<1>2. PayloadOf(e) = PayloadOf(d)
  BY DEF PayloadOf, get_receipt_signing_payload, get_payload_for_signing, canonical_bytes
<1> HIDE DEF e
<1>3. PayloadOf(d) \in {PayloadOf(x) : x \in [kind : Kinds, executor : Dids,
                                              body : Bodies, map : Maps]}
  BY <1>1, <1>2
<1>4. ASSUME NEW k \in Range(KeyOf) PROVE Signature(k, PayloadOf(e)) # Absent
  BY <1>1, AbsentAssumption DEF e
<1> QED  BY <1>2, <1>3, <1>4 DEF e

\* Two orders of a map with at most one entry are one.
LEMMA ShortMaps ==
    ASSUME NEW m \in Maps, NEW n \in Maps, Range(m) = Range(n), ~(Len(n) > 1)
    PROVE  m = n
<1>1. ASSUME NEW f \in Maps
      PROVE  \E es \in SUBSET Entries :
                /\ IsFiniteSet(es) /\ f \in [1..Cardinality(es) -> es] /\ Range(f) = es
                /\ Cardinality(es) \in Nat /\ Len(f) = Cardinality(es)
  <2>1. PICK es \in SUBSET Entries :
           /\ f \in [1..Cardinality(es) -> es]
           /\ \A i, j \in 1..Cardinality(es) : i # j => f[i] # f[j]
    BY DEF Maps, SetToSeqs
  <2>2. IsFiniteSet(es)
    BY TrustAssumption, FS_Subset
  <2> DEFINE c == Cardinality(es)
  <2>3. c \in Nat
    BY <2>2, FS_CardinalityType
  <2>4. IsFiniteSet(1..c) /\ Cardinality(1..c) = c
    BY <2>3, FS_Interval
  <2>5. f \in Injection(1..c, es)
    BY <2>1 DEF Injection, IsInjective
  <2> HIDE DEF c
  <2>6. f \in Surjection(1..c, es)
    BY <2>2, <2>4, <2>5, FS_Injection DEF c
  <2>7. Range(f) = es
    BY <2>6 DEF Surjection, Range
  <2>8. Len(f) = c
    BY <2>1, <2>3 DEF c
  <2> QED  BY <2>1, <2>2, <2>3, <2>7, <2>8 DEF c
<1>2. PICK es \in SUBSET Entries :
          /\ IsFiniteSet(es) /\ m \in [1..Cardinality(es) -> es] /\ Range(m) = es
          /\ Cardinality(es) \in Nat /\ Len(m) = Cardinality(es)
  BY <1>1
<1>3. /\ n \in [1..Cardinality(es) -> es] /\ Len(n) = Cardinality(es)
  BY <1>1, <1>2
<1>4. Cardinality(es) \in {0, 1}
  BY <1>2, <1>3
<1>5. CASE Cardinality(es) = 0
  BY <1>2, <1>3, <1>5
<1>6. CASE Cardinality(es) = 1
  <2>1. es = Range(m) /\ 1..1 = {1}
    BY <1>2
  <2>2. es = {m[1]} /\ n[1] \in es
    BY <1>2, <1>3, <1>6, <2>1 DEF Range
  <2> QED  BY <1>2, <1>3, <1>6, <2>1, <2>2
<1> QED  BY <1>4, <1>5, <1>6

LEMMA DocSteps ==
    ASSUME DocInv, DocStep PROVE DocInv'
<1>1. ASSUME NEW k \in Kinds, NEW d \in Dids, NEW b \in Bodies, NEW map \in Maps,
             Compose(k, d, b, map)
      PROVE  DocInv'
  <2>1. copy = Absent /\ copy' = Absent /\ verdict' = "none"
    BY <1>1 DEF Compose, DocInv
  <2>2. doc' \in Document /\ doc'.sig = Absent
    BY <1>1 DEF Compose, Document
  <2> QED  BY <2>1, <2>2 DEF DocInv
<1>2. ASSUME NEW key \in Range(KeyOf), Signed(key),
             doc.kind = "mesh_receipt" => key = KeyOf[doc.executor]
      PROVE  DocInv'
  <2>1. doc # Absent /\ doc \in Document /\ copy' = Absent /\ verdict' = "none"
    BY <1>2 DEF Signed, DocInv
  <2>2. Signature(key, PayloadOf(doc)) \in SignatureRecord
    BY <2>1, PayloadFields DEF Signature, SignatureRecord
  <2>3. /\ doc' \in Document
        /\ doc'.kind = doc.kind /\ doc'.executor = doc.executor /\ doc'.body = doc.body
        /\ doc'.map = doc.map /\ doc'.sig = Signature(key, PayloadOf(doc))
    BY <1>2, <2>1, <2>2 DEF Signed, Document
  <2>4. PayloadOf(doc') = PayloadOf(doc)
    BY <2>3 DEF PayloadOf, get_receipt_signing_payload, get_payload_for_signing, canonical_bytes
  <2>5. doc'.sig.key = key
    BY <2>3 DEF Signature
  <2>6. PayloadOf(doc)' = PayloadOf(doc)
    BY <2>4 DEF PayloadOf, get_receipt_signing_payload, get_payload_for_signing, canonical_bytes
  <2> QED  BY <1>2, <2>1, <2>3, <2>5, <2>6 DEF DocInv
<1>3. ASSUME NEW map \in Maps, NEW b \in Bodies, Deliver(map, b) PROVE DocInv'
  <2>1. doc # Absent /\ doc \in Document /\ doc' = doc /\ verdict' = "none"
    BY <1>3 DEF Deliver, DocInv
  <2>2. /\ copy' \in Document
        /\ copy'.kind = doc.kind /\ copy'.executor = doc.executor /\ copy'.sig = doc.sig
        /\ copy'.map = map
    BY <1>3, <2>1 DEF Deliver, Document
  <2>3. PayloadOf(doc)' = PayloadOf(doc)
    BY <2>1
  <2> QED  BY <1>3, <2>1, <2>2, <2>3 DEF DocInv, Deliver
<1>4. ASSUME NEW k, Verify(k) PROVE DocInv'
  <2>1. PayloadOf(doc)' = PayloadOf(doc) /\ Verified(copy)' = Verified(copy)
    BY <1>4 DEF Verify
  <2> QED  BY <1>4, <2>1 DEF DocInv, Verify
<1>5. CASE Discard
  BY <1>5 DEF Discard, DocInv
<1> QED  BY <1>1, <1>2, <1>3, <1>4, <1>5
         DEF DocStep, sign_receipt_in_place, sign_runtime_receipt_in_place, with_signature, sign,
             verify_embedded_signature, verify_signature, verify_detached_jws, verifying_key

\* What the invariant says of a verdict.
LEMMA DocInvSuffices ==
    ASSUME DocInv PROVE VerifiedIsSigned /\ SurvivesTransport
<1>1. SUFFICES ASSUME verdict # "none"
      PROVE    VerifiedIsSigned /\ SurvivesTransport
  BY DEF VerifiedIsSigned, SurvivesTransport
<1>2. /\ copy # Absent /\ doc # Absent /\ copy \in Document /\ doc \in Document
      /\ copy.kind = doc.kind /\ copy.executor = doc.executor /\ copy.sig = doc.sig
      /\ Range(copy.map) = Range(doc.map)
      /\ verdict = "valid" <=> Verified(copy)
  BY <1>1 DEF DocInv
<1>3. copy.kind \in Kinds /\ copy.executor \in Dids /\ copy.map \in Maps /\ doc.map \in Maps
  BY <1>2 DEF Document
<1>4. KeyOf[copy.executor] \in Range(KeyOf)
  BY <1>3, TrustAssumption DEF Range
<1>5. ASSUME verdict = "valid"
      PROVE  /\ doc.sig # Absent /\ doc.sig.key = KeyOf[copy.executor]
             /\ copy.kind # "runtime_receipt" => copy.body = doc.body
  <2>1. doc.sig = Signature(KeyOf[copy.executor], PayloadOf(copy))
    BY <1>2, <1>5 DEF Verified, verifying_key
  <2>2. doc.sig # Absent
    BY <1>2, <1>4, <2>1, PayloadFields
  <2>3. doc.sig = Signature(doc.sig.key, PayloadOf(doc))
    BY <1>2, <2>2 DEF DocInv
  <2>4. doc.sig.key = KeyOf[copy.executor] /\ PayloadOf(copy) = PayloadOf(doc)
    BY <2>1, <2>3 DEF Signature
  <2>5. CASE copy.kind = "mesh_receipt"
    BY <1>2, <2>2, <2>4, <2>5 DEF PayloadOf, get_receipt_signing_payload
  <2>6. CASE copy.kind = "credential"
    BY <1>2, <2>2, <2>4, <2>6 DEF PayloadOf, canonical_bytes
  <2> QED  BY <1>3, <2>2, <2>4, <2>5, <2>6 DEF Kinds
<1>6. ASSUME doc.sig # Absent, copy.body = doc.body,
             ~(copy.kind = "mesh_receipt" /\ Len(copy.map) > 1 /\ copy.map # doc.map),
             ~(copy.kind # "mesh_receipt" /\ doc.sig.key # KeyOf[doc.executor])
      PROVE  verdict = "valid"
  <2>1. doc.sig = Signature(doc.sig.key, PayloadOf(doc)) /\ doc.sig.key = KeyOf[copy.executor]
    BY <1>2, <1>6 DEF DocInv
  <2>2. PayloadOf(copy) = PayloadOf(doc)
    <3>1. CASE copy.kind = "mesh_receipt"
      <4>1. copy.map = doc.map
        BY <1>2, <1>3, <1>6, <3>1, ShortMaps
      <4> QED  BY <1>2, <1>6, <3>1, <4>1 DEF PayloadOf, get_receipt_signing_payload
    <3>2. CASE copy.kind = "runtime_receipt"
      BY <1>2, <3>2 DEF PayloadOf, get_payload_for_signing
    <3>3. CASE copy.kind = "credential"
      BY <1>2, <1>6, <3>3 DEF PayloadOf, canonical_bytes
    <3> QED  BY <1>3, <3>1, <3>2, <3>3 DEF Kinds
  <2> QED  BY <1>2, <2>1, <2>2 DEF Verified, verifying_key
<1> QED  BY <1>5, <1>6 DEF VerifiedIsSigned, SurvivesTransport


-----------------------------------------------------------------------------
(* Quorums and the validator.                                               *)

SignedBy == [did : Dids, sig : [key : Range(KeyOf), payload : Forms]]

\* The keys, the proof and the bundle are well formed, the bundle had its
\* quorum, and whoever asked or was authorized did so under a bundle.
ValidatorInv ==
    /\ trusted \in [Dids -> Range(KeyOf) \cup {Absent}]
    /\ proof # Absent =>
          proof \in [rule : Rules, sigs : Seq(SignedBy)] /\ Len(proof.sigs) <= MaxProof
    /\ bundle # Absent =>
          bundle \in [rule : Rules, registered : SUBSET Dids, counted : SUBSET Dids]
    /\ {asked, authorized} \subseteq Dids \cup {Absent}
    /\ asked # Absent => bundle # Absent
    /\ AcceptedByQuorum
    /\ AuthorizedForGood

\* Those who signed at positions of a proof without duplicates are as many as the
\* positions.
LEMMA SignersCounted ==
    ASSUME NEW sigs \in Seq(SignedBy), NEW V \in SUBSET (DOMAIN sigs)
    PROVE  /\ IsFiniteSet(V) /\ Cardinality(V) \in Nat
           /\ SignersAt(sigs, V) \in SUBSET Dids
           /\ IsFiniteSet(SignersAt(sigs, V)) /\ Cardinality(SignersAt(sigs, V)) \in Nat
           /\ ~HasDuplicates(sigs) => Cardinality(SignersAt(sigs, V)) = Cardinality(V)
<1> DEFINE D == DOMAIN sigs
           did == [i \in D |-> sigs[i].did]
           some == [i \in V |-> sigs[i].did]
<1>1. D = 1..Len(sigs) /\ Len(sigs) \in Nat /\ \A i \in D : sigs[i] \in SignedBy
  OBVIOUS
<1>2. IsFiniteSet(D) /\ Cardinality(D) = Len(sigs)
  <2>1. \A n \in Nat : IsFiniteSet(1..n) /\ Cardinality(1..n) = n
    BY FS_Interval
  <2> QED  BY <1>1, <2>1
<1>3. \A i \in D : sigs[i].did \in Dids
  BY <1>1 DEF SignedBy
<1>4. IsFiniteSet(V) /\ Cardinality(V) \in Nat
  BY <1>2, FS_Subset, FS_CardinalityType
<1>5. SignersAt(sigs, V) \in SUBSET Dids
  BY <1>3 DEF SignersAt
<1>6. IsFiniteSet(SignersAt(sigs, V)) /\ Cardinality(SignersAt(sigs, V)) \in Nat
  BY <1>5, TrustAssumption, FS_Subset, FS_CardinalityType
<1>7. ASSUME ~HasDuplicates(sigs) PROVE Cardinality(SignersAt(sigs, V)) = Cardinality(V)
  <2>1. did \in Surjection(D, SignersAt(sigs, D))
    BY DEF Surjection, SignersAt
  <2>2. Cardinality(SignersAt(sigs, D)) = Cardinality(D)
    BY <1>2, <1>7 DEF HasDuplicates, SignersOf
  <2>3. did \in Injection(D, SignersAt(sigs, D))
    <3> HIDE DEF did, D
    <3> QED  BY <1>2, <2>1, <2>2, FS_Surjection
  <2>4. \A i, j \in D : sigs[i].did = sigs[j].did => i = j
    BY <2>3 DEF Injection, IsInjective
  <2>5. some \in Surjection(V, SignersAt(sigs, V)) /\ some \in Injection(V, SignersAt(sigs, V))
    BY <2>4 DEF Surjection, Injection, IsInjective, SignersAt
  <2> HIDE DEF some
  <2> QED  BY <1>4, <2>5, FS_Surjection
<1> QED  BY <1>4, <1>5, <1>6, <1>7

\* Sums of weights.
LEMMA WeightSums ==
    /\ WeightSum(DOMAIN Weights) \in Nat
    /\ \A V \in SUBSET DOMAIN Weights :
          WeightSum(V) \in Nat /\ WeightSum(V) <= WeightSum(DOMAIN Weights)
<1> DEFINE D == DOMAIN Weights
<1>1. IsFiniteSet(D) /\ \A d \in D : Weights[d] \in Nat
  BY TrustAssumption, FS_Subset
<1> HIDE DEF D
<1>2. \A V \in SUBSET D : SumFunctionOnSet(Weights, V) \in Nat
  BY <1>1, SumStep
<1>3. \A V \in SUBSET D : SumFunctionOnSet(Weights, V) <= SumFunctionOnSet(Weights, D)
  BY <1>1, SumGrows
<1> QED  BY <1>2, <1>3 DEF WeightSum, D

\* Where nothing wraps, the wrapped comparison is the comparison.
LEMMA NothingWraps ==
    ASSUME NEW v \in Nat, NEW t \in Nat, v <= t, 2 * t < WeightRange
    PROVE  Wrap(Wrap(v) * 2) = 2 * v /\ Wrap(t) = t
<1>1. WeightRange \in Nat \ {0}
  BY TrustAssumption
<1>2. \A n \in Nat : n < WeightRange => n % WeightRange = n
  BY <1>1
<1>3. v < WeightRange /\ v * 2 < WeightRange /\ t < WeightRange /\ v * 2 \in Nat
  BY <1>1
<1>4. v % WeightRange = v /\ (v * 2) % WeightRange = v * 2 /\ t % WeightRange = t
  BY <1>2, <1>3
<1> QED  BY <1>4 DEF Wrap

\* A proof that verifies carries the quorum it names.
LEMMA VerifiedHasQuorum ==
    ASSUME NEW p \in [rule : Rules, sigs : Seq(SignedBy)], NEW form,
           NEW keys \in [Dids -> Range(KeyOf) \cup {Absent}], VerifyProof(p, form, keys)
    PROVE  LET counted == SignersAt(p.sigs, ValidSignatures(p.sigs, form, keys))
               n == Cardinality(counted)
               total == WeightSum(DOMAIN Weights)
           IN  /\ counted \subseteq Registered(keys)
               /\ p.rule.type = "Majority" => 2 * n > Cardinality(Registered(keys))
               /\ p.rule.type = "Threshold" => n >= p.rule.min
               /\ p.rule.type = "Weighted" /\ 2 * total < WeightRange =>
                     2 * WeightSum(counted) > total
<1> DEFINE valid == ValidSignatures(p.sigs, form, keys)
           counted == SignersAt(p.sigs, valid)
<1>1. valid \in SUBSET (DOMAIN p.sigs) /\ p.sigs \in Seq(SignedBy)
  BY DEF ValidSignatures
<1>2. /\ Cardinality(counted) = Cardinality(valid) /\ Cardinality(valid) \in Nat
      /\ counted \in SUBSET Dids
  BY <1>1, SignersCounted DEF VerifyProof
<1>3. counted \subseteq Registered(keys)
  BY <1>2 DEF ValidSignatures, Registered, SignersAt
<1>4. QuorumMet(p.rule, Cardinality(valid), counted, Cardinality(Registered(keys)))
  BY DEF VerifyProof
<1> HIDE DEF valid, counted
<1>5. Cardinality(Registered(keys)) \in Nat
  <2>1. Registered(keys) \in SUBSET Dids
    BY DEF Registered
  <2> QED  BY <2>1, TrustAssumption, FS_Subset, FS_CardinalityType
<1>6. p.rule \in Rules
  OBVIOUS
<1>7. p.rule.type = "Majority" => 2 * Cardinality(counted) > Cardinality(Registered(keys))
  BY <1>2, <1>4, <1>5 DEF QuorumMet
<1>8. p.rule.type = "Threshold" => Cardinality(counted) >= p.rule.min
  BY <1>2, <1>4 DEF QuorumMet
<1>9. ASSUME p.rule.type = "Weighted", 2 * WeightSum(DOMAIN Weights) < WeightRange
      PROVE  2 * WeightSum(counted) > WeightSum(DOMAIN Weights)
  <2>1. /\ counted \subseteq DOMAIN Weights
        /\ Wrap(Wrap(WeightSum(counted)) * 2) > Wrap(WeightSum(DOMAIN Weights))
    BY <1>4, <1>9 DEF QuorumMet
  <2>2. /\ WeightSum(counted) \in Nat /\ WeightSum(DOMAIN Weights) \in Nat
        /\ WeightSum(counted) <= WeightSum(DOMAIN Weights)
    BY <2>1, WeightSums
  <2> QED  BY <1>9, <2>1, <2>2, NothingWraps
<1> QED  BY <1>3, <1>7, <1>8, <1>9 DEF valid, counted


\* The two crates' majorities, on any proof without duplicates.
LEMMA MajorityIsOne ==
    ASSUME ValidatorInv PROVE MajoritiesAgree
<1> SUFFICES ASSUME proof # Absent, ~HasDuplicates(proof.sigs), NEW f \in Forms
             PROVE  LET valid == ValidSignatures(proof.sigs, f, trusted)
                    IN  VerifyProof([proof EXCEPT !.rule = [type |-> "Majority", min |-> 0]],
                                    f, trusted)
                          <=> validate_quorum([i \in valid |-> proof.sigs[i].did],
                                              Registered(trusted))
  BY DEF MajoritiesAgree
<1> DEFINE p == [proof EXCEPT !.rule = [type |-> "Majority", min |-> 0]]
           valid == ValidSignatures(proof.sigs, f, trusted)
           signers == [i \in valid |-> proof.sigs[i].did]
           allowed == Cardinality(Registered(trusted))
<1>1. proof \in [rule : Rules, sigs : Seq(SignedBy)] /\ trusted \in [Dids -> Range(KeyOf) \cup {Absent}]
  BY DEF ValidatorInv
<1>2. p.sigs = proof.sigs /\ p.rule = [type |-> "Majority", min |-> 0]
  BY <1>1
<1>3. valid \in SUBSET (DOMAIN proof.sigs) /\ proof.sigs \in Seq(SignedBy)
  BY <1>1 DEF ValidSignatures
<1>4. allowed \in Nat
  <2>1. Registered(trusted) \in SUBSET Dids
    BY DEF Registered
  <2> QED  BY <2>1, TrustAssumption, FS_Subset, FS_CardinalityType
<1>5. Range(signers) = SignersAt(proof.sigs, valid) /\ DOMAIN signers = valid
  BY DEF Range, SignersAt
<1>6. Cardinality(Range(signers)) = Cardinality(DOMAIN signers) /\ Cardinality(valid) \in Nat
  <2> HIDE DEF valid, signers
  <2>1. Cardinality(SignersAt(proof.sigs, valid)) = Cardinality(valid) /\ Cardinality(valid) \in Nat
    BY <1>3, SignersCounted
  <2> QED  BY <1>5, <2>1
<1>7. \A i \in DOMAIN signers : signers[i] \in Registered(trusted)
  <2>1. SignersAt(proof.sigs, valid) \in SUBSET Dids
    <3> HIDE DEF valid
    <3> QED  BY <1>3, SignersCounted
  <2> QED  BY <2>1 DEF ValidSignatures, Registered, SignersAt
<1>8. VerifyProof(p, f, trusted) <=> Cardinality(valid) * 2 > allowed
  <2> HIDE DEF p, allowed
  <2>1. VerifyProof(p, f, trusted) <=>
           QuorumMet([type |-> "Majority", min |-> 0], Cardinality(valid),
                     SignersAt(proof.sigs, valid), Cardinality(Registered(trusted)))
    BY <1>2 DEF VerifyProof
  <2> HIDE DEF valid
  <2> QED  BY <2>1 DEF QuorumMet, allowed
<1>9. validate_quorum(signers, Registered(trusted)) <=>
         Cardinality(DOMAIN signers) >= Cardinality(Registered(trusted)) \div 2 + 1
  <2> HIDE DEF signers, allowed, valid
  <2> QED  BY <1>6, <1>7 DEF validate_quorum
<1>10. Cardinality(valid) * 2 > allowed <=> Cardinality(valid) >= allowed \div 2 + 1
  <2> DEFINE c == Cardinality(valid)
  <2>1. c \in Nat /\ allowed \in Nat
    BY <1>4, <1>6
  <2> HIDE DEF c, allowed
  <2>2. c * 2 > allowed <=> c >= allowed \div 2 + 1
    BY <2>1
  <2> QED  BY <2>2 DEF c
<1> QED  BY <1>5, <1>8, <1>9, <1>10

\* register_signer, the proofs, set_trust_bundle and is_authorized_signer keep
\* the invariant.
LEMMA ValidatorSteps ==
    ASSUME ValidatorInv, ValidatorStep PROVE ValidatorInv'
<1>0. AcceptedByQuorum /\ (UNCHANGED bundle => AcceptedByQuorum')
  BY DEF ValidatorInv, AcceptedByQuorum
<1>1. ASSUME NEW r \in Registrations, RegisterSigner(r[1], r[2]) PROVE ValidatorInv'
  <2>1. r[1] \in Dids /\ r[2] \in Range(KeyOf) /\ r[2] # Absent
    BY TrustAssumption
  <2>2. trusted' \in [Dids -> Range(KeyOf) \cup {Absent}]
    BY <1>1, <2>1 DEF RegisterSigner, ValidatorInv
  <2>3. \A d \in Dids : trusted[d] # Absent => trusted'[d] # Absent
    BY <1>1, <2>1 DEF RegisterSigner, ValidatorInv
  <2>4. AuthorizedForGood'
    BY <1>1, <2>3 DEF RegisterSigner, ValidatorInv, AuthorizedForGood
  <2> QED  BY <1>0, <1>1, <2>2, <2>4 DEF RegisterSigner, ValidatorInv
<1>2. ASSUME NEW r \in Rules, NEW sigs \in Proofs, NewProof(r, sigs) PROVE ValidatorInv'
  <2>1. sigs \in Seq(SignedBy) /\ Len(sigs) <= MaxProof
    BY TrustAssumption DEF SignedBy
  <2>2. proof' \in [rule : Rules, sigs : Seq(SignedBy)] /\ Len(proof'.sigs) <= MaxProof
    BY <1>2, <2>1 DEF NewProof
  <2> QED  BY <1>0, <1>2, <2>2 DEF NewProof, ValidatorInv, AuthorizedForGood
<1>3. ASSUME NEW d \in Dids, NEW f \in Forms, AddSignature(d, f) PROVE ValidatorInv'
  <2> DEFINE s == [did |-> d, sig |-> Signature(KeyOf[d], f)]
  <2>1. s \in SignedBy
    BY TrustAssumption DEF SignedBy, Signature, Range
  <2>2. proof \in [rule : Rules, sigs : Seq(SignedBy)] /\ Len(proof.sigs) < MaxProof
    BY <1>3 DEF AddSignature, ValidatorInv
  <2>3. proof' = [proof EXCEPT !.sigs = Append(@, s)]
    BY <1>3 DEF AddSignature
  <2> HIDE DEF s
  <2>4. Append(proof.sigs, s) \in Seq(SignedBy) /\ Len(Append(proof.sigs, s)) = Len(proof.sigs) + 1
        /\ Len(proof.sigs) \in Nat
    BY <2>1, <2>2
  <2>5. proof' \in [rule : Rules, sigs : Seq(SignedBy)] /\ proof'.sigs = Append(proof.sigs, s)
    BY <2>2, <2>3, <2>4
  <2>6. Len(proof'.sigs) <= MaxProof
    BY <2>2, <2>4, <2>5, TrustAssumption
  <2> QED  BY <1>0, <1>3, <2>5, <2>6 DEF AddSignature, ValidatorInv, AuthorizedForGood
<1>4. ASSUME NEW f \in Forms, SetTrustBundle(f) PROVE ValidatorInv'
  <2>1. CASE VerifyProof(proof, f, trusted)
    <3>1. /\ proof \in [rule : Rules, sigs : Seq(SignedBy)]
          /\ trusted \in [Dids -> Range(KeyOf) \cup {Absent}]
      BY <1>4 DEF SetTrustBundle, ValidatorInv
    <3> DEFINE counted == SignersAt(proof.sigs, ValidSignatures(proof.sigs, f, trusted))
    <3>2. bundle' = [rule |-> proof.rule, registered |-> Registered(trusted), counted |-> counted]
      BY <1>4, <2>1 DEF SetTrustBundle
    <3>3. Registered(trusted) \in SUBSET Dids /\ proof.rule \in Rules
      BY <3>1 DEF Registered
    <3>4. LET n == Cardinality(counted)
              total == WeightSum(DOMAIN Weights)
          IN  /\ counted \subseteq Registered(trusted)
              /\ proof.rule.type = "Majority" => 2 * n > Cardinality(Registered(trusted))
              /\ proof.rule.type = "Threshold" => n >= proof.rule.min
              /\ proof.rule.type = "Weighted" /\ 2 * total < WeightRange =>
                    2 * WeightSum(counted) > total
      BY <2>1, <3>1, VerifiedHasQuorum
    <3> HIDE DEF counted
    <3>5. AcceptedByQuorum'
      BY <3>2, <3>4 DEF AcceptedByQuorum
    <3>6. counted \in SUBSET Dids
      BY <3>3, <3>4
    <3>7. /\ bundle' \in [rule : Rules, registered : SUBSET Dids, counted : SUBSET Dids]
          /\ bundle' # Absent
      BY <3>2, <3>3, <3>6, AbsentAssumption
    <3> QED  BY <1>4, <3>5, <3>7 DEF SetTrustBundle, ValidatorInv, AuthorizedForGood
  <2>2. CASE ~VerifyProof(proof, f, trusted)
    <3>1. UNCHANGED <<bundle, trusted, asked, authorized>> /\ proof' = Absent
      BY <1>4, <2>2 DEF SetTrustBundle
    <3> QED  BY <1>0, <3>1 DEF ValidatorInv, AuthorizedForGood
  <2> QED  BY <2>1, <2>2
<1>5. ASSUME NEW d \in Dids, ReadBundle(d) PROVE ValidatorInv'
  BY <1>0, <1>5 DEF ReadBundle, ValidatorInv, AuthorizedForGood
<1>6. CASE ReadKeys
  BY <1>0, <1>6 DEF ReadKeys, ValidatorInv, AuthorizedForGood
<1> QED  BY <1>1, <1>2, <1>3, <1>4, <1>5, <1>6 DEF ValidatorStep

-----------------------------------------------------------------------------
LEMMA TrustInvariant == EvidenceSpec => [](DocInv /\ ValidatorInv)
<1>1. EvidenceInit => DocInv /\ ValidatorInv
  BY DEF EvidenceInit, TrustInit, DocInv, ValidatorInv, AcceptedByQuorum, AuthorizedForGood
<1>2. DocInv /\ ValidatorInv /\ [EvidenceNext]_evidenceVars => (DocInv /\ ValidatorInv)'
  <2> SUFFICES ASSUME DocInv, ValidatorInv, [EvidenceNext]_evidenceVars
               PROVE  DocInv' /\ ValidatorInv'
    OBVIOUS
  <2>1. UNCHANGED docVars => DocInv'
    <3> SUFFICES ASSUME UNCHANGED docVars PROVE DocInv'
      OBVIOUS
    <3>1. doc' = doc /\ copy' = copy /\ verdict' = verdict
      BY DEF docVars
    <3>2. PayloadOf(doc)' = PayloadOf(doc) /\ Verified(copy)' = Verified(copy)
      BY <3>1
    <3> QED  BY <3>1, <3>2 DEF DocInv
  <2>2. UNCHANGED validatorVars => ValidatorInv'
    BY DEF validatorVars, ValidatorInv, AcceptedByQuorum, AuthorizedForGood
  <2> QED  BY <2>1, <2>2, DocSteps, ValidatorSteps DEF EvidenceNext, evidenceVars
<1> QED  BY <1>1, <1>2, PTL DEF EvidenceSpec

\* Whatever verifies where it arrives was signed with the key of the DID it
\* names and says what was signed, and what arrives as it was sent verifies, but
\* for the two exceptions of SurvivesTransport: for any documents, keys and
\* orders of the maps (sign_receipt_in_place, verify_embedded_signature,
\* with_signature, verify_detached_jws).
THEOREM DocumentsAreSound == EvidenceSpec => []DocumentsSound
<1>1. DocInv /\ ValidatorInv => DocumentsSound
  <2> SUFFICES ASSUME DocInv, ValidatorInv PROVE DocumentsSound
    OBVIOUS
  <2>1. TrustTypeOK
    BY DEF DocInv, ValidatorInv, TrustTypeOK, Document, SignatureRecord
  <2> QED  BY <2>1, DocInvSuffices DEF DocumentsSound
<1> QED  BY <1>1, TrustInvariant, PTL

\* A bundle in force had the quorum its proof names, counted in distinct
\* registered signers; the majorities of icn-identity and icn-types are one; and
\* is_authorized_signer needs no common lock for its two reads: for any DIDs,
\* keys, rules, weights and proofs (QuorumProof::verify, validate_quorum).
THEOREM QuorumsAreSound == EvidenceSpec => []QuorumsSound
<1>1. ValidatorInv => QuorumsSound
  BY MajorityIsOne DEF ValidatorInv, QuorumsSound
<1> QED  BY <1>1, TrustInvariant, PTL

-----------------------------------------------------------------------------
(* The reputation service.                                                  *)

\* The types of the service.
RepTyped ==
    /\ records \in [Subjects -> Seq(Record)]
    /\ dropped \in [Subjects -> Seq(Record)]
    /\ request \in [Clients -> Record \cup {NoValue}]
    /\ profiles \in [Subjects -> Profile \cup {NoValue}]

\* A request in flight has logged its record.
PendingLogged ==
    \A c \in Clients : request[c] # NoValue =>
        \E i \in DOMAIN records[request[c].subject] :
            records[request[c].subject][i] = request[c]

\* The inductive invariant of the service: what is pending or dropped was logged, and the
\* profiles count the rest.
RepInv == RepTyped /\ PendingLogged /\ ProfileMatchesLog /\ AverageWithinRange

\* What one event adds to a count.
One(b) == IF b THEN 1 ELSE 0

\* Appending a record adds one to the count of its kind.
LEMMA CountAppend ==
    ASSUME NEW seq \in Seq(Record), NEW r \in Record, NEW kind
    PROVE  /\ CountIn(seq, kind) \in Nat /\ CountIn(<<>>, kind) = 0
           /\ CountIn(Append(seq, r), kind) = CountIn(seq, kind) + One(r.event.kind = kind)
<1> DEFINE V == {x \in Record : x.event.kind = kind}
<1>1. ASSUME NEW q \in Seq(Record)
      PROVE  CountIn(q, kind) = Times(q, V)
  <2>1. {i \in DOMAIN q : q[i].event.kind = kind} = Places(q, V)
    BY DEF Places
  <2> QED  BY <2>1 DEF CountIn, Times
<1>2. Append(seq, r) \in Seq(Record) /\ <<>> \in Seq(Record)
  OBVIOUS
<1>3. Times(seq, V) \in Nat /\ Times(<<>>, V) = 0
  <2> HIDE DEF V
  <2> QED  BY TimesOf
<1>4. Times(Append(seq, r), V) = Times(seq, V) + (IF r \in V THEN 1 ELSE 0)
  <2> HIDE DEF V
  <2> QED  BY TimesAppend
<1>5. r \in V <=> r.event.kind = kind
  OBVIOUS
<1> HIDE DEF V
<1>6. CountIn(<<>>, kind) = Times(<<>>, V) /\ CountIn(seq, kind) = Times(seq, V)
      /\ CountIn(Append(seq, r), kind) = Times(Append(seq, r), V)
  BY <1>1, <1>2
<1> QED
  BY <1>3, <1>4, <1>5, <1>6 DEF One

\* What an event carries.
FieldsTyped(e) ==
           /\ e.kind = Success => e.ms \in Nat /\ e.on_time \in BOOLEAN
           /\ e.kind \in {"StakeIncreased", "StakeDecreased"} => e.stake \in Stakes
           /\ e.kind = "ProfileScoreManuallyAdjusted" => e.score \in 0 .. TopScore
           /\ e.kind \in {Success, Failure, "DishonestyPenalty", "StakeIncreased", "StakeDecreased",
                          "EndorsementReceived", "EndorsementRevoked",
                          "ProfileScoreManuallyAdjusted"}
           /\ e.kind = "EndorsementReceived" => e.from \in Subjects

\* Which fields an event has, by its kind.
LEMMA EventFields ==
    ASSUME NEW e \in Events
    PROVE  FieldsTyped(e)
<1> DEFINE A1 == [kind : {"JobCompletedSuccessfully"}, ms : Durations, on_time : BOOLEAN]
           A2 == [kind : {"JobFailed", "DishonestyPenalty"}]
           A3 == [kind : {"StakeIncreased", "StakeDecreased"}, stake : Stakes]
           A4 == [kind : {"EndorsementReceived", "EndorsementRevoked"}, from : Subjects]
           A5 == [kind : {"ProfileScoreManuallyAdjusted"}, score : 0 .. TopScore]
<1>1. e \in AllEvents /\ Durations \subseteq Nat
  BY ReputationAssumption
<1>2. CASE e \in A1
  <2>1. e.kind = "JobCompletedSuccessfully" /\ e.ms \in Durations /\ e.on_time \in BOOLEAN
    BY <1>2
  <2>2. e.ms \in Nat
    BY <2>1, <1>1
  <2> DEFINE b == e.on_time
             k == e.kind
  <2>3. b \in BOOLEAN
    BY <2>1
  <2>4. k = "JobCompletedSuccessfully"
    BY <2>1
  <2>5. k \notin {"StakeIncreased", "StakeDecreased", "ProfileScoreManuallyAdjusted",
                 "EndorsementReceived"}
    BY <2>4
  <2> QED  BY <2>2, <2>3, <2>4, <2>5 DEF Success, Failure, FieldsTyped
<1>3. CASE e \in A2
  <2>1. e.kind \in {"JobFailed", "DishonestyPenalty"}
    BY <1>3
  <2> QED  BY <2>1 DEF Success, Failure, FieldsTyped
<1>4. CASE e \in A3
  <2>1. e.kind \in {"StakeIncreased", "StakeDecreased"} /\ e.stake \in Stakes
    BY <1>4
  <2> QED  BY <2>1 DEF Success, Failure, FieldsTyped
<1>5. CASE e \in A4
  <2>1. e.kind \in {"EndorsementReceived", "EndorsementRevoked"} /\ e.from \in Subjects
    BY <1>5
  <2> QED  BY <2>1 DEF Success, Failure, FieldsTyped
<1>6. CASE e \in A5
  <2>1. e.kind = "ProfileScoreManuallyAdjusted" /\ e.score \in 0 .. TopScore
    BY <1>6
  <2> QED  BY <2>1 DEF Success, Failure, FieldsTyped
<1>7. e \in A1 \cup A2 \cup A3 \cup A4 \cup A5
  BY <1>1 DEF AllEvents
<1>8. e \in A1 \/ e \in A2 \/ e \in A3 \/ e \in A4 \/ e \in A5
  <2> HIDE DEF A1, A2, A3, A4, A5
  <2> QED  BY <1>7
<1> HIDE DEF A1, A2, A3, A4, A5
<1> QED
  BY <1>2, <1>3, <1>4, <1>5, <1>6, <1>8, Zenon

\* The integer running average of a value and n others lies between bounds of
\* the old average and the value.
LEMMA AverageBetween ==
    ASSUME NEW prev \in Nat, NEW val \in Nat, NEW n \in Nat,
           NEW lo \in Nat, NEW hi \in Nat,
           lo <= prev, lo <= val, prev <= hi, val <= hi
    PROVE  /\ (prev * n + val) \div (n + 1) \in Nat
           /\ lo <= (prev * n + val) \div (n + 1)
           /\ (prev * n + val) \div (n + 1) <= hi
<1> DEFINE x == prev * n + val
           m == n + 1
           q == x \div m
<1>1. x \in Nat /\ m \in Nat /\ m > 0
  OBVIOUS
<1>2. q \in Int /\ m * q <= x /\ x < m * (q + 1)
  <2> HIDE DEF x, m
  <2>1. x = m * (x \div m) + (x % m) /\ x % m \in 0 .. (m - 1) /\ x \div m \in Int
    BY <1>1
  <2>2. \A k \in Int : m * (k + 1) = m * k + m
    BY <1>1
  <2> QED  BY <1>1, <2>1, <2>2
<1>3. lo * n <= prev * n /\ prev * n <= hi * n
  OBVIOUS
<1>4. lo * m = lo * n + lo /\ hi * m = hi * n + hi
  OBVIOUS
<1>5. m * lo <= x /\ x <= m * hi
  BY <1>3, <1>4
<1>6. lo < q + 1
  <2> SUFFICES ASSUME q + 1 <= lo PROVE FALSE
    BY <1>2
  <2> HIDE DEF x, m, q
  <2>1. m * (q + 1) <= m * lo
    BY <1>1, <1>2
  <2> QED  BY <1>1, <1>2, <1>5, <2>1
<1>7. q < hi + 1
  <2> SUFFICES ASSUME hi + 1 <= q PROVE FALSE
    BY <1>2
  <2> HIDE DEF x, m, q
  <2>1. m * (hi + 1) <= m * q
    BY <1>1, <1>2
  <2>2. m * (hi + 1) = m * hi + m
    BY <1>1
  <2> QED  BY <1>1, <1>2, <1>5, <2>1, <2>2
<1> QED
  BY <1>2, <1>6, <1>7

\* What an event does to the counters and the average of a profile.
Counted(p, q, e) ==
    /\ q.successful = p.successful + One(e.kind = Success)
    /\ q.failed = p.failed + One(e.kind = Failure)
    /\ q.total = p.total + One(e.kind \in {Success, Failure})
    /\ q.on_time + q.late = p.on_time + p.late + One(e.kind = Success)
    /\ q.average_ms = IF e.kind = Success THEN AverageU32(p.average_ms, e.ms, p.successful + 1)
                      ELSE p.average_ms

\* The running average of naturals is one.
LEMMA AverageIsNat ==
    ASSUME NEW prev \in Nat \cup {NoValue}, NEW val \in Nat, NEW n \in Nat
    PROVE  AverageU32(prev, val, n + 1) \in Nat
<1>1. CASE prev = NoValue
  BY <1>1 DEF AverageU32
<1>2. CASE prev \in Nat /\ prev # NoValue
  <2>1. PICK hi \in Nat : prev <= hi /\ val <= hi
    <3>1. prev + val \in Nat /\ prev <= prev + val /\ val <= prev + val
      BY <1>2
    <3> QED  BY <3>1
  <2>2. (prev * n + val) \div (n + 1) \in Nat
    BY <1>2, <2>1, AverageBetween, 0 \in Nat, 0 <= prev, 0 <= val
  <2>3. (n + 1) - 1 = n
    OBVIOUS
  <2> QED  BY <1>2, <2>2, <2>3 DEF AverageU32
<1> QED
  BY <1>1, <1>2

\* Records of a shape stay of that shape when fields are set.
Shape(N, A, E, T, R) ==
    [total : N, successful : N, failed : N, on_time : N, late : N,
     average_ms : A, dishonesty : N, endorsements : E, stake : T, score : R]

\* What each change makes of a profile, field by field.
LEMMA ScoredShape ==
    ASSUME NEW N, NEW A, NEW E, NEW T, NEW R, NEW p \in Shape(N, A, E, T, R), NEW r \in R
    PROVE  [p EXCEPT !.score = r] \in Shape(N, A, E, T, R)
  BY DEF Shape

LEMMA ScoredProfile ==
    ASSUME NEW p \in Profile, NEW r \in 0 .. TopScore
    PROVE  [p EXCEPT !.score = r] \in Profile
<1> DEFINE N == Nat
           A == Nat \cup {NoValue}
           E == SUBSET Subjects
           T == Stakes \cup {NoValue}
           R == 0 .. TopScore
<1>1. Profile = Shape(N, A, E, T, R)
  BY DEF Profile, Shape
<1>2. r \in R
  OBVIOUS
<1> HIDE DEF N, A, E, T, R
<1>3. p \in Shape(N, A, E, T, R)
  BY <1>1
<1> QED
  BY <1>1, <1>2, <1>3, ScoredShape, Zenon

LEMMA FailedShape ==
    ASSUME NEW N, NEW A, NEW E, NEW T, NEW R, NEW p \in Shape(N, A, E, T, R), NEW n1 \in N, NEW n2 \in N
    PROVE  [p EXCEPT !.failed = n1, !.total = n2] \in Shape(N, A, E, T, R)
  BY DEF Shape

LEMMA FailedProfile ==
    ASSUME NEW p \in Profile, NEW n1 \in Nat, NEW n2 \in Nat
    PROVE  [p EXCEPT !.failed = n1, !.total = n2] \in Profile
<1> DEFINE N == Nat
           A == Nat \cup {NoValue}
           E == SUBSET Subjects
           T == Stakes \cup {NoValue}
           R == 0 .. TopScore
<1>1. Profile = Shape(N, A, E, T, R)
  BY DEF Profile, Shape
<1>2. n1 \in N /\ n2 \in N
  OBVIOUS
<1> HIDE DEF N, A, E, T, R
<1>3. p \in Shape(N, A, E, T, R)
  BY <1>1
<1> QED
  BY <1>1, <1>2, <1>3, FailedShape, Zenon

LEMMA DoneShape ==
    ASSUME NEW N, NEW A, NEW E, NEW T, NEW R, NEW p \in Shape(N, A, E, T, R), NEW n1 \in N, NEW n2 \in N, NEW n3 \in N, NEW a \in A, NEW n4 \in N
    PROVE  [p EXCEPT !.successful = n1, !.on_time = n2, !.late = n3, !.average_ms = a,
                      !.total = n4] \in Shape(N, A, E, T, R)
  BY DEF Shape

WithDone(p, n1, n2, n3, a, n4) ==
    [p EXCEPT !.successful = n1, !.on_time = n2, !.late = n3, !.average_ms = a, !.total = n4]

LEMMA DoneProfile ==
    ASSUME NEW p \in Profile, NEW n1 \in Nat, NEW n2 \in Nat, NEW n3 \in Nat, NEW a \in Nat \cup {NoValue}, NEW n4 \in Nat
    PROVE  WithDone(p, n1, n2, n3, a, n4) \in Profile
<1> DEFINE N == Nat
           A == Nat \cup {NoValue}
           E == SUBSET Subjects
           T == Stakes \cup {NoValue}
           R == 0 .. TopScore
<1>1. Profile = Shape(N, A, E, T, R)
  BY DEF Profile, Shape
<1>2. n1 \in N /\ n2 \in N /\ n3 \in N /\ a \in A /\ n4 \in N
  OBVIOUS
<1> HIDE DEF N, A, E, T, R
<1>3. p \in Shape(N, A, E, T, R)
  BY <1>1
<1> QED
  BY <1>1, <1>2, <1>3, DoneShape, Zenon DEF WithDone

\* An event applied to a profile gives a profile.
LEMMA AppliedProfile ==
    ASSUME NEW p \in Profile, NEW e \in Events
    PROVE  ApplyEvent(p, e) \in Profile /\ Counted(p, ApplyEvent(p, e), e)
<1>1. FieldsTyped(e)
  BY EventFields
<1>2. /\ p.successful \in Nat /\ p.failed \in Nat /\ p.total \in Nat /\ p.on_time \in Nat
      /\ p.late \in Nat /\ p.average_ms \in Nat \cup {NoValue}
  BY DEF Profile
<1>3. CASE e.kind = Success
  <2>1. e.ms \in Nat
    BY <1>1, <1>3 DEF FieldsTyped
  <2>2. AverageU32(p.average_ms, e.ms, p.successful + 1) \in Nat
    BY <1>2, <2>1, AverageIsNat
  <2> DEFINE avg == AverageU32(p.average_ms, e.ms, p.successful + 1)
  <2>3. PICK a : a = avg /\ a \in Nat
    BY <2>2
  <2>4. ApplyEvent(p, e) = [p EXCEPT !.successful = p.successful + 1,
              !.on_time = IF e.on_time THEN p.on_time + 1 ELSE p.on_time,
              !.late = IF e.on_time THEN p.late ELSE p.late + 1,
              !.average_ms = a,
              !.total = p.total + 1]
    BY <1>3, <2>3 DEF ApplyEvent, Completed, Success, Failure
  <2> HIDE DEF avg
  <2>5. PICK b \in BOOLEAN : b = e.on_time
    BY <1>1, <1>3 DEF FieldsTyped
  <2>6. CASE b
    <3>1. ApplyEvent(p, e) = [p EXCEPT !.successful = p.successful + 1,
              !.on_time = p.on_time + 1, !.late = p.late, !.average_ms = a, !.total = p.total + 1]
      BY <2>4, <2>5, <2>6
    <3>6. PICK q : q = [p EXCEPT !.successful = p.successful + 1,
              !.on_time = p.on_time + 1, !.late = p.late, !.average_ms = a, !.total = p.total + 1] /\ q = ApplyEvent(p, e)
      BY <3>1
    <3>7. q \in Profile
      <4>1. p.on_time + 1 \in Nat /\ p.late + 1 \in Nat /\ p.successful + 1 \in Nat /\ p.total + 1 \in Nat
            /\ a \in Nat \cup {NoValue}
        BY <1>2, <2>3
      <4>2. p.on_time \in Nat /\ p.late \in Nat
        BY <1>2
      <4>3. q = WithDone(p, p.successful + 1, p.on_time + 1, p.late, a, p.total + 1)
        BY <3>6 DEF WithDone
      <4> QED  BY <4>1, <4>2, <4>3, DoneProfile
    <3>8. /\ q.successful = p.successful + 1 /\ q.failed = p.failed /\ q.total = p.total + 1
          /\ q.on_time = p.on_time + 1 /\ q.late = p.late /\ q.average_ms = a
      BY <3>6, <2>3 DEF Profile
    <3>9. Counted(p, q, e)
      BY <1>2, <1>3, <2>3, <3>8 DEF Counted, One, Success, Failure, avg
    <3> QED  BY <3>6, <3>7, <3>9
  <2>7. CASE ~b
    <3>1. ApplyEvent(p, e) = [p EXCEPT !.successful = p.successful + 1,
              !.on_time = p.on_time, !.late = p.late + 1, !.average_ms = a, !.total = p.total + 1]
      BY <2>4, <2>5, <2>7
    <3>6. PICK q : q = [p EXCEPT !.successful = p.successful + 1,
              !.on_time = p.on_time, !.late = p.late + 1, !.average_ms = a, !.total = p.total + 1] /\ q = ApplyEvent(p, e)
      BY <3>1
    <3>7. q \in Profile
      <4>1. p.on_time + 1 \in Nat /\ p.late + 1 \in Nat /\ p.successful + 1 \in Nat /\ p.total + 1 \in Nat
            /\ a \in Nat \cup {NoValue}
        BY <1>2, <2>3
      <4>2. p.on_time \in Nat /\ p.late \in Nat
        BY <1>2
      <4>3. q = WithDone(p, p.successful + 1, p.on_time, p.late + 1, a, p.total + 1)
        BY <3>6 DEF WithDone
      <4> QED  BY <4>1, <4>2, <4>3, DoneProfile
    <3>8. /\ q.successful = p.successful + 1 /\ q.failed = p.failed /\ q.total = p.total + 1
          /\ q.on_time = p.on_time /\ q.late = p.late + 1 /\ q.average_ms = a
      BY <3>6, <2>3 DEF Profile
    <3>9. Counted(p, q, e)
      BY <1>2, <1>3, <2>3, <3>8 DEF Counted, One, Success, Failure, avg
    <3> QED  BY <3>6, <3>7, <3>9
  <2> QED  BY <2>5, <2>6, <2>7
<1>4. CASE e.kind = Failure
  <2>1. ApplyEvent(p, e) = [p EXCEPT !.failed = p.failed + 1, !.total = p.total + 1]
    BY <1>4 DEF ApplyEvent, Success, Failure
  <2>6. PICK q : q = [p EXCEPT !.failed = p.failed + 1, !.total = p.total + 1] /\ q = ApplyEvent(p, e)
    BY <2>1
  <2>7. q \in Profile
    <3>1. p.failed + 1 \in Nat /\ p.total + 1 \in Nat
      BY <1>2
    <3> QED  BY <2>6, <3>1, FailedProfile, Zenon
  <2>8. /\ q.successful = p.successful /\ q.failed = p.failed + 1 /\ q.total = p.total + 1
        /\ q.on_time = p.on_time /\ q.late = p.late /\ q.average_ms = p.average_ms
    BY <2>6 DEF Profile
  <2>9. Counted(p, q, e)
    BY <1>2, <1>4, <2>8 DEF Counted, One, Success, Failure
  <2> QED  BY <2>6, <2>7, <2>9
<1>5. CASE e.kind = "DishonestyPenalty"
  <2>1. ApplyEvent(p, e) = [p EXCEPT !.dishonesty = p.dishonesty + 1]
    BY <1>5 DEF ApplyEvent, Success, Failure
  <2>6. PICK q : q = [p EXCEPT !.dishonesty = p.dishonesty + 1] /\ q = ApplyEvent(p, e)
    BY <2>1
  <2>7. q \in Profile
    BY <1>2, <2>6 DEF Profile
  <2>8. /\ q.successful = p.successful /\ q.failed = p.failed /\ q.total = p.total
        /\ q.on_time = p.on_time /\ q.late = p.late /\ q.average_ms = p.average_ms
    BY <2>6 DEF Profile
  <2>9. Counted(p, q, e)
    BY <1>2, <1>5, <2>8 DEF Counted, One, Success, Failure
  <2> QED  BY <2>6, <2>7, <2>9
<1>6. CASE e.kind \in {"StakeIncreased", "StakeDecreased"}
  <2>1. ApplyEvent(p, e) = [p EXCEPT !.stake = e.stake]
    BY <1>6 DEF ApplyEvent, Success, Failure
  <2>2. e.stake \in Stakes
    BY <1>1, <1>6 DEF FieldsTyped
  <2>6. PICK q : q = [p EXCEPT !.stake = e.stake] /\ q = ApplyEvent(p, e)
    BY <2>1
  <2>7. q \in Profile
    BY <1>2, <2>6, <2>2 DEF Profile
  <2>8. /\ q.successful = p.successful /\ q.failed = p.failed /\ q.total = p.total
        /\ q.on_time = p.on_time /\ q.late = p.late /\ q.average_ms = p.average_ms
    BY <2>6, <2>2 DEF Profile
  <2>9. Counted(p, q, e)
    BY <1>2, <1>6, <2>2, <2>8 DEF Counted, One, Success, Failure
  <2> QED  BY <2>6, <2>7, <2>9
<1>7. CASE e.kind = "EndorsementReceived"
  <2>1. ApplyEvent(p, e) = [p EXCEPT !.endorsements = p.endorsements \cup {e.from}]
    BY <1>7 DEF ApplyEvent, Success, Failure
  <2>2. e.from \in Subjects
    BY <1>1, <1>7 DEF FieldsTyped
  <2>3. p.endorsements \cup {e.from} \in SUBSET Subjects
    BY <2>2 DEF Profile
  <2>6. PICK q : q = [p EXCEPT !.endorsements = p.endorsements \cup {e.from}] /\ q = ApplyEvent(p, e)
    BY <2>1
  <2>7. q \in Profile
    BY <1>2, <2>6, <2>3 DEF Profile
  <2>8. /\ q.successful = p.successful /\ q.failed = p.failed /\ q.total = p.total
        /\ q.on_time = p.on_time /\ q.late = p.late /\ q.average_ms = p.average_ms
    BY <2>6, <2>3 DEF Profile
  <2>9. Counted(p, q, e)
    BY <1>2, <1>7, <2>3, <2>8 DEF Counted, One, Success, Failure
  <2> QED  BY <2>6, <2>7, <2>9
<1>8. CASE e.kind = "EndorsementRevoked"
  <2>1. ApplyEvent(p, e) = [p EXCEPT !.endorsements = p.endorsements \ {e.from}]
    BY <1>8 DEF ApplyEvent, Success, Failure
  <2>2. p.endorsements \ {e.from} \in SUBSET Subjects
    BY DEF Profile
  <2>6. PICK q : q = [p EXCEPT !.endorsements = p.endorsements \ {e.from}] /\ q = ApplyEvent(p, e)
    BY <2>1
  <2>7. q \in Profile
    BY <1>2, <2>6, <2>2 DEF Profile
  <2>8. /\ q.successful = p.successful /\ q.failed = p.failed /\ q.total = p.total
        /\ q.on_time = p.on_time /\ q.late = p.late /\ q.average_ms = p.average_ms
    BY <2>6, <2>2 DEF Profile
  <2>9. Counted(p, q, e)
    BY <1>2, <1>8, <2>2, <2>8 DEF Counted, One, Success, Failure
  <2> QED  BY <2>6, <2>7, <2>9
<1>9. CASE e.kind = "ProfileScoreManuallyAdjusted"
  <2>1. ApplyEvent(p, e) = [p EXCEPT !.score = e.score]
    BY <1>9 DEF ApplyEvent, Success, Failure
  <2>2. e.score \in 0 .. TopScore
    BY <1>1, <1>9 DEF FieldsTyped
  <2>6. PICK q : q = [p EXCEPT !.score = e.score] /\ q = ApplyEvent(p, e)
    BY <2>1
  <2>7. q \in Profile
    BY <2>6, <2>2, ScoredProfile, Zenon
  <2>8. /\ q.successful = p.successful /\ q.failed = p.failed /\ q.total = p.total
        /\ q.on_time = p.on_time /\ q.late = p.late /\ q.average_ms = p.average_ms
    BY <2>6, <2>2 DEF Profile
  <2>9. Counted(p, q, e)
    BY <1>2, <1>9, <2>2, <2>8 DEF Counted, One, Success, Failure
  <2> QED  BY <2>6, <2>7, <2>9
<1>10. \/ e.kind = Success \/ e.kind = Failure \/ e.kind = "DishonestyPenalty"
       \/ e.kind \in {"StakeIncreased", "StakeDecreased"} \/ e.kind = "EndorsementReceived"
       \/ e.kind = "EndorsementRevoked" \/ e.kind = "ProfileScoreManuallyAdjusted"
  BY <1>1 DEF FieldsTyped
<1> QED
  BY <1>3, <1>4, <1>5, <1>6, <1>7, <1>8, <1>9, <1>10

LEMMA TopIsNat == TopScore \in Nat
  BY DEF TopScore

\* What is clamped lies between the bounds.
LEMMA Clamped ==
    ASSUME NEW x \in Int, NEW lo \in Int, NEW hi \in Int, lo <= hi
    PROVE  /\ Clamp(x, lo, hi) \in lo .. hi
           /\ Clamp(x, lo, hi) \notin {lo, hi} => Clamp(x, lo, hi) = x
           /\ x \in lo .. hi => Clamp(x, lo, hi) = x
  BY DEF Clamp

\* A computed score is on the scale.
LEMMA ScoreInRange ==
    ASSUME NEW p \in Profile
    PROVE  ComputeScore(p) \in 0 .. TopScore
<1>1. /\ p.successful \in Nat /\ p.total \in Nat /\ p.on_time \in Nat /\ p.dishonesty \in Nat
      /\ p.stake \in Stakes \cup {NoValue}
  BY DEF Profile
<1>2. AtLeastOne(p.total) \in Nat /\ AtLeastOne(p.total) > 0
      /\ AtLeastOne(p.successful) \in Nat /\ AtLeastOne(p.successful) > 0
  BY <1>1 DEF AtLeastOne
<1> DEFINE t == AtLeastOne(p.total)
           u == AtLeastOne(p.successful)
           bonus == IF p.stake = NoValue THEN 0 ELSE StakeLog[p.stake]
<1>3. bonus \in Int
  BY <1>1, ReputationAssumption
<1>4. (2000 * p.successful) \div t \in Int /\ (1000 * p.on_time) \div u \in Int
  <2> HIDE DEF t, u
  <2> QED  BY <1>1, <1>2 DEF t, u
<1>5. PICK x \in Int : ComputeScore(p) = Clamp(x, 0, TopScore)
  <2> DEFINE x1 == (2000 * p.successful) \div t
             x2 == (1000 * p.on_time) \div u
  <2>1. 500 + x1 + x2 + 750 + bonus - 700 * p.dishonesty \in Int
    <3> HIDE DEF x1, x2, bonus
    <3> QED  BY <1>1, <1>3, <1>4 DEF x1, x2
  <2>2. ComputeScore(p) = Clamp(500 + x1 + x2 + 750 + bonus - 700 * p.dishonesty, 0, TopScore)
    BY DEF ComputeScore
  <2> QED  BY <2>1, <2>2
<1>6. Clamp(x, 0, TopScore) \in 0 .. TopScore
  BY <1>5, Clamped, TopIsNat, 0 \in Int, 0 <= TopScore
<1> QED
  BY <1>5, <1>6

\* A rescored profile is a profile.
LEMMA UpdatedProfile ==
    ASSUME NEW p \in Profile, NEW e \in Events
    PROVE  Updated(p, e) \in Profile /\ Counted(p, Updated(p, e), e)
<1>1. PICK q \in Profile : q = ApplyEvent(p, e) /\ Counted(p, q, e)
  BY AppliedProfile
<1>2. ComputeScore(q) \in 0 .. TopScore
  BY ScoreInRange
<1>3. PICK z \in 0 .. TopScore : z = ComputeScore(q)
  BY <1>2
<1>4. Updated(p, e) = [q EXCEPT !.score = z]
  BY <1>1, <1>3 DEF Updated
<1>5. [q EXCEPT !.score = z] \in Profile
  BY <1>1, <1>3, ScoredProfile, Zenon
<1>6. /\ [q EXCEPT !.score = z].successful = q.successful
      /\ [q EXCEPT !.score = z].failed = q.failed
      /\ [q EXCEPT !.score = z].total = q.total
      /\ [q EXCEPT !.score = z].on_time = q.on_time
      /\ [q EXCEPT !.score = z].late = q.late
      /\ [q EXCEPT !.score = z].average_ms = q.average_ms
  BY <1>1 DEF Profile
<1> QED
  BY <1>1, <1>4, <1>5, <1>6 DEF Counted

LEMMA FreshProfile == NewProfile \in Profile
<1>1. 0 \in 0 .. TopScore /\ 0 \in Nat /\ {} \in SUBSET Subjects
  BY TopIsNat
<1> QED
  BY <1>1 DEF NewProfile, Profile

\* A request that begins joins the ones in flight for its subject and kind.
LEMMA FlightJoined ==
    ASSUME RepTyped, NEW c \in Clients, request[c] = NoValue, NEW r \in Record,
           request' = [request EXCEPT ![c] = r], NEW s, NEW kind
    PROVE  /\ Cardinality(InFlight(s, kind)) \in Nat
           /\ Cardinality(InFlight(s, kind))' =
                  Cardinality(InFlight(s, kind)) + One(r.subject = s /\ r.event.kind = kind)
<1>1. IsFiniteSet(Clients) /\ r # NoValue
  BY ReputationAssumption
<1>2. IsFiniteSet(InFlight(s, kind)) /\ c \notin InFlight(s, kind)
  <2>1. InFlight(s, kind) \subseteq Clients /\ c \notin InFlight(s, kind)
    BY DEF InFlight
  <2> QED  BY <1>1, <2>1, FS_Subset
<1>3. Cardinality(InFlight(s, kind)) \in Nat
  BY <1>2, FS_CardinalityType
<1>4. CASE r.subject = s /\ r.event.kind = kind
  <2>1. InFlight(s, kind)' = InFlight(s, kind) \cup {c}
    BY <1>1, <1>4 DEF InFlight, RepTyped
  <2>2. Cardinality(InFlight(s, kind) \cup {c}) = Cardinality(InFlight(s, kind)) + 1
    BY <1>2, FS_AddElement
  <2> QED  BY <1>3, <1>4, <2>1, <2>2 DEF One
<1>5. CASE ~(r.subject = s /\ r.event.kind = kind)
  <2>1. InFlight(s, kind)' = InFlight(s, kind)
    BY <1>1, <1>5 DEF InFlight, RepTyped
  <2> QED  BY <1>3, <1>5, <2>1 DEF One
<1> QED  BY <1>4, <1>5

\* A request that ends leaves them.
LEMMA FlightLeft ==
    ASSUME RepTyped, NEW c \in Clients, request[c] # NoValue,
           request' = [request EXCEPT ![c] = NoValue], NEW s, NEW kind
    PROVE  /\ Cardinality(InFlight(s, kind))' \in Nat
           /\ Cardinality(InFlight(s, kind)) =
                  Cardinality(InFlight(s, kind))'
                    + One(request[c].subject = s /\ request[c].event.kind = kind)
<1>1. IsFiniteSet(Clients)
  BY ReputationAssumption
<1>2. IsFiniteSet(InFlight(s, kind)') /\ c \notin InFlight(s, kind)'
  <2>1. InFlight(s, kind)' \subseteq Clients /\ c \notin InFlight(s, kind)'
    BY DEF InFlight, RepTyped
  <2> QED  BY <1>1, <2>1, FS_Subset
<1>3. Cardinality(InFlight(s, kind)') \in Nat
  BY <1>2, FS_CardinalityType
<1>4. CASE request[c].subject = s /\ request[c].event.kind = kind
  <2>1. InFlight(s, kind) = InFlight(s, kind)' \cup {c}
    BY <1>4 DEF InFlight, RepTyped
  <2>2. Cardinality(InFlight(s, kind)' \cup {c}) = Cardinality(InFlight(s, kind)') + 1
    BY <1>2, FS_AddElement
  <2> QED  BY <1>3, <1>4, <2>1, <2>2 DEF One
<1>5. CASE ~(request[c].subject = s /\ request[c].event.kind = kind)
  <2>1. InFlight(s, kind)' = InFlight(s, kind)
    BY <1>5 DEF InFlight, RepTyped
  <2> QED  BY <1>3, <1>5, <2>1 DEF One
<1> QED  BY <1>4, <1>5

\* The durations logged are numbers.
LEMMA LoggedAreNumbers ==
    ASSUME RepTyped, NEW s \in Subjects
    PROVE  LoggedMs(s) \subseteq Nat
<1> SUFFICES ASSUME NEW i \in DOMAIN records[s], records[s][i].event.kind = Success
             PROVE  records[s][i].event.ms \in Nat
  BY DEF LoggedMs
<1>1. records[s][i] \in Record
  BY DEF RepTyped
<1>2. records[s][i].event \in Events
  BY <1>1 DEF Record
<1> QED  BY <1>2, EventFields DEF FieldsTyped

\* The profile a subject counts as having.
ViewOf(v) == IF v = NoValue THEN NewProfile ELSE v

\* ProfileMatchesLog, for one subject.
MatchesFor(s) ==
    /\ CountIn(records[s], Success) = ViewOf(profiles[s]).successful
           + Cardinality(InFlight(s, Success)) + CountIn(dropped[s], Success)
    /\ CountIn(records[s], Failure) = ViewOf(profiles[s]).failed
           + Cardinality(InFlight(s, Failure)) + CountIn(dropped[s], Failure)
    /\ ViewOf(profiles[s]).total = ViewOf(profiles[s]).successful + ViewOf(profiles[s]).failed
    /\ ViewOf(profiles[s]).successful = ViewOf(profiles[s]).on_time + ViewOf(profiles[s]).late

LEMMA MatchesEach == ProfileMatchesLog <=> \A s \in Subjects : MatchesFor(s)
  BY DEF ProfileMatchesLog, MatchesFor, ViewOf

\* AverageWithinRange, for one subject.
AverageFor(s) ==
    profiles[s] # NoValue /\ profiles[s].average_ms # NoValue =>
        /\ \E d \in LoggedMs(s) : d <= profiles[s].average_ms
        /\ \E d \in LoggedMs(s) : profiles[s].average_ms <= d

LEMMA RepInitial == RepInit => RepInv
<1> SUFFICES ASSUME RepInit PROVE RepInv
  OBVIOUS
<1>1. RepTyped
  BY DEF RepInit, RepTyped
<1>2. PendingLogged
  BY DEF RepInit, PendingLogged
<1>3. ASSUME NEW s \in Subjects PROVE MatchesFor(s)
  <2>1. \A kind : InFlight(s, kind) = {}
    BY DEF InFlight, RepInit
  <2>2. Cardinality({}) = 0
    BY FS_EmptySet
  <2>3. \A kind : CountIn(<<>>, kind) = 0
    <3>1. \A kind : {i \in DOMAIN <<>> : <<>>[i].event.kind = kind} = {}
      OBVIOUS
    <3> QED  BY <2>2, <3>1 DEF CountIn
  <2>4. records[s] = <<>> /\ dropped[s] = <<>> /\ profiles[s] = NoValue
    BY DEF RepInit
  <2>5. PICK v : v = ViewOf(profiles[s])
    OBVIOUS
  <2>6. v.successful = 0 /\ v.failed = 0 /\ v.total = 0 /\ v.on_time = 0 /\ v.late = 0
    BY <2>4, <2>5 DEF ViewOf, NewProfile
  <2>7. /\ Cardinality(InFlight(s, Success)) = 0 /\ Cardinality(InFlight(s, Failure)) = 0
        /\ CountIn(<<>>, Success) = 0 /\ CountIn(<<>>, Failure) = 0
    BY <2>1, <2>2, <2>3
  <2> QED  BY <2>4, <2>5, <2>6, <2>7 DEF MatchesFor
<1>4. AverageWithinRange
  BY DEF AverageWithinRange, RepInit
<1> QED
  BY <1>1, <1>2, <1>3, <1>4, MatchesEach DEF RepInv

\* A record is logged.
LEMMA RepLogs ==
    ASSUME RepInv, NEW c \in Clients, NEW r \in Record, SubmitLog(c, r)
    PROVE  RepInv'
<1>1. r.subject \in Subjects /\ request[c] = NoValue /\ r # NoValue
  BY ReputationAssumption DEF SubmitLog, Record
<1>2. /\ records' = [records EXCEPT ![r.subject] = Append(records[r.subject], r)]
      /\ request' = [request EXCEPT ![c] = r]
      /\ profiles' = profiles /\ dropped' = dropped
  BY DEF SubmitLog
<1>3. RepTyped /\ PendingLogged /\ AverageWithinRange /\ \A s \in Subjects : MatchesFor(s)
  BY MatchesEach DEF RepInv
<1>4. RepTyped'
  BY <1>1, <1>2, <1>3 DEF RepTyped
<1>5. ASSUME NEW s \in Subjects
      PROVE  /\ Len(records'[s]) >= Len(records[s]) /\ DOMAIN records[s] \subseteq DOMAIN records'[s]
             /\ \A i \in DOMAIN records[s] : records'[s][i] = records[s][i]
  <2>1. records[s] \in Seq(Record)
    BY <1>3 DEF RepTyped
  <2>2. CASE s = r.subject
    <3>1. records'[s] = Append(records[s], r)
      BY <1>1, <1>2, <1>3, <2>2 DEF RepTyped
    <3> QED  BY <2>1, <3>1
  <2>3. CASE s # r.subject
    <3>1. records'[s] = records[s]
      BY <1>1, <1>2, <1>3, <2>3 DEF RepTyped
    <3> QED  BY <2>1, <3>1
  <2> QED  BY <2>2, <2>3
<1>6. PendingLogged'
  <2> SUFFICES ASSUME NEW k \in Clients, request'[k] # NoValue
               PROVE  \E i \in DOMAIN records'[request'[k].subject] :
                          records'[request'[k].subject][i] = request'[k]
    BY DEF PendingLogged
  <2>1. CASE k = c
    <3>1. request'[k] = r
      BY <1>2, <1>3, <2>1 DEF RepTyped
    <3>2. records'[r.subject] = Append(records[r.subject], r) /\ records[r.subject] \in Seq(Record)
      BY <1>1, <1>2, <1>3 DEF RepTyped
    <3> DEFINE n == Len(records[r.subject])
    <3>3. n + 1 \in DOMAIN records'[r.subject] /\ records'[r.subject][n + 1] = r
      BY <3>2
    <3> QED  BY <3>1, <3>3
  <2>2. CASE k # c
    <3>1. request'[k] = request[k] /\ request[k] \in Record
      BY <1>2, <1>3, <2>2 DEF RepTyped
    <3>2. request[k].subject \in Subjects
      BY <3>1 DEF Record
    <3>3. PICK i \in DOMAIN records[request[k].subject] : records[request[k].subject][i] = request[k]
      BY <1>3, <3>1 DEF PendingLogged
    <3> QED  BY <1>5, <3>1, <3>2, <3>3
  <2> QED  BY <2>1, <2>2
<1>7. ASSUME NEW s \in Subjects PROVE MatchesFor(s)'
  <2>1. \A kind : /\ Cardinality(InFlight(s, kind)) \in Nat
                  /\ Cardinality(InFlight(s, kind))' =
                        Cardinality(InFlight(s, kind)) + One(r.subject = s /\ r.event.kind = kind)
    BY <1>1, <1>2, <1>3, FlightJoined
  <2>2. records[s] \in Seq(Record) /\ dropped[s] \in Seq(Record)
    BY <1>3 DEF RepTyped
  <2>3. \A kind : /\ CountIn(records[s], kind) \in Nat
                  /\ CountIn(records'[s], kind) =
                        CountIn(records[s], kind) + One(r.subject = s /\ r.event.kind = kind)
    <3>1. CASE s = r.subject
      <4>1. records'[s] = Append(records[s], r)
        BY <1>1, <1>2, <1>3, <3>1 DEF RepTyped
      <4> QED  BY <2>2, <3>1, <4>1, CountAppend DEF One
    <3>2. CASE s # r.subject
      <4>1. records'[s] = records[s]
        BY <1>1, <1>2, <1>3, <3>2 DEF RepTyped
      <4>2. \A kind : CountIn(records[s], kind) \in Nat
        BY <2>2, CountAppend
      <4> QED  BY <3>2, <4>1, <4>2 DEF One
    <3> QED  BY <3>1, <3>2
  <2>4. \A kind : CountIn(dropped[s], kind) \in Nat
    BY <2>2, CountAppend
  <2>5. ViewOf(profiles[s]) \in Profile
    BY <1>3, FreshProfile DEF RepTyped, ViewOf
  <2>6. PICK v \in Profile : v = ViewOf(profiles[s]) /\ v = ViewOf(profiles[s])'
    BY <1>2, <2>5 DEF ViewOf
  <2>7. v.successful \in Nat /\ v.failed \in Nat
    BY <2>6 DEF Profile
  <2>8. MatchesFor(s) /\ dropped'[s] = dropped[s]
    BY <1>2, <1>3
  <2>9. One(r.subject = s /\ r.event.kind = Success) \in Nat
        /\ One(r.subject = s /\ r.event.kind = Failure) \in Nat
    BY DEF One
  <2>10. CountIn(records'[s], Success) = v.successful
           + Cardinality(InFlight(s, Success))' + CountIn(dropped'[s], Success)
    BY <2>1, <2>3, <2>4, <2>6, <2>7, <2>8, <2>9 DEF MatchesFor
  <2>11. CountIn(records'[s], Failure) = v.failed
           + Cardinality(InFlight(s, Failure))' + CountIn(dropped'[s], Failure)
    BY <2>1, <2>3, <2>4, <2>6, <2>7, <2>8, <2>9 DEF MatchesFor
  <2> QED  BY <2>6, <2>8, <2>10, <2>11 DEF MatchesFor
<1>8. ASSUME NEW s \in Subjects PROVE LoggedMs(s) \subseteq LoggedMs(s)'
  BY <1>5 DEF LoggedMs
<1>9. AverageWithinRange'
  BY <1>2, <1>3, <1>8 DEF AverageWithinRange
<1>10. ProfileMatchesLog'
  BY <1>7 DEF ProfileMatchesLog, MatchesFor, ViewOf
<1> QED
  BY <1>4, <1>6, <1>9, <1>10 DEF RepInv

\* A logged record is applied to the profile.
LEMMA RepApplies ==
    ASSUME RepInv, NEW c \in Clients, SubmitApply(c)
    PROVE  RepInv' /\ \A s \in Subjects : profiles[s] # NoValue => profiles'[s] # NoValue
<1>1. RepTyped /\ PendingLogged /\ AverageWithinRange /\ \A s \in Subjects : MatchesFor(s)
  BY MatchesEach DEF RepInv
<1>2. PICK r \in Record : r = request[c] /\ r # NoValue
  BY <1>1 DEF RepTyped, SubmitApply
<1>3. r.subject \in Subjects /\ r.event \in Events
  BY <1>2 DEF Record
<1>4. PICK t \in Subjects : t = r.subject
  BY <1>3
<1>5. PICK e \in Events : e = r.event
  BY <1>3
<1>6. ViewOf(profiles[t]) \in Profile
  BY <1>1, <1>4, FreshProfile DEF RepTyped, ViewOf
<1>7. PICK p \in Profile : p = ViewOf(profiles[t])
  BY <1>6
<1>8. PICK q \in Profile : q = Updated(p, e) /\ Counted(p, q, e)
  BY <1>5, <1>7, UpdatedProfile
<1>9. /\ profiles' = [profiles EXCEPT ![t] = q]
      /\ request' = [request EXCEPT ![c] = NoValue]
      /\ records' = records /\ dropped' = dropped
  BY <1>2, <1>4, <1>5, <1>7, <1>8 DEF SubmitApply, ViewOf
<1>10. q # NoValue
  BY <1>8, ReputationAssumption
<1>11. profiles'[t] = q /\ \A s \in Subjects : s # t => profiles'[s] = profiles[s]
  BY <1>1, <1>4, <1>9 DEF RepTyped
<1>12. RepTyped'
  BY <1>1, <1>4, <1>8, <1>9 DEF RepTyped
<1>13. PendingLogged'
  <2> SUFFICES ASSUME NEW k \in Clients, request'[k] # NoValue
               PROVE  \E i \in DOMAIN records'[request'[k].subject] :
                          records'[request'[k].subject][i] = request'[k]
    BY DEF PendingLogged
  <2>1. k # c /\ request'[k] = request[k]
    BY <1>1, <1>9 DEF RepTyped
  <2> QED  BY <1>1, <1>9, <2>1 DEF PendingLogged
<1>14. /\ p.successful \in Nat /\ p.failed \in Nat /\ p.total \in Nat /\ p.on_time \in Nat
       /\ p.late \in Nat /\ q.successful \in Nat /\ q.failed \in Nat /\ q.on_time \in Nat
       /\ q.late \in Nat /\ p.average_ms \in Nat \cup {NoValue} /\ q.average_ms \in Nat \cup {NoValue}
  BY <1>7, <1>8 DEF Profile
<1>15. ASSUME NEW s \in Subjects PROVE MatchesFor(s)'
  <2>1. \A kind : /\ Cardinality(InFlight(s, kind))' \in Nat
                  /\ Cardinality(InFlight(s, kind)) =
                        Cardinality(InFlight(s, kind))' + One(t = s /\ e.kind = kind)
    <3> SUFFICES ASSUME NEW kind
                 PROVE  /\ Cardinality(InFlight(s, kind))' \in Nat
                        /\ Cardinality(InFlight(s, kind)) =
                              Cardinality(InFlight(s, kind))' + One(t = s /\ e.kind = kind)
      OBVIOUS
    <3>1. request[c] # NoValue /\ request[c].subject = t /\ request[c].event = e
      BY <1>2, <1>4, <1>5
    <3>2. /\ Cardinality(InFlight(s, kind))' \in Nat
          /\ Cardinality(InFlight(s, kind)) =
                Cardinality(InFlight(s, kind))'
                  + One(request[c].subject = s /\ request[c].event.kind = kind)
      BY <1>1, <1>9, <3>1, FlightLeft
    <3> QED  BY <3>1, <3>2
  <2>2. records[s] \in Seq(Record) /\ dropped[s] \in Seq(Record)
    BY <1>1 DEF RepTyped
  <2>3. \A kind : CountIn(dropped[s], kind) \in Nat /\ CountIn(records[s], kind) \in Nat
    BY <2>2, CountAppend, <1>2
  <2>4. MatchesFor(s) /\ dropped'[s] = dropped[s] /\ records'[s] = records[s]
    BY <1>1, <1>9
  <2>5. CASE s = t
    <3>1. ViewOf(profiles[s]) = p /\ ViewOf(profiles'[s]) = q
      BY <1>7, <1>10, <1>11, <2>5 DEF ViewOf
    <3>2. /\ q.successful = p.successful + One(t = s /\ e.kind = Success)
          /\ q.failed = p.failed + One(t = s /\ e.kind = Failure)
          /\ q.total = p.total + One(e.kind \in {Success, Failure})
          /\ q.on_time + q.late = p.on_time + p.late + One(e.kind = Success)
      BY <1>8, <2>5 DEF Counted, One
    <3>3. One(e.kind \in {Success, Failure}) = One(e.kind = Success) + One(e.kind = Failure)
      BY DEF One, Success, Failure
    <3>4. /\ One(t = s /\ e.kind = Success) \in Nat /\ One(t = s /\ e.kind = Failure) \in Nat
          /\ One(e.kind = Success) = One(t = s /\ e.kind = Success)
          /\ One(e.kind = Failure) = One(t = s /\ e.kind = Failure)
      BY <2>5 DEF One
    <3>5. CountIn(records'[s], Success) = q.successful
           + Cardinality(InFlight(s, Success))' + CountIn(dropped'[s], Success)
      BY <1>14, <2>1, <2>3, <2>4, <3>1, <3>2, <3>4 DEF MatchesFor
    <3>6. CountIn(records'[s], Failure) = q.failed
           + Cardinality(InFlight(s, Failure))' + CountIn(dropped'[s], Failure)
      BY <1>14, <2>1, <2>3, <2>4, <3>1, <3>2, <3>4 DEF MatchesFor
    <3>7. p.total = p.successful + p.failed /\ p.successful = p.on_time + p.late
      BY <2>4, <3>1 DEF MatchesFor
    <3>8. q.total = q.successful + q.failed /\ q.successful = q.on_time + q.late
      <4>1. PICK m \in Nat : m = One(e.kind = Success) /\ q.successful = p.successful + m
        BY <3>2, <3>4
      <4>2. PICK f \in Nat : f = One(e.kind = Failure) /\ q.failed = p.failed + f
        BY <3>2, <3>4
      <4>3. q.total = p.total + (m + f) /\ q.on_time + q.late = p.on_time + p.late + m
        BY <3>2, <3>3, <4>1, <4>2
      <4> QED  BY <1>14, <3>7, <4>1, <4>2, <4>3
    <3> QED  BY <3>1, <3>5, <3>6, <3>8 DEF MatchesFor
  <2>6. CASE s # t
    <3>1. \A kind : Cardinality(InFlight(s, kind))' = Cardinality(InFlight(s, kind))
      BY <2>1, <2>6 DEF One
    <3> QED  BY <1>11, <2>4, <2>6, <3>1 DEF MatchesFor
  <2> QED  BY <2>5, <2>6
<1>16. ASSUME NEW s \in Subjects PROVE LoggedMs(s)' = LoggedMs(s)
  BY <1>9 DEF LoggedMs
<1>17. ASSUME NEW s \in Subjects PROVE AverageFor(s)'
  <2>1. AverageFor(s)
    BY <1>1 DEF AverageWithinRange, AverageFor
  <2>2. CASE s # t
    BY <1>11, <1>16, <2>1, <2>2 DEF AverageFor
  <2>3. CASE s = t /\ e.kind # Success
    <3>1. profiles'[s].average_ms = p.average_ms /\ profiles'[s] # NoValue
      BY <1>8, <1>10, <1>11, <2>3 DEF Counted
    <3>2. p.average_ms # NoValue => profiles[s] # NoValue /\ p = profiles[s]
      BY <1>7, <2>3 DEF ViewOf, NewProfile
    <3> QED  BY <1>16, <2>1, <3>1, <3>2 DEF AverageFor
  <2>4. CASE s = t /\ e.kind = Success
    <3>1. q.average_ms = AverageU32(p.average_ms, e.ms, p.successful + 1)
      BY <1>8, <2>4 DEF Counted
    <3>2. e.ms \in Nat
      BY <1>5, <2>4, EventFields DEF FieldsTyped
    <3>3. e.ms \in LoggedMs(s)
      <4>1. PICK i \in DOMAIN records[s] : records[s][i] = r
        BY <1>1, <1>2, <1>4, <2>4 DEF PendingLogged
      <4> QED  BY <1>5, <2>4, <4>1 DEF LoggedMs
    <3>4. LoggedMs(s) \subseteq Nat
      BY <1>1, LoggedAreNumbers
    <3>5. CASE p.average_ms = NoValue
      <4>1. q.average_ms = e.ms
        BY <3>1, <3>5 DEF AverageU32
      <4>2. e.ms <= e.ms
        BY <3>2
      <4> QED  BY <1>11, <1>16, <2>4, <3>3, <4>1, <4>2 DEF AverageFor
    <3>6. CASE p.average_ms # NoValue
      <4>1. profiles[s] # NoValue /\ p = profiles[s]
        BY <1>7, <2>4, <3>6 DEF ViewOf, NewProfile
      <4>2. PICK d1 \in LoggedMs(s) : d1 <= p.average_ms
        BY <2>1, <3>6, <4>1 DEF AverageFor
      <4>3. PICK d2 \in LoggedMs(s) : p.average_ms <= d2
        BY <2>1, <3>6, <4>1 DEF AverageFor
      <4>4. PICK prev \in Nat : prev = p.average_ms
        BY <1>14, <3>6
      <4>5. PICK lo \in LoggedMs(s) : lo <= prev /\ lo <= e.ms
        <5>1. d1 \in Nat /\ d1 <= prev
          BY <3>4, <4>2, <4>4
        <5>2. CASE d1 <= e.ms
          BY <4>2, <5>1, <5>2
        <5>3. CASE e.ms < d1
          BY <3>2, <3>3, <4>4, <5>1, <5>3
        <5> QED  BY <3>2, <5>1, <5>2, <5>3
      <4>6. PICK hi \in LoggedMs(s) : prev <= hi /\ e.ms <= hi
        <5>1. d2 \in Nat /\ prev <= d2
          BY <3>4, <4>3, <4>4
        <5>2. CASE e.ms <= d2
          BY <4>3, <5>1, <5>2
        <5>3. CASE d2 < e.ms
          BY <3>2, <3>3, <4>4, <5>1, <5>3
        <5> QED  BY <3>2, <5>1, <5>2, <5>3
      <4>7. lo \in Nat /\ hi \in Nat
        BY <3>4, <4>5, <4>6
      <4>8. q.average_ms = (prev * p.successful + e.ms) \div (p.successful + 1)
        <5>1. (p.successful + 1) - 1 = p.successful
          BY <1>14
        <5> QED  BY <3>1, <3>6, <4>4, <5>1 DEF AverageU32
      <4>9. lo <= q.average_ms /\ q.average_ms <= hi
        BY <1>14, <3>2, <4>4, <4>5, <4>6, <4>7, <4>8, AverageBetween
      <4> QED  BY <1>11, <1>16, <2>4, <4>5, <4>6, <4>9 DEF AverageFor
    <3> QED  BY <3>5, <3>6
  <2> QED  BY <2>2, <2>3, <2>4
<1>18. AverageWithinRange' /\ ProfileMatchesLog'
  BY <1>15, <1>17 DEF AverageFor, AverageWithinRange, ProfileMatchesLog, MatchesFor, ViewOf
<1> QED
  BY <1>10, <1>11, <1>12, <1>13, <1>18 DEF RepInv

\* A request is dropped after it has logged.
LEMMA RepDrops ==
    ASSUME RepInv, NEW c \in Clients, RequestDropped(c)
    PROVE  RepInv'
<1>1. RepTyped /\ PendingLogged /\ AverageWithinRange /\ \A s \in Subjects : MatchesFor(s)
  BY MatchesEach DEF RepInv
<1>2. PICK r \in Record : r = request[c] /\ r # NoValue
  BY <1>1 DEF RepTyped, RequestDropped
<1>3. r.subject \in Subjects
  BY <1>2 DEF Record
<1>4. /\ dropped' = [dropped EXCEPT ![r.subject] = Append(dropped[r.subject], r)]
      /\ request' = [request EXCEPT ![c] = NoValue]
      /\ records' = records /\ profiles' = profiles
  BY <1>2 DEF RequestDropped
<1>5. RepTyped'
  BY <1>1, <1>2, <1>3, <1>4 DEF RepTyped
<1>6. PendingLogged'
  <2> SUFFICES ASSUME NEW k \in Clients, request'[k] # NoValue
               PROVE  \E i \in DOMAIN records'[request'[k].subject] :
                          records'[request'[k].subject][i] = request'[k]
    BY DEF PendingLogged
  <2>1. k # c /\ request'[k] = request[k]
    BY <1>1, <1>4 DEF RepTyped
  <2> QED  BY <1>1, <1>4, <2>1 DEF PendingLogged
<1>7. ASSUME NEW s \in Subjects PROVE MatchesFor(s)'
  <2>1. \A kind : /\ Cardinality(InFlight(s, kind))' \in Nat
                  /\ Cardinality(InFlight(s, kind)) =
                        Cardinality(InFlight(s, kind))' + One(r.subject = s /\ r.event.kind = kind)
    BY <1>1, <1>2, <1>4, FlightLeft
  <2>2. records[s] \in Seq(Record) /\ dropped[s] \in Seq(Record)
    BY <1>1 DEF RepTyped
  <2>3. \A kind : /\ CountIn(dropped[s], kind) \in Nat
                  /\ CountIn(dropped'[s], kind) =
                        CountIn(dropped[s], kind) + One(r.subject = s /\ r.event.kind = kind)
    <3>1. CASE s = r.subject
      <4>1. dropped'[s] = Append(dropped[s], r)
        BY <1>1, <1>3, <1>4, <3>1 DEF RepTyped
      <4> QED  BY <1>2, <2>2, <3>1, <4>1, CountAppend DEF One
    <3>2. CASE s # r.subject
      <4>1. dropped'[s] = dropped[s]
        BY <1>1, <1>3, <1>4, <3>2 DEF RepTyped
      <4>2. \A kind : CountIn(dropped[s], kind) \in Nat
        BY <1>2, <2>2, CountAppend
      <4> QED  BY <3>2, <4>1, <4>2 DEF One
    <3> QED  BY <3>1, <3>2
  <2>4. ViewOf(profiles[s]) \in Profile
    BY <1>1, FreshProfile DEF RepTyped, ViewOf
  <2>5. PICK v \in Profile : v = ViewOf(profiles[s]) /\ v = ViewOf(profiles[s])'
    BY <1>4, <2>4 DEF ViewOf
  <2>6. v.successful \in Nat /\ v.failed \in Nat
    BY <2>5 DEF Profile
  <2>7. MatchesFor(s) /\ records'[s] = records[s]
    BY <1>1, <1>4
  <2>8. One(r.subject = s /\ r.event.kind = Success) \in Nat
        /\ One(r.subject = s /\ r.event.kind = Failure) \in Nat
    BY DEF One
  <2>9. CountIn(records'[s], Success) = v.successful
           + Cardinality(InFlight(s, Success))' + CountIn(dropped'[s], Success)
    BY <2>1, <2>3, <2>5, <2>6, <2>7, <2>8 DEF MatchesFor
  <2>10. CountIn(records'[s], Failure) = v.failed
           + Cardinality(InFlight(s, Failure))' + CountIn(dropped'[s], Failure)
    BY <2>1, <2>3, <2>5, <2>6, <2>7, <2>8 DEF MatchesFor
  <2> QED  BY <2>5, <2>7, <2>9, <2>10 DEF MatchesFor
<1>8. AverageWithinRange'
  <2>1. ASSUME NEW s \in Subjects PROVE LoggedMs(s)' = LoggedMs(s)
    BY <1>4 DEF LoggedMs
  <2> QED  BY <1>1, <1>4, <2>1 DEF AverageWithinRange
<1>9. ProfileMatchesLog'
  BY <1>7 DEF ProfileMatchesLog, MatchesFor, ViewOf
<1> QED
  BY <1>5, <1>6, <1>8, <1>9 DEF RepInv

-----------------------------------------------------------------------------

\* The events of a kind among the first m.
Prefix(s, kind, m) == {i \in 1..m : s[i].event.kind = kind}

\* A weight by the kind of the event.
LEMMA WeightIs ==
    ASSUME NEW e
    PROVE  /\ Weight(e) \in Int
           /\ Weight(e) = 10 * One(e.kind = Success) - 15 * One(e.kind = Failure)
  BY DEF Weight, One, Success, Failure

\* The recursive definition of the points of a history can be unfolded.
LEMMA ScoreUnfolds ==
    ASSUME NEW s \in Seq(Record)
    PROVE  /\ ScoreAfter(s)[0] = 50
           /\ \A i \in 1..Len(s) :
                 ScoreAfter(s)[i] = Clamp(ScoreAfter(s)[i - 1] + Weight(s[i].event), 0, 100)
           /\ \A i \in 0..Len(s) : ScoreAfter(s)[i] \in 0..100
<1> DEFINE n == Len(s)
           Body(A) == [i \in 0..n |-> IF i = 0 THEN 50 ELSE Clamp(A[i - 1] + Weight(s[i].event), 0, 100)]
           step == [i \in 1..n |-> [v \in Int |-> Clamp(v + Weight(s[i].event), 0, 100)]]
<1>0. n \in Nat
  OBVIOUS
<1>1. ASSUME NEW i \in 1..n, NEW v \in Int
      PROVE  /\ step[i][v] = Clamp(v + Weight(s[i].event), 0, 100)
             /\ Clamp(v + Weight(s[i].event), 0, 100) \in 0..100
  <2>1. v + Weight(s[i].event) \in Int
    BY WeightIs
  <2>2. Clamp(v + Weight(s[i].event), 0, 100) \in 0..100
    <3>1. \A x \in Int : Clamp(x, 0, 100) \in 0..100
      BY DEF Clamp
    <3> QED  BY <2>1, <3>1
  <2>3. step[i][v] = Clamp(v + Weight(s[i].event), 0, 100)
    OBVIOUS
  <2> QED  BY <2>2, <2>3
<1>2. ASSUME NEW i \in 1..n, NEW v \in Int PROVE step[i][v] \in Int
  <2>1. PICK x \in 0..100 : x = step[i][v]
    BY <1>1
  <2> QED  BY <2>1
<1>3. PICK h \in [0..n -> Int] : \A i \in 0..n : h[i] = IF i = 0 THEN 50 ELSE step[i][h[i - 1]]
  <2> DEFINE V == Int
             base == 50
  <2>1. base \in V /\ \A i \in 1..n : \A v \in V : step[i][v] \in V
    BY <1>2
  <2> HIDE DEF step, n, V, base
  <2>2. \E h \in [0..n -> V] : RecursesOn(h, n, base, step)
    BY <1>0, <2>1, RecursionOnNumbers
  <2> QED  BY <2>2 DEF V, base, RecursesOn
<1>4. h = Body(h)
  <2>1. ASSUME NEW i \in 0..n PROVE h[i] = Body(h)[i]
    <3>1. CASE i = 0
      BY <1>3, <3>1
    <3>2. CASE i # 0
      <4>1. i \in 1..n /\ i - 1 \in 0..n
        BY <3>2
      <4>2. h[i - 1] \in Int
        BY <1>3, <4>1
      <4>3. step[i][h[i - 1]] = Clamp(h[i - 1] + Weight(s[i].event), 0, 100)
        BY <1>1, <4>1, <4>2
      <4> HIDE DEF step
      <4> QED  BY <1>3, <3>2, <4>3
    <3> QED  BY <3>1, <3>2
  <2>2. h = [i \in 0..n |-> h[i]]
    BY <1>3
  <2> QED  BY <2>1, <2>2
<1>5. ScoreAfter(s) = CHOOSE A : A = Body(A)
  BY DEF ScoreAfter
<1>6. PICK A : A = Body(A) /\ A = ScoreAfter(s)
  <2> HIDE DEF Body
  <2> QED  BY <1>4, <1>5
<1>7. A[0] = 50 /\ \A i \in 1..n : A[i] = Clamp(A[i - 1] + Weight(s[i].event), 0, 100)
  <2> HIDE DEF n
  <2> QED  BY <1>0, <1>6
<1> DEFINE T == {m \in Nat : m <= n => A[m] \in 0..100}
<1>8. 0 \in T
  BY <1>7
<1>9. ASSUME NEW m \in Nat, m \in T PROVE m + 1 \in T
  <2> SUFFICES ASSUME m + 1 <= n PROVE A[m + 1] \in 0..100
    OBVIOUS
  <2>0. m <= n
    BY <1>0
  <2>1. m + 1 \in 1..n /\ (m + 1) - 1 = m /\ A[m] \in 0..100
    BY <1>0, <1>9, <2>0
  <2>2. A[m + 1] = Clamp(A[m] + Weight(s[m + 1].event), 0, 100)
    BY <1>7, <2>1
  <2>3. A[m] \in Int
    <3>1. \A x \in 0..100 : x \in Int
      OBVIOUS
    <3> HIDE DEF n
    <3> QED  BY <2>1, <3>1
  <2> QED  BY <1>1, <2>1, <2>2, <2>3
<1>10. Nat \subseteq T
  <2> HIDE DEF T
  <2> QED  BY <1>8, <1>9, NumberInduction
<1>11. \A i \in 0..n : A[i] \in 0..100
  BY <1>0, <1>10
<1> QED
  BY <1>6, <1>7, <1>11

\* As long as no point was clamped, a point is the base score and the weights
\* of the records so far.
LEMMA UnclampedSum ==
    ASSUME NEW s \in Seq(Record),
           \A i \in 1..Len(s) : ScoreAfter(s)[i] \notin {0, 100}
    PROVE  ScoreAfter(s)[Len(s)] = 50 + 10 * CountIn(s, Success) - 15 * CountIn(s, Failure)
<1> DEFINE n == Len(s)
           A == ScoreAfter(s)
           Sum(m) == 50 + 10 * Cardinality(Prefix(s, Success, m)) - 15 * Cardinality(Prefix(s, Failure, m))
           T == {m \in Nat : m <= n => A[m] = Sum(m)}
<1>0. n \in Nat
  OBVIOUS
<1>1. ASSUME NEW m \in Nat, NEW kind
      PROVE  /\ IsFiniteSet(Prefix(s, kind, m)) /\ Cardinality(Prefix(s, kind, m)) \in Nat
             /\ Cardinality(Prefix(s, kind, m + 1)) =
                    Cardinality(Prefix(s, kind, m)) + One(s[m + 1].event.kind = kind)
  <2>1. IsFiniteSet(1..m) /\ Prefix(s, kind, m) \subseteq 1..m
    BY FS_Interval DEF Prefix
  <2>2. IsFiniteSet(Prefix(s, kind, m)) /\ Cardinality(Prefix(s, kind, m)) \in Nat
    BY <2>1, FS_Subset, FS_CardinalityType
  <2>3. m + 1 \notin Prefix(s, kind, m)
    BY DEF Prefix
  <2>4. CASE s[m + 1].event.kind = kind
    <3>1. Prefix(s, kind, m + 1) = Prefix(s, kind, m) \cup {m + 1}
      BY <2>4 DEF Prefix
    <3>2. Cardinality(Prefix(s, kind, m) \cup {m + 1}) = Cardinality(Prefix(s, kind, m)) + 1
      BY <2>2, <2>3, FS_AddElement
    <3> QED  BY <2>2, <2>4, <3>1, <3>2 DEF One
  <2>5. CASE s[m + 1].event.kind # kind
    <3>1. Prefix(s, kind, m + 1) = Prefix(s, kind, m)
      BY <2>5 DEF Prefix
    <3> QED  BY <2>2, <2>5, <3>1 DEF One
  <2> QED  BY <2>4, <2>5
<1>2. 0 \in T
  <2>1. \A kind : Prefix(s, kind, 0) = {}
    BY DEF Prefix
  <2>2. Cardinality({}) = 0
    BY FS_EmptySet
  <2>3. A[0] = 50
    BY ScoreUnfolds
  <2> HIDE DEF A
  <2>5. Cardinality(Prefix(s, Success, 0)) = 0 /\ Cardinality(Prefix(s, Failure, 0)) = 0
    BY <2>1, <2>2
  <2>4. Sum(0) = 50
    BY <2>5
  <2> HIDE DEF Sum
  <2> QED  BY <2>3, <2>4
<1>3. ASSUME NEW m \in Nat, m \in T PROVE m + 1 \in T
  <2> SUFFICES ASSUME m + 1 <= n PROVE A[m + 1] = Sum(m + 1)
    OBVIOUS
  <2>1. m + 1 \in 1..n /\ (m + 1) - 1 = m /\ m <= n /\ m \in 0..n
    BY <1>0
  <2>2. A[m] = Sum(m)
    BY <1>3, <2>1
  <2>3. A[m + 1] = Clamp(A[m] + Weight(s[m + 1].event), 0, 100) /\ A[m] \in Int
    <3>1. A[m + 1] = Clamp(A[(m + 1) - 1] + Weight(s[m + 1].event), 0, 100)
      BY <2>1, ScoreUnfolds
    <3>2. A[m] \in 0..100
      BY <2>1, ScoreUnfolds
    <3>3. \A x \in 0..100 : x \in Int
      OBVIOUS
    <3> HIDE DEF A, n
    <3> QED  BY <2>1, <3>1, <3>2, <3>3
  <2>4. A[m + 1] \notin {0, 100}
    BY <2>1
  <2> HIDE DEF A
  <2>5. A[m] + Weight(s[m + 1].event) \in Int
    BY <2>3, WeightIs
  <2>6. A[m + 1] = A[m] + Weight(s[m + 1].event)
    <3>1. PICK x \in Int : x = A[m] + Weight(s[m + 1].event)
      BY <2>5
    <3>2. Clamp(x, 0, 100) \notin {0, 100} => Clamp(x, 0, 100) = x
      BY <3>1, Clamped
    <3> QED  BY <2>3, <2>4, <3>1, <3>2
  <2> DEFINE a == Cardinality(Prefix(s, Success, m))
             b == Cardinality(Prefix(s, Failure, m))
             c == One(s[m + 1].event.kind = Success)
             d == One(s[m + 1].event.kind = Failure)
  <2>7. a \in Nat /\ b \in Nat /\ c \in Nat /\ d \in Nat
    BY <1>1 DEF One
  <2>8. Cardinality(Prefix(s, Success, m + 1)) = a + c /\ Cardinality(Prefix(s, Failure, m + 1)) = b + d
    BY <1>1
  <2>9. Weight(s[m + 1].event) = 10 * c - 15 * d
    BY WeightIs
  <2>10. A[m] = 50 + 10 * a - 15 * b
    BY <2>2
  <2>11. Sum(m + 1) = 50 + 10 * (a + c) - 15 * (b + d)
    BY <2>8
  <2> HIDE DEF a, b, c, d, Sum
  <2> QED  BY <2>6, <2>7, <2>9, <2>10, <2>11
<1>4. Nat \subseteq T
  <2> HIDE DEF T
  <2> QED  BY <1>2, <1>3, NumberInduction
<1>5. A[n] = Sum(n)
  BY <1>0, <1>4
<1>6. \A kind : Prefix(s, kind, n) = {i \in DOMAIN s : s[i].event.kind = kind}
  BY DEF Prefix
<1> QED
  BY <1>5, <1>6 DEF CountIn

\* The records that come before the i-th in a stable sort by issue time.
Earlier(s, i) ==
    {k \in DOMAIN s : \/ s[k].issued_at < s[i].issued_at
                      \/ s[k].issued_at = s[i].issued_at /\ k <= i}

\* Every record has a place of its own.
LEMMA PlacesDiffer ==
    ASSUME NEW s \in Seq(Record)
    PROVE  /\ \A i \in DOMAIN s : Place(s, i) \in DOMAIN s
           /\ \A i, k \in DOMAIN s : Place(s, i) = Place(s, k) => i = k
<1>1. DOMAIN s = 1..Len(s) /\ Len(s) \in Nat /\ IsFiniteSet(DOMAIN s) /\ Cardinality(DOMAIN s) = Len(s)
  <2>1. DOMAIN s = 1..Len(s) /\ Len(s) \in Nat
    OBVIOUS
  <2>2. IsFiniteSet(1..Len(s)) /\ Cardinality(1..Len(s)) = Len(s)
    <3> DEFINE n == Len(s)
    <3>1. n \in Nat
      OBVIOUS
    <3> HIDE DEF n
    <3>2. IsFiniteSet(1..n) /\ Cardinality(1..n) = IF 1 > n THEN 0 ELSE n - 1 + 1
      BY <3>1, FS_Interval
    <3>3. Cardinality(1..n) = n
      BY <3>1, <3>2
    <3> QED  BY <3>2, <3>3 DEF n
  <2> QED  BY <2>1, <2>2
<1>2. ASSUME NEW i \in DOMAIN s PROVE s[i].issued_at \in Nat
  <2>1. s[i] \in Record
    OBVIOUS
  <2>2. s[i].issued_at \in Stamps
    BY <2>1 DEF Record
  <2> QED  BY <2>2, ReputationAssumption
<1>3. ASSUME NEW i \in DOMAIN s
      PROVE  /\ Place(s, i) = Cardinality(Earlier(s, i)) /\ i \in Earlier(s, i)
             /\ IsFiniteSet(Earlier(s, i)) /\ Place(s, i) \in DOMAIN s
  <2>1. Place(s, i) = Cardinality(Earlier(s, i))
    BY DEF Place, Earlier
  <2>2. Earlier(s, i) \subseteq DOMAIN s /\ i \in Earlier(s, i)
    BY <1>1 DEF Earlier
  <2>3. IsFiniteSet(Earlier(s, i)) /\ Cardinality(Earlier(s, i)) <= Len(s)
    BY <1>1, <2>2, FS_Subset
  <2>4. Cardinality(Earlier(s, i)) \in Nat /\ Cardinality(Earlier(s, i)) # 0
    BY <2>2, <2>3, FS_CardinalityType, FS_EmptySet
  <2> QED  BY <1>1, <2>1, <2>2, <2>3, <2>4
<1>4. ASSUME NEW i \in DOMAIN s, NEW k \in DOMAIN s, i # k, i \in Earlier(s, k)
      PROVE  Place(s, i) # Place(s, k)
  <2>1. k \notin Earlier(s, i)
    BY <1>1, <1>2, <1>4 DEF Earlier
  <2>2. Earlier(s, i) \subseteq Earlier(s, k)
    <3> SUFFICES ASSUME NEW j \in DOMAIN s, j \in Earlier(s, i) PROVE j \in Earlier(s, k)
      BY DEF Earlier
    <3>1. j \in Int /\ i \in Int /\ k \in Int
      BY <1>1
    <3>2. s[j].issued_at \in Nat /\ s[i].issued_at \in Nat /\ s[k].issued_at \in Nat
      BY <1>2
    <3> QED  BY <1>4, <3>1, <3>2 DEF Earlier
  <2>3. k \in Earlier(s, k) /\ IsFiniteSet(Earlier(s, k))
    BY <1>3
  <2>4. Earlier(s, i) # Earlier(s, k)
    BY <2>1, <2>3
  <2>5. Cardinality(Earlier(s, i)) # Cardinality(Earlier(s, k))
    BY <2>2, <2>3, <2>4, FS_Subset
  <2> QED  BY <1>3, <2>5
<1>5. ASSUME NEW i \in DOMAIN s, NEW k \in DOMAIN s, i # k
      PROVE  i \in Earlier(s, k) \/ k \in Earlier(s, i)
  BY <1>1, <1>2 DEF Earlier
<1> QED
  BY <1>3, <1>4, <1>5

\* Sorting moves the records and keeps them all.
LEMMA SortedCounts ==
    ASSUME NEW s \in Seq(Record)
    PROVE  /\ ByIssueTime(s) \in Seq(Record) /\ Len(ByIssueTime(s)) = Len(s)
           /\ \A kind : CountIn(ByIssueTime(s), kind) = CountIn(s, kind)
<1> DEFINE D == DOMAIN s
           f == [i \in D |-> Place(s, i)]
           g == [k \in D |-> CHOOSE i \in D : Place(s, i) = k]
           R == {f[i] : i \in D}
<1>1. D = 1..Len(s) /\ Len(s) \in Nat /\ IsFiniteSet(D)
  <2>1. D = 1..Len(s) /\ Len(s) \in Nat
    OBVIOUS
  <2> QED  BY <2>1, FS_Interval
<1>2. R = D
  <2>1. \A i \in D : f[i] \in D
    BY PlacesDiffer
  <2>2. \A i, k \in D : f[i] = f[k] => i = k
    BY PlacesDiffer
  <2>3. Cardinality(R) = Cardinality(D)
    <3> HIDE DEF f, D
    <3> QED  BY <1>1, <2>2, DistinctValues
  <2>4. R \subseteq D
    BY <2>1
  <2> HIDE DEF R, D
  <2> QED  BY <1>1, <2>3, <2>4, FS_Subset
<1>3. ASSUME NEW k \in D PROVE g[k] \in D /\ Place(s, g[k]) = k
  <2>1. k \in R
    BY <1>2
  <2>2. \E i \in D : Place(s, i) = k
    BY <2>1
  <2> QED  BY <2>2
<1>4. ByIssueTime(s) = [k \in D |-> s[g[k]]]
  BY DEF ByIssueTime
<1>5. PICK q : q = ByIssueTime(s) /\ q = [k \in D |-> s[g[k]]]
  BY <1>4
<1>6. ASSUME NEW k \in D PROVE q[k] = s[g[k]] /\ q[k] \in Record
  <2>1. q[k] = s[g[k]]
    BY <1>5
  <2> HIDE DEF g
  <2> QED  BY <1>3, <2>1
<1>7. q \in Seq(Record) /\ Len(q) = Len(s) /\ DOMAIN q = D
  <2>1. q \in [1..Len(s) -> Record]
    <3> HIDE DEF g, D
    <3> QED  BY <1>1, <1>5, <1>6
  <2>2. \A n \in Nat : \A z \in [1..n -> Record] : z \in Seq(Record) /\ Len(z) = n
    OBVIOUS
  <2> HIDE DEF g, D
  <2> QED  BY <1>1, <2>1, <2>2
<1>8. ASSUME NEW kind PROVE CountIn(q, kind) = CountIn(s, kind)
  <2> DEFINE P == {k \in D : q[k].event.kind = kind}
             Q == {i \in D : s[i].event.kind = kind}
             I == {g[k] : k \in P}
  <2>1. \A k, j \in P : g[k] = g[j] => k = j
    <3> HIDE DEF g
    <3> QED  BY <1>3
  <2>2. IsFiniteSet(P)
    <3>1. P \subseteq D
      OBVIOUS
    <3> HIDE DEF P, D
    <3> QED  BY <1>1, <3>1, FS_Subset
  <2>3. Cardinality(I) = Cardinality(P)
    <3> HIDE DEF P, g
    <3> QED  BY <2>1, <2>2, DistinctValues
  <2>4. I = Q
    <3>1. I \subseteq Q
      <4> HIDE DEF g
      <4> QED  BY <1>3, <1>6
    <3>2. ASSUME NEW i \in Q PROVE i \in I
      <4>1. i \in D /\ Place(s, i) \in D
        BY PlacesDiffer
      <4> DEFINE k == Place(s, i)
      <4>2. g[k] \in D /\ Place(s, g[k]) = k
        <5> HIDE DEF g, k
        <5> QED  BY <1>3, <4>1 DEF k
      <4>3. g[k] = i
        <5> HIDE DEF g
        <5> QED  BY <4>1, <4>2, PlacesDiffer
      <4>4. k \in D /\ q[k] = s[i]
        <5> HIDE DEF g
        <5> QED  BY <1>6, <4>1, <4>3
      <4>5. k \in P
        <5> HIDE DEF k
        <5> QED  BY <4>4
      <4> HIDE DEF g, k, P
      <4> QED  BY <4>3, <4>5
    <3> QED  BY <3>1, <3>2
  <2>5. CountIn(q, kind) = Cardinality(P) /\ CountIn(s, kind) = Cardinality(Q)
    BY <1>7 DEF CountIn
  <2> QED  BY <2>3, <2>4, <2>5
<1> QED
  BY <1>5, <1>7, <1>8

\* The history and the summary agree for every log.
LEMMA HistoryOfLog ==
    ASSUME RepTyped
    PROVE  HistoryAgrees
<1> SUFFICES ASSUME NEW s \in Subjects
             PROVE  /\ Len(History(s)) = Len(records[s])
                    /\ \A i \in DOMAIN History(s) : History(s)[i] \in 0..100
                    /\ (/\ History(s) # <<>>
                        /\ \A i \in DOMAIN History(s) : History(s)[i] \notin {0, 100})
                          => History(s)[Len(History(s))] = SummaryScore(s)
  BY DEF HistoryAgrees
<1>1. PICK z \in Seq(Record) : z = records[s]
  BY DEF RepTyped
<1>2. PICK q \in Seq(Record) : /\ q = ByIssueTime(z) /\ Len(q) = Len(z)
                               /\ \A kind : CountIn(q, kind) = CountIn(z, kind)
  BY <1>1, SortedCounts
<1>3. PICK A : A = ScoreAfter(q)
  OBVIOUS
<1>4. PICK h : h = History(s) /\ h = [i \in DOMAIN q |-> A[i]]
  BY <1>1, <1>2, <1>3 DEF History
<1>5. PICK n \in Nat : n = Len(q) /\ DOMAIN q = 1..n
  BY <1>2
<1>6. \A i \in 0..n : A[i] \in 0..100
  BY <1>2, <1>3, <1>5, ScoreUnfolds
<1>7. \A i \in 1..n : h[i] = A[i] /\ h[i] \in 0..100
  BY <1>4, <1>5, <1>6
<1>8. h \in [1..n -> 0..100]
  BY <1>4, <1>5, <1>7
<1>9. h \in Seq(0..100) /\ Len(h) = n /\ DOMAIN h = 1..n
  <2> DEFINE V == 0..100
  <2>1. h \in [1..n -> V]
    BY <1>8
  <2> HIDE DEF V
  <2>2. h \in Seq(V) /\ Len(h) = n /\ DOMAIN h = 1..n
    BY <1>5, <2>1
  <2> QED  BY <2>2 DEF V
<1>10. ASSUME h # <<>>, \A i \in 1..n : h[i] \notin {0, 100}
       PROVE  h[n] = SummaryScore(s)
  <2>1. n # 0 /\ n \in 1..n
    BY <1>5, <1>9, <1>10
  <2>2. \A i \in 1..Len(q) : ScoreAfter(q)[i] \notin {0, 100}
    BY <1>3, <1>5, <1>7, <1>10
  <2>3. A[n] = 50 + 10 * CountIn(q, Success) - 15 * CountIn(q, Failure)
    BY <1>2, <1>3, <1>5, <2>2, UnclampedSum
  <2>4. PICK x : x = 50 + 10 * CountIn(z, Success) - 15 * CountIn(z, Failure) /\ x = A[n]
    BY <1>2, <2>3
  <2>5. h[n] = x /\ x \in 0..100
    BY <1>7, <2>1, <2>4
  <2>6. Clamp(x, 0, 100) = x
    BY <2>5 DEF Clamp
  <2>7. SummaryScore(s) = Clamp(x, 0, 100)
    BY <1>1, <2>4 DEF SummaryScore
  <2> QED  BY <2>5, <2>6, <2>7
<1> QED
  BY <1>1, <1>2, <1>4, <1>5, <1>7, <1>9, <1>10

\* The views agree wherever the invariant holds; the history needs no more than the types.
LEMMA RepInvSound == RepInv => ReputationSound
<1> SUFFICES ASSUME RepInv PROVE ReputationSound
  OBVIOUS
<1>1. RepTypeOK
  <2>1. ASSUME NEW v \in Profile PROVE v.score \in 0 .. TopScore /\ v.average_ms \in Nat \cup {NoValue}
    BY DEF Profile
  <2> QED  BY <2>1 DEF RepInv, RepTyped, RepTypeOK
<1>2. HistoryAgrees
  BY HistoryOfLog DEF RepInv
<1> QED  BY <1>1, <1>2 DEF RepInv, ReputationSound

-----------------------------------------------------------------------------
(* The selection of an executor.                                            *)

\* The fields of a selection under way.
SelFields == {"pc", "job", "list", "i", "kept", "best", "scores", "unknown", "age", "cache"}

\* A selection in progress.
SelTyped(c) ==
    /\ DOMAIN c = SelFields
    /\ c.pc \in {"filter", "score", "conclude"}
    /\ c.job \in MeshJobs
    /\ c.list \in Seq(Subjects) /\ c.kept \in Seq(Subjects) /\ c.i \in Nat
    /\ c.scores \in Seq(Int) /\ c.unknown \in BOOLEAN /\ c.age \in Nat
    /\ c.pc \in {"filter", "score"} => c.i \in 1..Len(c.list)

\* Entries of a request's cache.
Entry == [profile : Profile, at : Nat, asof : Nat]

\* A cached profile was read at most a request before it arrived, and belongs
\* to a subject that the service knows.
EntryOk(c, s) ==
    c.cache[s] # NoValue => /\ c.cache[s].asof <= c.cache[s].at /\ c.cache[s].at <= now
                            /\ c.cache[s].at - c.cache[s].asof <= HttpTimeout
                            /\ profiles[s] # NoValue

\* The cache.
CacheOk(c) ==
    /\ c.cache \in [Subjects -> Entry \cup {NoValue}]
    /\ \A s \in Subjects : EntryOk(c, s)

\* No answer that a selection used is older than the TTL and the timeout.
Recent(c) == c.age = 0 \/ c.age < TTL + HttpTimeout

\* Whom the service knows it never forgets.
KnownIn(list) == \A k \in DOMAIN list : profiles[list[k]] # NoValue

\* The job's policy chooses by score.
Scores(j) == Policy[j].strategy # "LowestPrice"

\* A selection that filters has scored nobody yet and keeps bidders that are known.
AtFilter(c) ==
    c.pc = "filter" => /\ c.best = NoValue /\ c.scores = <<>> /\ HasMinimum(c.job)
                       /\ KnownIn(c.kept)

\* A selection that scores has a score for each bidder before the one at hand; with a
\* minimum it scores known bidders only.
AtScore(c) ==
    c.pc = "score" => /\ Scores(c.job) /\ Len(c.scores) = c.i - 1
                      /\ HasMinimum(c.job) => KnownIn(c.list)

\* The best so far is the first among the best scores, none of them negative.
IsFirstBest(c, i) ==
    /\ c.best = [bidder |-> c.list[i], score |-> c.scores[i]]
    /\ c.scores[i] >= 0
    /\ \A k \in DOMAIN c.scores :
           c.scores[k] < c.scores[i] \/ (c.scores[k] = c.scores[i] /\ i <= k)

\* The best is the first of the highest scores.
BestSoFar(c) ==
    /\ c.best = NoValue => \A k \in DOMAIN c.scores : c.scores[k] < 0
    /\ c.best # NoValue => \E i \in DOMAIN c.scores : IsFirstBest(c, i)

\* What holds of a selection, wherever it is.
SelOk(c) ==
    /\ SelTyped(c) /\ CacheOk(c) /\ Recent(c) /\ AtFilter(c) /\ AtScore(c)
    /\ Scores(c.job) => BestSoFar(c)
    /\ HasMinimum(c.job) => c.unknown = FALSE
    /\ RequiredMana[c.job] # NoValue /\ Scores(c.job) => c.best = NoValue

\* Two selections differ in these fields only.
SameJob(c, d) ==
    /\ DOMAIN d = SelFields
    /\ d.job = c.job /\ d.cache = c.cache /\ d.unknown = c.unknown /\ d.age = c.age

\* The fields after each kind of step.
LEMMA ConcludeFields ==
    ASSUME NEW c, DOMAIN c = SelFields, NEW b, NEW d, d = Conclude(c, b)
    PROVE  /\ SameJob(c, d) /\ d.pc = "conclude" /\ d.best = b /\ d.list = c.list /\ d.i = c.i
           /\ d.kept = c.kept /\ d.scores = c.scores
  BY DEF Conclude, SelFields, SameJob

LEMMA ScoringFields ==
    ASSUME NEW c, DOMAIN c = SelFields, NEW list, NEW d, d = Scoring(c, list)
    PROVE  /\ SameJob(c, d) /\ d.pc = "score" /\ d.best = c.best /\ d.list = list /\ d.i = 1
           /\ d.kept = c.kept /\ d.scores = c.scores
  BY DEF Scoring, SelFields, SameJob

LEMMA AgedFields ==
    ASSUME NEW c, DOMAIN c = SelFields, NEW asof, NEW d, d = Aged(c, asof)
    PROVE  /\ DOMAIN d = SelFields /\ d.job = c.job /\ d.cache = c.cache /\ d.unknown = c.unknown
           /\ d.pc = c.pc /\ d.best = c.best /\ d.list = c.list /\ d.i = c.i
           /\ d.kept = c.kept /\ d.scores = c.scores
           /\ d.age = IF now - asof > c.age THEN now - asof ELSE c.age
  BY DEF Aged, SelFields

\* Selections with the same cache are right about it alike.
LEMMA CacheSame == ASSUME NEW c, NEW d, CacheOk(c), d.cache = c.cache PROVE CacheOk(d)
  BY DEF CacheOk, EntryOk

\* A choice that ends.
LEMMA ConcludeOk ==
    ASSUME NEW c, SelOk(c), NEW b, Scores(c.job) => b = c.best
    PROVE  SelOk(Conclude(c, b))
<1>1. PICK d : d = Conclude(c, b)
  OBVIOUS
<1>2. DOMAIN c = SelFields
  BY DEF SelOk, SelTyped
<1>3. /\ SameJob(c, d) /\ d.pc = "conclude" /\ d.best = b /\ d.list = c.list /\ d.i = c.i
      /\ d.kept = c.kept /\ d.scores = c.scores
  BY <1>1, <1>2, ConcludeFields
<1>4. SelTyped(d)
  BY <1>3 DEF SelOk, SelTyped, SameJob
<1>5. Recent(d) /\ AtFilter(d) /\ AtScore(d)
  BY <1>3 DEF SelOk, Recent, AtFilter, AtScore, SameJob
<1>6. Scores(d.job) => BestSoFar(d)
  BY <1>3 DEF SelOk, BestSoFar, IsFirstBest, SameJob
<1>7. HasMinimum(d.job) => d.unknown = FALSE
  BY <1>3 DEF SelOk, SameJob
<1>8. RequiredMana[d.job] # NoValue /\ Scores(d.job) => d.best = NoValue
  BY <1>3 DEF SelOk, SameJob
<1>9. CacheOk(d)
  BY <1>3, CacheSame DEF SelOk, SameJob
<1> QED
  BY <1>1, <1>4, <1>5, <1>6, <1>7, <1>8, <1>9 DEF SelOk

\* Scoring begins.
LEMMA ScoringOk ==
    ASSUME NEW c, SelOk(c), Scores(c.job), c.best = NoValue, c.scores = <<>>,
           NEW list \in Seq(Subjects), list # <<>>, HasMinimum(c.job) => KnownIn(list)
    PROVE  SelOk(Scoring(c, list))
<1>1. PICK d : d = Scoring(c, list)
  OBVIOUS
<1>2. DOMAIN c = SelFields
  BY DEF SelOk, SelTyped
<1>3. /\ SameJob(c, d) /\ d.pc = "score" /\ d.best = c.best /\ d.list = list /\ d.i = 1
      /\ d.kept = c.kept /\ d.scores = c.scores
  BY <1>1, <1>2, ScoringFields
<1>4. 1 \in 1..Len(list)
  OBVIOUS
<1>5. SelTyped(d)
  BY <1>3, <1>4 DEF SelOk, SelTyped, SameJob
<1>6. Recent(d) /\ AtFilter(d)
  BY <1>3 DEF SelOk, Recent, AtFilter, SameJob
<1>7. AtScore(d)
  <2>1. Len(<<>>) = 1 - 1
    OBVIOUS
  <2> QED  BY <1>3, <2>1 DEF AtScore, SameJob
<1>8. BestSoFar(d)
  BY <1>3 DEF BestSoFar
<1>9. HasMinimum(d.job) => d.unknown = FALSE
  BY <1>3 DEF SelOk, SameJob
<1>10. CacheOk(d)
  BY <1>3, CacheSame DEF SelOk, SameJob
<1>11. d.best = NoValue
  BY <1>3
<1> QED  BY <1>1, <1>5, <1>6, <1>7, <1>8, <1>9, <1>10, <1>11 DEF SelOk

\* A profile that was looked up is recent.
LEMMA AgedOk ==
    ASSUME NEW c, SelOk(c), now \in Nat, NEW asof \in Nat, asof <= now,
           now - asof < TTL + HttpTimeout
    PROVE  /\ SelOk(Aged(c, asof)) /\ Aged(c, asof).pc = c.pc
           /\ Aged(c, asof).list = c.list /\ Aged(c, asof).i = c.i
           /\ Aged(c, asof).job = c.job
<1>1. PICK d : d = Aged(c, asof)
  OBVIOUS
<1>2. DOMAIN c = SelFields
  BY DEF SelOk, SelTyped
<1>3. /\ DOMAIN d = SelFields /\ d.job = c.job /\ d.cache = c.cache /\ d.unknown = c.unknown
      /\ d.pc = c.pc /\ d.best = c.best /\ d.list = c.list /\ d.i = c.i
      /\ d.kept = c.kept /\ d.scores = c.scores
      /\ d.age = IF now - asof > c.age THEN now - asof ELSE c.age
  BY <1>1, <1>2, AgedFields
<1>4. c.age \in Nat /\ (c.age = 0 \/ c.age < TTL + HttpTimeout)
  BY DEF SelOk, SelTyped, Recent
<1>5. d.age \in Nat /\ (d.age = 0 \/ d.age < TTL + HttpTimeout)
  BY <1>3, <1>4, SelectionAssumption
<1>6. SelTyped(d)
  BY <1>3, <1>5 DEF SelOk, SelTyped
<1>7. AtFilter(d) /\ AtScore(d)
  BY <1>3 DEF SelOk, AtFilter, AtScore
<1>8. Scores(d.job) => BestSoFar(d)
  BY <1>3 DEF SelOk, BestSoFar, IsFirstBest
<1>9. HasMinimum(d.job) => d.unknown = FALSE
  BY <1>3 DEF SelOk
<1>10. RequiredMana[d.job] # NoValue /\ Scores(d.job) => d.best = NoValue
  BY <1>3 DEF SelOk
<1>11. CacheOk(d)
  BY <1>3, CacheSame DEF SelOk
<1> QED
  BY <1>1, <1>3, <1>5, <1>6, <1>7, <1>8, <1>9, <1>10, <1>11 DEF SelOk, Recent

\* Scores are integers.
LEMMA ScoresAreInt ==
    ASSUME NEW p \in Profile \cup {DefaultProfile}, NEW list \in Seq(Subjects), NEW i \in DOMAIN list,
           NEW j \in MeshJobs
    PROVE  BidScore(BidWeights(j), p, Normalized(list, list[i]), ResourceMatch(Offer[list[i]], Need[j])) \in Int
<1>1. PICK s \in Subjects : s = list[i]
  OBVIOUS
<1>2. /\ p.score \in Nat /\ p.successful \in Nat /\ p.on_time \in Nat
  <2>1. CASE p \in Profile
    BY <2>1, TopIsNat DEF Profile
  <2>2. CASE p = DefaultProfile
    BY <2>2 DEF DefaultProfile, NewProfile
  <2> QED  BY <2>1, <2>2
<1>3. PICK w : w = BidWeights(j)
  OBVIOUS
<1>4. w.price \in Int /\ w.resources \in Int /\ w.reputation \in Int /\ w.timeliness \in Int
  <2>1. PICK x \in Nat, y \in Nat : x = Policy[j].price /\ y = Policy[j].rep
    BY SelectionAssumption
  <2>2. PICK rest : rest = IF x + y < 100 THEN (100 - x - y) \div 2 ELSE 0
    OBVIOUS
  <2>3. rest \in Int
    BY <2>1, <2>2
  <2>4. CASE Policy[j].strategy = "Hybrid"
    <3>1. w = [price |-> x, resources |-> rest, reputation |-> y, timeliness |-> rest]
      BY <1>3, <2>1, <2>2, <2>4 DEF BidWeights
    <3> QED  BY <2>1, <2>3, <3>1
  <2>5. CASE Policy[j].strategy # "Hybrid"
    <3>1. w = [price |-> 40, resources |-> 20, reputation |-> 30, timeliness |-> 10]
      BY <1>3, <2>5 DEF BidWeights
    <3> QED  BY <3>1
  <2> QED  BY <2>4, <2>5
<1>5. Normalized(list, s) \in Int
  <2> DEFINE S == {Price[list[k]] : k \in DOMAIN list}
  <2>1. S \subseteq Int /\ S # {}
    BY SelectionAssumption
  <2>2. IsFiniteSet(S)
    <3>1. IsFiniteSet(DOMAIN list)
      <4>1. DOMAIN list = 1..Len(list) /\ Len(list) \in Nat
        OBVIOUS
      <4> QED  BY <4>1, FS_Interval
    <3> DEFINE f == [k \in DOMAIN list |-> Price[list[k]]]
    <3>2. S = {f[k] : k \in DOMAIN list}
      OBVIOUS
    <3>3. f \in Surjection(DOMAIN list, S)
      BY <3>2 DEF Surjection
    <3>4. PICK D : D = DOMAIN list
      OBVIOUS
    <3>5. f \in Surjection(D, S) /\ IsFiniteSet(D)
      BY <3>1, <3>3, <3>4
    <3> HIDE DEF f, S
    <3> QED  BY <3>5, FS_Surjection
  <2>3. Max(S) \in S
    <3> HIDE DEF S
    <3> QED  BY <2>1, <2>2, MaxIs
  <2>4. MaxPrice(list) \in Int
    <3>1. MaxPrice(list) = Max(S)
      BY DEF MaxPrice
    <3> HIDE DEF S
    <3> QED  BY <2>1, <2>3, <3>1
  <2>5. Price[s] \in Int
    BY <1>1, SelectionAssumption
  <2> QED  BY <2>4, <2>5 DEF Normalized
<1>6. ResourceMatch(Offer[s], Need[j]) \in Int
  <2>1. PICK o \in [1..3 -> Nat] : o = Offer[s]
    BY <1>1, SelectionAssumption
  <2>2. PICK n \in [1..3 -> Nat] : n = Need[j]
    BY SelectionAssumption
  <2>3. ASSUME NEW k \in 1..3
        PROVE  (IF o[k] >= n[k] THEN 1000 ELSE (1000 * o[k]) \div n[k]) \in Int
    <3>1. o[k] \in Nat /\ n[k] \in Nat
      BY <2>1, <2>2
    <3> QED  BY <3>1
  <2>4. 1 \in 1..3 /\ 2 \in 1..3 /\ 3 \in 1..3
    OBVIOUS
  <2> DEFINE Part(k) == IF o[k] >= n[k] THEN 1000 ELSE (1000 * o[k]) \div n[k]
  <2>5. Part(1) \in Int /\ Part(2) \in Int /\ Part(3) \in Int
    BY <2>3, <2>4
  <2>6. ResourceMatch(o, n) = (Part(1) + Part(2) + Part(3)) \div 3
    BY DEF ResourceMatch
  <2> HIDE DEF Part
  <2> QED  BY <2>1, <2>2, <2>5, <2>6
<1>7. (IF p.successful > 0 THEN (1000 * p.on_time) \div p.successful ELSE 500) \in Int
  BY <1>2
<1>8. p.score \div 100 \in Int
  BY <1>2
<1> DEFINE a == Normalized(list, s)
           b == ResourceMatch(Offer[s], Need[j])
           t == IF p.successful > 0 THEN (1000 * p.on_time) \div p.successful ELSE 500
           u == p.score \div 100
<1>9. BidScore(w, p, a, b) = w.price * (1000 - a) + w.resources * b + w.reputation * u + w.timeliness * t
  BY DEF BidScore
<1>10. a \in Int /\ b \in Int /\ t \in Int /\ u \in Int
  BY <1>5, <1>6, <1>7, <1>8
<1> HIDE DEF a, b, t, u
<1>11. w.price * (1000 - a) + w.resources * b + w.reputation * u + w.timeliness * t \in Int
  <2>1. PICK x1 \in Int, x2 \in Int, x3 \in Int, x4 \in Int :
            x1 = w.price /\ x2 = w.resources /\ x3 = w.reputation /\ x4 = w.timeliness
    BY <1>4
  <2>2. PICK y1 \in Int, y2 \in Int, y3 \in Int, y4 \in Int :
            y1 = 1000 - a /\ y2 = b /\ y3 = u /\ y4 = t
    BY <1>10
  <2>3. x1 * y1 \in Int /\ x2 * y2 \in Int /\ x3 * y3 \in Int /\ x4 * y4 \in Int
    <3>1. \A x, y \in Int : x * y \in Int
      OBVIOUS
    <3> QED  BY <3>1
  <2>4. PICK z1 \in Int, z2 \in Int, z3 \in Int, z4 \in Int :
            z1 = x1 * y1 /\ z2 = x2 * y2 /\ z3 = x3 * y3 /\ z4 = x4 * y4
    BY <2>3
  <2>5. z1 + z2 + z3 + z4 \in Int
    OBVIOUS
  <2>6. w.price * (1000 - a) = z1 /\ w.resources * b = z2
    BY <2>1, <2>2, <2>4, Zenon
  <2>7. w.reputation * u = z3 /\ w.timeliness * t = z4
    BY <2>1, <2>2, <2>4, Zenon
  <2> QED  BY <2>5, <2>6, <2>7, Zenon
<1> QED
  BY <1>1, <1>3, <1>9, <1>11 DEF a, b

\* The filter moves on.
LEMMA FilteredOk ==
    ASSUME NEW c, SelOk(c), c.pc = "filter", NEW p,
           p # NoValue => profiles[c.list[c.i]] # NoValue
    PROVE  SelOk(Filtered(c, p))
<1>1. SelTyped(c) /\ Recent(c) /\ AtFilter(c) /\ DOMAIN c = SelFields
  BY DEF SelOk, SelTyped
<1>2. PICK kept : kept = IF Passes(c.job, p) THEN Append(c.kept, c.list[c.i]) ELSE c.kept
  OBVIOUS
<1>3. c.list[c.i] \in Subjects /\ c.i \in DOMAIN c.list /\ c.kept \in Seq(Subjects)
  BY <1>1 DEF SelTyped
<1>4. kept \in Seq(Subjects) /\ KnownIn(kept)
  <2>1. KnownIn(c.kept)
    BY <1>1 DEF AtFilter
  <2>2. CASE Passes(c.job, p)
    <3>1. kept = Append(c.kept, c.list[c.i]) /\ profiles[c.list[c.i]] # NoValue
      BY <1>2, <2>2 DEF Passes
    <3>2. PICK w \in Subjects : w = c.list[c.i] /\ profiles[w] # NoValue
      BY <1>3, <3>1
    <3>3. PICK z \in Seq(Subjects) : z = c.kept
      BY <1>3
    <3>4. kept = Append(z, w)
      BY <3>1, <3>2, <3>3
    <3>5. ASSUME NEW k \in DOMAIN kept PROVE profiles[kept[k]] # NoValue
      <4>1. k = Len(z) + 1 \/ k \in DOMAIN z
        BY <3>3, <3>4
      <4>2. CASE k = Len(z) + 1
        <5>1. kept[k] = w
          BY <3>3, <3>4, <4>2
        <5> QED  BY <3>2, <5>1
      <4>3. CASE k \in DOMAIN z
        <5>1. kept[k] = z[k]
          BY <3>3, <3>4, <4>3
        <5> QED  BY <2>1, <3>3, <4>3, <5>1 DEF KnownIn
      <4> QED  BY <4>1, <4>2, <4>3
    <3> QED  BY <3>2, <3>3, <3>4, <3>5 DEF KnownIn
  <2>3. CASE ~Passes(c.job, p)
    BY <1>2, <1>3, <2>1, <2>3
  <2> QED  BY <2>2, <2>3
<1>5. ASSUME NEW n \in Nat, n \in 1..Len(c.list)
      PROVE  SelOk([c EXCEPT !.i = n, !.kept = kept])
  <2>1. PICK d : d = [c EXCEPT !.i = n, !.kept = kept]
    OBVIOUS
  <2>2. /\ SameJob(c, d) /\ d.pc = c.pc /\ d.best = c.best /\ d.list = c.list /\ d.i = n
        /\ d.kept = kept /\ d.scores = c.scores
    BY <1>1, <2>1 DEF SelFields, SameJob
  <2>3. SelTyped(d)
    BY <1>1, <1>4, <1>5, <2>2 DEF SelTyped, SameJob
  <2>4. Recent(d) /\ AtFilter(d) /\ AtScore(d)
    BY <1>1, <1>4, <2>2 DEF Recent, AtFilter, AtScore, SameJob
  <2>5. Scores(d.job) => BestSoFar(d)
    BY <2>2 DEF SelOk, BestSoFar, IsFirstBest, SameJob
  <2>6. HasMinimum(d.job) => d.unknown = FALSE
    BY <2>2 DEF SelOk, SameJob
  <2>7. RequiredMana[d.job] # NoValue /\ Scores(d.job) => d.best = NoValue
    BY <2>2 DEF SelOk, SameJob
  <2>8. CacheOk(d)
    BY <2>2, CacheSame DEF SelOk, SameJob
  <2> QED  BY <2>1, <2>3, <2>4, <2>5, <2>6, <2>7, <2>8 DEF SelOk
<1>6. CASE c.i < Len(c.list)
  <2>1. Filtered(c, p) = [c EXCEPT !.i = c.i + 1, !.kept = kept]
    BY <1>2, <1>6 DEF Filtered
  <2>2. c.i + 1 \in Nat /\ c.i + 1 \in 1..Len(c.list)
    <3>1. c.i \in 1..Len(c.list) /\ Len(c.list) \in Nat
      BY <1>1 DEF SelTyped
    <3> QED  BY <1>6, <3>1
  <2> QED  BY <1>5, <2>1, <2>2
<1>7. CASE ~(c.i < Len(c.list)) /\ kept = <<>>
  <2>1. Filtered(c, p) = Conclude(c, NoValue)
    BY <1>2, <1>7 DEF Filtered
  <2>2. c.best = NoValue
    BY <1>1 DEF AtFilter
  <2> QED  BY <2>1, <2>2, ConcludeOk
<1>8. CASE ~(c.i < Len(c.list)) /\ kept # <<>>
  <2>1. PICK d : d = [c EXCEPT !.i = c.i, !.kept = kept]
    OBVIOUS
  <2>2. c.i \in Nat /\ c.i \in 1..Len(c.list)
    BY <1>1 DEF SelTyped
  <2>3. SelOk(d)
    BY <1>5, <2>1, <2>2
  <2>4. d = [c EXCEPT !.kept = kept]
    BY <1>1, <2>1 DEF SelFields
  <2>5. Filtered(c, p) = Scoring(d, kept)
    BY <1>2, <1>8, <2>4 DEF Filtered
  <2>6. d.pc = "filter" /\ d.best = c.best /\ d.scores = c.scores /\ d.job = c.job
    BY <1>1, <2>1 DEF SelFields
  <2>7. d.best = NoValue /\ d.scores = <<>> /\ Scores(d.job)
    BY <1>1, <2>6 DEF AtFilter, Scores, HasMinimum
  <2> QED  BY <1>4, <1>8, <2>3, <2>5, <2>7, ScoringOk
<1> QED
  BY <1>6, <1>7, <1>8

\* What one more score leaves of a selection and what it adds.
OneMoreScore(c, d) ==
    /\ DOMAIN d = SelFields /\ d.pc = c.pc /\ d.job = c.job /\ d.cache = c.cache
    /\ d.list = c.list /\ d.i = c.i /\ d.kept = c.kept /\ d.age = c.age
    /\ d.scores \in Seq(Int) /\ Len(d.scores) = c.i /\ d.unknown \in BOOLEAN
    /\ HasMinimum(d.job) => d.unknown = FALSE
    /\ BestSoFar(d)
    /\ RequiredMana[d.job] # NoValue => d.best = NoValue

\* A position up to n + 1 is the last one or one before it.
LEMMA LastOrBefore ==
    ASSUME NEW n \in Nat, NEW k \in 1..(n + 1) PROVE k = n + 1 \/ k \in 1..n
  OBVIOUS

\* Scoring a bidder keeps the best the first of the best.
LEMMA ScoredOk ==
    ASSUME NEW c, SelOk(c), c.pc = "score", NEW p \in Profile \cup {NoValue},
           HasMinimum(c.job) => p # NoValue,
           NEW d, d = Scored(c, p)
    PROVE  OneMoreScore(c, d)
<1>1. SelTyped(c) /\ AtScore(c) /\ BestSoFar(c) /\ DOMAIN c = SelFields
      /\ Scores(c.job)
  BY DEF SelOk, SelTyped, AtScore
<1>2. PICK n \in Nat : n = Len(c.scores) /\ c.i = n + 1 /\ n + 1 \in DOMAIN c.list
  BY <1>1 DEF SelTyped, AtScore
<1>3. PICK who \in Subjects : who = c.list[n + 1]
  BY <1>1, <1>2 DEF SelTyped
<1> DEFINE profile == IF p = NoValue THEN DefaultProfile ELSE p
<1>4. BidScore(BidWeights(c.job), profile, Normalized(c.list, who), ResourceMatch(Offer[who], Need[c.job])) \in Int
  <2>1. profile \in Profile \cup {DefaultProfile}
    OBVIOUS
  <2> HIDE DEF profile
  <2> QED  BY <1>1, <1>2, <1>3, <2>1, ScoresAreInt DEF SelTyped
<1>5. PICK score \in Int :
         score = BidScore(BidWeights(c.job), profile, Normalized(c.list, who), ResourceMatch(Offer[who], Need[c.job]))
  BY <1>4
<1>6. PICK ok \in BOOLEAN : ok = (HasMana(c.job, profile) /\ score >= 0)
  OBVIOUS
<1>7. PICK val \in Int : val = IF ok THEN score ELSE -1
  BY <1>5
<1>8. PICK best : best = IF ok /\ Better(score, c.best) THEN [bidder |-> who, score |-> score] ELSE c.best
  OBVIOUS
<1>9. PICK unk \in BOOLEAN : unk = (c.unknown \/ p = NoValue)
  <2>1. (c.unknown \/ p = NoValue) \in BOOLEAN
    OBVIOUS
  <2> QED  BY <2>1
<1>10. d = [c EXCEPT !.best = best, !.scores = Append(c.scores, val), !.unknown = unk]
  <2>1. who = c.list[c.i]
    BY <1>2, <1>3
  <2> HIDE DEF profile
  <2> QED  BY <1>5, <1>6, <1>7, <1>8, <1>9, <2>1, Zenon DEF Scored, profile
<1>11. /\ DOMAIN d = SelFields /\ d.pc = c.pc /\ d.job = c.job /\ d.cache = c.cache
       /\ d.list = c.list /\ d.i = c.i /\ d.kept = c.kept /\ d.age = c.age
       /\ d.best = best /\ d.scores = Append(c.scores, val) /\ d.unknown = unk
  BY <1>1, <1>10 DEF SelFields
<1>12. c.scores \in Seq(Int)
  BY <1>1 DEF SelTyped
<1>13. PICK z \in Seq(Int) : z = c.scores /\ Len(z) = n
  BY <1>2, <1>12
<1>14. PICK y \in Seq(Int) : /\ y = d.scores /\ Len(y) = n + 1 /\ y[n + 1] = val
                             /\ \A k \in 1..n : y[k] = z[k]
  <2>1. PICK y : y = Append(z, val)
    OBVIOUS
  <2>2. y \in Seq(Int) /\ Len(y) = n + 1 /\ y[n + 1] = val /\ \A k \in 1..n : y[k] = z[k]
    BY <1>2, <1>7, <1>13, <2>1
  <2>3. y = d.scores
    BY <1>11, <1>13, <2>1
  <2> QED  BY <2>2, <2>3
<1>15. DOMAIN y = 1..(n + 1) /\ DOMAIN z = 1..n
  BY <1>2, <1>13, <1>14
<1>16. \A k \in 1..n : z[k] \in Int
  BY <1>13, <1>15
<1>17. HasMinimum(d.job) => d.unknown = FALSE
  <2>1. ASSUME HasMinimum(c.job) PROVE unk = FALSE
    <3>1. c.unknown = FALSE /\ p # NoValue
      BY <2>1 DEF SelOk
    <3> QED  BY <1>9, <3>1
  <2> QED  BY <1>11, <2>1
<1>18. RequiredMana[d.job] # NoValue => d.best = NoValue
  <2> SUFFICES ASSUME RequiredMana[d.job] # NoValue PROVE d.best = NoValue
    OBVIOUS
  <2>1. ~HasMana(c.job, profile)
    BY <1>11 DEF HasMana
  <2>2. ~ok
    BY <1>6, <2>1
  <2>3. best = c.best /\ c.best = NoValue
    BY <1>1, <1>8, <1>11, <2>2 DEF SelOk
  <2> QED  BY <1>11, <2>3
<1>19. CASE ok /\ Better(score, c.best)
  <2>1. best = [bidder |-> who, score |-> score] /\ val = score /\ score >= 0
    BY <1>6, <1>7, <1>8, <1>19
  <2>2. best # NoValue
    <3>1. [bidder |-> who, score |-> score] \in [bidder : Subjects, score : Int]
      BY <1>3, <1>5
    <3> QED  BY <2>1, <3>1, SelectionAssumption
  <2>3. ASSUME NEW k \in 1..n PROVE y[k] < score
    <3>1. y[k] = z[k] /\ z[k] \in Int
      BY <1>14, <1>16
    <3>2. CASE c.best = NoValue
      <4>1. z[k] < 0
        BY <1>1, <1>13, <1>15, <3>2 DEF BestSoFar
      <4> QED  BY <1>5, <2>1, <3>1, <4>1
    <3>3. CASE c.best # NoValue
      <4>1. PICK i \in 1..n : /\ c.best = [bidder |-> c.list[i], score |-> z[i]]
                              /\ z[k] < z[i] \/ (z[k] = z[i] /\ i <= k)
        BY <1>1, <1>13, <1>15, <3>3 DEF BestSoFar, IsFirstBest
      <4>2. score > c.best.score
        BY <1>19, <3>3 DEF Better
      <4>3. c.best.score = z[i]
        BY <4>1
      <4>4. z[i] \in Int
        BY <1>16, <4>1
      <4> QED  BY <1>5, <3>1, <4>1, <4>2, <4>3, <4>4
    <3> QED  BY <3>2, <3>3
  <2>4. d.best = [bidder |-> d.list[n + 1], score |-> y[n + 1]] /\ y[n + 1] >= 0
    BY <1>3, <1>11, <1>14, <2>1
  <2>5. ASSUME NEW k \in DOMAIN y
        PROVE  y[k] < y[n + 1] \/ (y[k] = y[n + 1] /\ n + 1 <= k)
    BY <1>2, <1>14, <1>15, <2>1, <2>3
  <2>6. IsFirstBest(d, n + 1) /\ n + 1 \in DOMAIN d.scores
    BY <1>14, <1>15, <2>4, <2>5 DEF IsFirstBest
  <2>7. BestSoFar(d)
    BY <1>11, <2>2, <2>6 DEF BestSoFar
  <2> QED  BY <1>2, <1>11, <1>14, <1>17, <1>18, <2>7 DEF OneMoreScore
<1>20. CASE ~(ok /\ Better(score, c.best))
  <2>1. best = c.best
    BY <1>8, <1>20
  <2>2. CASE c.best = NoValue
    <3>1. val = -1
      BY <1>7, <1>20, <2>2 DEF Better
    <3>2. ASSUME NEW k \in DOMAIN y PROVE y[k] < 0
      <4>1. CASE k = n + 1
        BY <1>14, <3>1, <4>1
      <4>2. CASE k \in 1..n
        <5>1. z[k] < 0
          BY <1>1, <1>13, <1>15, <2>2, <4>2 DEF BestSoFar
        <5> QED  BY <1>14, <4>2, <5>1
      <4> QED  BY <1>2, <1>15, <4>1, <4>2
    <3>3. BestSoFar(d)
      BY <1>11, <1>14, <2>1, <2>2, <3>2 DEF BestSoFar
    <3> QED  BY <1>2, <1>11, <1>14, <1>17, <1>18, <3>3 DEF OneMoreScore
  <2>3. CASE c.best # NoValue
    <3>1. PICK i \in 1..n : /\ c.best = [bidder |-> c.list[i], score |-> z[i]] /\ z[i] >= 0
                            /\ \A k \in 1..n : z[k] < z[i] \/ (z[k] = z[i] /\ i <= k)
      BY <1>1, <1>13, <1>15, <2>3 DEF BestSoFar, IsFirstBest
    <3>2. z[i] \in Int /\ y[i] = z[i] /\ c.best.score = z[i]
      <4>1. z[i] \in Int
        BY <1>16, <3>1
      <4>2. y[i] = z[i]
        BY <1>14, <3>1
      <4>3. c.best.score = z[i]
        BY <3>1
      <4> QED  BY <4>1, <4>2, <4>3
    <3>3. val <= z[i]
      <4>1. CASE ok
        <5>1. ~(score > c.best.score)
          BY <1>20, <2>3, <4>1 DEF Better
        <5> QED  BY <1>5, <1>7, <3>2, <4>1, <5>1
      <4>2. CASE ~ok
        BY <1>7, <3>1, <3>2, <4>2
      <4> QED  BY <4>1, <4>2
    <3>4. ASSUME NEW k \in DOMAIN y
          PROVE  y[k] < y[i] \/ (y[k] = y[i] /\ i <= k)
      <4>1. CASE k = n + 1
        BY <1>2, <1>7, <1>14, <3>1, <3>2, <3>3, <4>1
      <4>2. CASE k \in 1..n
        BY <1>14, <3>1, <3>2, <4>2
      <4>3. k \in 1..(n + 1)
        BY <1>15
      <4>4. k = n + 1 \/ k \in 1..n
        BY <4>3, LastOrBefore
      <4> QED  BY <4>1, <4>2, <4>4
    <3>5. d.best = [bidder |-> d.list[i], score |-> y[i]] /\ y[i] >= 0 /\ i \in DOMAIN y
      BY <1>2, <1>11, <1>15, <2>1, <3>1, <3>2
    <3>6. BestSoFar(d)
      BY <1>11, <1>14, <2>1, <2>3, <3>4, <3>5 DEF BestSoFar, IsFirstBest
    <3> QED  BY <1>2, <1>11, <1>14, <1>17, <1>18, <3>6 DEF OneMoreScore
  <2> QED  BY <2>2, <2>3
<1> QED
  BY <1>19, <1>20

\* An answer moves the selector on.
LEMMA AdvanceOk ==
    ASSUME NEW c, SelOk(c), c.pc \in {"filter", "score"}, NEW p \in Profile \cup {NoValue},
           p # NoValue => profiles[c.list[c.i]] # NoValue,
           c.pc = "score" /\ HasMinimum(c.job) => p # NoValue
    PROVE  SelOk(Advance(c, p))
<1>1. CASE c.pc = "filter"
  <2>1. Advance(c, p) = Filtered(c, p)
    BY <1>1 DEF Advance
  <2> QED  BY <1>1, <2>1, FilteredOk
<1>2. CASE c.pc = "score"
  <2>1. PICK d : d = Scored(c, p)
    OBVIOUS
  <2>2. /\ DOMAIN d = SelFields /\ d.pc = c.pc /\ d.job = c.job /\ d.cache = c.cache
        /\ d.list = c.list /\ d.i = c.i /\ d.kept = c.kept /\ d.age = c.age
        /\ d.scores \in Seq(Int) /\ Len(d.scores) = c.i /\ d.unknown \in BOOLEAN
        /\ HasMinimum(d.job) => d.unknown = FALSE
        /\ BestSoFar(d)
        /\ RequiredMana[d.job] # NoValue => d.best = NoValue
    <3>1. HasMinimum(c.job) => p # NoValue
      BY <1>2
    <3>2. OneMoreScore(c, d)
      BY <1>2, <2>1, <3>1, ScoredOk
    <3> QED  BY <3>2 DEF OneMoreScore
  <2>3. SelTyped(c) /\ CacheOk(c) /\ AtScore(c) /\ Recent(c)
    BY DEF SelOk
  <2>4. CASE c.i < Len(c.list)
    <3>1. PICK e : e = [d EXCEPT !.i = c.i + 1]
      OBVIOUS
    <3>2. Advance(c, p) = e
      BY <1>2, <2>1, <2>2, <2>4, <3>1 DEF Advance
    <3>3. /\ SameJob(d, e) /\ e.pc = "score" /\ e.best = d.best /\ e.list = d.list /\ e.i = c.i + 1
          /\ e.kept = d.kept /\ e.scores = d.scores
      BY <1>2, <2>2, <3>1 DEF SelFields, SameJob
    <3>4. c.i + 1 \in Nat /\ c.i + 1 \in 1..Len(c.list) /\ c.i \in Nat
      BY <2>3, <2>4 DEF SelTyped
    <3>5. SelTyped(e)
      BY <2>2, <2>3, <3>3, <3>4 DEF SelTyped, SameJob
    <3>6. AtScore(e)
      <4>1. c.i = (c.i + 1) - 1
        BY <3>4
      <4> QED  BY <1>2, <2>2, <2>3, <3>3, <4>1 DEF AtScore, SameJob
    <3>7. Recent(e) /\ AtFilter(e)
      BY <2>2, <2>3, <3>3 DEF Recent, AtFilter, SameJob
    <3>8. BestSoFar(e)
      BY <2>2, <3>3 DEF BestSoFar, IsFirstBest
    <3>9. HasMinimum(e.job) => e.unknown = FALSE
      BY <2>2, <3>3 DEF SameJob
    <3>10. RequiredMana[e.job] # NoValue => e.best = NoValue
      BY <2>2, <3>3 DEF SameJob
    <3>11. CacheOk(e)
      BY <2>2, <2>3, <3>3, CacheSame DEF SameJob
    <3> QED  BY <3>2, <3>5, <3>6, <3>7, <3>8, <3>9, <3>10, <3>11 DEF SelOk
  <2>5. CASE ~(c.i < Len(c.list))
    <3>1. PICK e : e = Conclude(d, d.best)
      OBVIOUS
    <3>2. Advance(c, p) = e
      BY <1>2, <2>1, <2>5, <3>1 DEF Advance
    <3>3. /\ SameJob(d, e) /\ e.pc = "conclude" /\ e.best = d.best /\ e.list = d.list /\ e.i = d.i
          /\ e.kept = d.kept /\ e.scores = d.scores
      BY <2>2, <3>1, ConcludeFields
    <3>4. SelTyped(e)
      BY <2>2, <2>3, <3>3 DEF SelTyped, SameJob
    <3>5. Recent(e) /\ AtFilter(e) /\ AtScore(e)
      BY <2>2, <2>3, <3>3 DEF Recent, AtFilter, AtScore, SameJob
    <3>6. BestSoFar(e)
      BY <2>2, <3>3 DEF BestSoFar, IsFirstBest
    <3>7. HasMinimum(e.job) => e.unknown = FALSE
      BY <2>2, <3>3 DEF SameJob
    <3>8. RequiredMana[e.job] # NoValue => e.best = NoValue
      BY <2>2, <3>3 DEF SameJob
    <3>9. CacheOk(e)
      BY <2>2, <2>3, <3>3, CacheSame DEF SameJob
    <3> QED  BY <3>2, <3>4, <3>5, <3>6, <3>7, <3>8, <3>9 DEF SelOk
  <2> QED  BY <2>4, <2>5
<1> QED
  BY <1>1, <1>2

-----------------------------------------------------------------------------
(* The inductive invariant of the selection.                                *)

\* The clock.
ClockOk == now \in Nat /\ now <= MaxNow

Statuses == {"Bidding", "Assigned"}

\* The rows of jobs and bids.
JobsOk ==
    /\ status \in [MeshJobs -> Statuses] /\ bids \in [MeshJobs -> Seq(Subjects)]
    /\ ManaJobsUnassigned

\* What the service answered and has not arrived yet.
AnswerOk(f) ==
    /\ f.asof \in Nat /\ f.start <= f.asof /\ f.asof <= now
    /\ f.profile \in Profile \cup {NoValue}
    /\ f.profile # NoValue => profiles[Bidder(f.caller)] # NoValue
    /\ f.caller.pc = "score" /\ HasMinimum(f.caller.job) => f.profile # NoValue

\* A fetch carries the selection that awaits it, and an answer read since it began.
FetchOk(f) ==
    /\ f.pc = "fetch"
    /\ f.start \in Nat /\ f.start <= now /\ now <= f.start + HttpTimeout
    /\ SelOk(f.caller) /\ f.caller.pc \in {"filter", "score"}
    /\ f.read = "yes" => AnswerOk(f)

\* A handler that holds no selection.
OutsideOk(f) == f = Waiting \/ f = [pc |-> "notify"] \/ (f.pc = "list" /\ f.job \in MeshJobs)

\* Where a handler can be.
HandlerOk(f) == OutsideOk(f) \/ SelOk(f) \/ FetchOk(f)

\* Where every handler is.
PassOk == sel = [q \in Requests |-> sel[q]] /\ \A q \in Requests : HandlerOk(sel[q])

\* The inductive invariant of selection.
SelInv == RepInv /\ ClockOk /\ JobsOk /\ PassOk

\* Where a handler is, by its program counter.
LEMMA PassAt ==
    ASSUME NEW f, HandlerOk(f)
    PROVE  /\ f.pc \in {"idle", "list", "filter", "score", "fetch", "conclude", "notify"}
           /\ f.pc = "list" => f.job \in MeshJobs
           /\ f.pc = "fetch" => FetchOk(f)
           /\ f.pc \in {"filter", "score", "conclude"} => SelOk(f)
<1>1. CASE OutsideOk(f)
  BY <1>1 DEF OutsideOk, Waiting
<1>2. CASE SelOk(f)
  BY <1>2 DEF SelOk, SelTyped
<1>3. CASE FetchOk(f)
  BY <1>3 DEF FetchOk
<1> QED
  BY <1>1, <1>2, <1>3 DEF HandlerOk

\* A selection stays sound while time passes and the service learns of more subjects.
LEMMA SelKept ==
    ASSUME NEW c, SelOk(c), now \in Nat, now' \in Nat, now <= now',
           \A s \in Subjects : profiles[s] # NoValue => profiles'[s] # NoValue
    PROVE  SelOk(c)'
<1>1. c.kept \in Seq(Subjects) /\ c.list \in Seq(Subjects)
  BY DEF SelOk, SelTyped
<1>2. ASSUME NEW l \in Seq(Subjects), KnownIn(l) PROVE KnownIn(l)'
  BY <1>2 DEF KnownIn
<1>3. AtFilter(c)' /\ AtScore(c)'
  BY <1>1, <1>2 DEF SelOk, AtFilter, AtScore
<1>4. CacheOk(c)'
  <2>1. CacheOk(c)
    BY DEF SelOk
  <2>2. ASSUME NEW s \in Subjects PROVE EntryOk(c, s)'
    <3>1. CASE c.cache[s] = NoValue
      BY <3>1 DEF EntryOk
    <3>2. CASE c.cache[s] # NoValue
      <4>1. PICK e \in Entry : e = c.cache[s]
        BY <2>1, <3>2 DEF CacheOk
      <4>2. e.at \in Nat
        BY <4>1 DEF Entry
      <4>3. /\ e.asof <= e.at /\ e.at <= now /\ e.at - e.asof <= HttpTimeout /\ profiles[s] # NoValue
        BY <2>1, <3>2, <4>1 DEF CacheOk, EntryOk
      <4>4. e.at <= now'
        BY <4>2, <4>3
      <4> QED  BY <4>1, <4>3, <4>4 DEF EntryOk
    <3> QED  BY <3>1, <3>2
  <2> QED  BY <2>1, <2>2 DEF CacheOk
<1> QED
  BY <1>3, <1>4 DEF SelOk

\* So does a fetch, as long as the clock does not pass its timeout.
LEMMA FetchKept ==
    ASSUME NEW f, FetchOk(f), now \in Nat, now' \in Nat, now <= now', now' <= f.start + HttpTimeout,
           \A s \in Subjects : profiles[s] # NoValue => profiles'[s] # NoValue
    PROVE  FetchOk(f)'
<1>1. SelOk(f.caller) /\ f.caller.pc \in {"filter", "score"}
  BY DEF FetchOk
<1>2. PICK c : c = f.caller
  OBVIOUS
<1>3. SelOk(c)' /\ SelOk(c)
  BY <1>1, <1>2, SelKept
<1>4. Bidder(c) \in Subjects
  BY <1>1, <1>2, <1>3 DEF SelOk, SelTyped, Bidder
<1>5. f.start \in Nat /\ f.start <= now'
  BY DEF FetchOk
<1>6. ASSUME f.read = "yes" PROVE AnswerOk(f)'
  <2>1. AnswerOk(f)
    BY <1>6 DEF FetchOk
  <2>2. f.asof \in Nat /\ f.asof <= now'
    BY <2>1 DEF AnswerOk
  <2> QED  BY <1>2, <1>4, <2>1, <2>2 DEF AnswerOk
<1> QED
  BY <1>1, <1>2, <1>3, <1>5, <1>6 DEF FetchOk

\* A handler stays where it is.
LEMMA HandlerKept ==
    ASSUME NEW f, HandlerOk(f), now \in Nat, now' \in Nat, now <= now',
           f.pc = "fetch" => now' <= f.start + HttpTimeout,
           \A s \in Subjects : profiles[s] # NoValue => profiles'[s] # NoValue
    PROVE  HandlerOk(f)'
<1>1. CASE OutsideOk(f)
  BY <1>1 DEF HandlerOk, OutsideOk, Waiting
<1>2. CASE SelOk(f)
  <2>1. SelOk(f)'
    BY <1>2, SelKept
  <2> QED  BY <2>1 DEF HandlerOk
<1>3. CASE FetchOk(f)
  <2>1. now' <= f.start + HttpTimeout
    BY <1>3 DEF FetchOk
  <2>2. FetchOk(f)'
    BY <1>3, <2>1, FetchKept
  <2> QED  BY <2>2 DEF HandlerOk
<1> QED
  BY <1>1, <1>2, <1>3 DEF HandlerOk

\* All of them do.
LEMMA PassKept ==
    ASSUME PassOk, now \in Nat, now' \in Nat, now <= now', sel' = sel,
           \A q \in Requests : sel[q].pc = "fetch" => now' <= sel[q].start + HttpTimeout,
           \A s \in Subjects : profiles[s] # NoValue => profiles'[s] # NoValue
    PROVE  PassOk'
<1>1. ASSUME NEW q \in Requests PROVE HandlerOk(sel[q])'
  <2>1. PICK f : f = sel[q] /\ sel'[q] = f
    OBVIOUS
  <2>2. HandlerOk(f) /\ (f.pc = "fetch" => now' <= f.start + HttpTimeout)
    BY <2>1 DEF PassOk
  <2>3. HandlerOk(f)'
    BY <2>2, HandlerKept
  <2> QED  BY <2>1, <2>3
<1> QED
  BY <1>1 DEF PassOk

\* One moves and the others stay, while time stands still.
LEMMA OneMoves ==
    ASSUME PassOk, now \in Nat, now' = now, profiles' = profiles, NEW q \in Requests,
           NEW x, HandlerOk(x)', sel' = [sel EXCEPT ![q] = x]
    PROVE  PassOk'
<1>1. ASSUME NEW r \in Requests PROVE HandlerOk(sel[r])'
  <2>1. CASE r = q
    <3>1. sel'[r] = x
      BY <2>1 DEF PassOk
    <3> QED  BY <3>1
  <2>2. CASE r # q
    <3>1. PICK f : f = sel[r] /\ sel'[r] = f
      BY <2>2 DEF PassOk
    <3>2. HandlerOk(f)
      BY <3>1 DEF PassOk
    <3>3. f.pc = "fetch" => now' <= f.start + HttpTimeout
      BY <3>2, PassAt DEF FetchOk
    <3>4. HandlerOk(f)'
      BY <3>2, <3>3, HandlerKept
    <3> QED  BY <3>1, <3>4
  <2> QED  BY <2>1, <2>2
<1>2. sel' = [r \in Requests |-> sel'[r]]
  BY DEF PassOk
<1> QED
  BY <1>1, <1>2 DEF PassOk

\* Steps of the handlers leave the service alone, and steps of the service the rest.
LEMMA RepKept == ASSUME RepInv, UNCHANGED repVars PROVE RepInv'
  BY DEF RepInv, repVars, RepTyped, PendingLogged, ProfileMatchesLog, AverageWithinRange, LoggedMs,
         InFlight

LEMMA JobsKept == ASSUME JobsOk, UNCHANGED <<status, bids>> PROVE JobsOk'
  BY DEF JobsOk, ManaJobsUnassigned

-----------------------------------------------------------------------------
(* One lemma per action.                                                    *)

\* It holds at first, and each action keeps it.
LEMMA SelInitial == SelInit => SelInv
<1> SUFFICES ASSUME SelInit PROVE SelInv
  OBVIOUS
<1>1. RepInv
  BY RepInitial DEF SelInit
<1>2. ClockOk
  BY SelectionAssumption DEF SelInit, ClockOk
<1>3. JobsOk
  BY DEF SelInit, JobsOk, Statuses, ManaJobsUnassigned
<1>4. PassOk
  <2>1. sel = [q \in Requests |-> Waiting]
    BY DEF SelInit
  <2>2. \A q \in Requests : HandlerOk(sel[q])
    BY <2>1 DEF HandlerOk, OutsideOk
  <2> QED  BY <2>1, <2>2 DEF PassOk
<1> QED
  BY <1>1, <1>2, <1>3, <1>4 DEF SelInv

LEMMA ServiceStepOk == ASSUME SelInv, ServiceStep PROVE SelInv'
<1>1. RepInv' /\ \A s \in Subjects : profiles[s] # NoValue => profiles'[s] # NoValue
  <2>1. CASE \E c \in Clients, r \in Record : SubmitLog(c, r)
    <3>1. PICK c \in Clients, r \in Record : SubmitLog(c, r)
      BY <2>1
    <3>2. profiles' = profiles
      BY <3>1 DEF SubmitLog
    <3> QED  BY <3>1, <3>2, RepLogs DEF SelInv
  <2>2. CASE \E c \in Clients : SubmitApply(c)
    <3>1. PICK c \in Clients : SubmitApply(c)
      BY <2>2
    <3> QED  BY <3>1, RepApplies DEF SelInv
  <2>3. CASE \E c \in Clients : RequestDropped(c)
    <3>1. PICK c \in Clients : RequestDropped(c)
      BY <2>3
    <3>2. profiles' = profiles
      BY <3>1 DEF RequestDropped
    <3> QED  BY <3>1, <3>2, RepDrops DEF SelInv
  <2> QED  BY <2>1, <2>2, <2>3 DEF ServiceStep
<1>2. now' = now /\ status' = status /\ bids' = bids /\ sel' = sel
  BY DEF ServiceStep, selVars
<1>3. now \in Nat /\ now' \in Nat /\ now <= now' /\ ClockOk'
  BY <1>2 DEF SelInv, ClockOk
<1>4. \A q \in Requests : sel[q].pc = "fetch" => now' <= sel[q].start + HttpTimeout
  BY <1>2, PassAt DEF SelInv, PassOk, FetchOk
<1> QED
  BY <1>1, <1>2, <1>3, <1>4, JobsKept, PassKept DEF SelInv

LEMMA TickOk == ASSUME SelInv, Tick PROVE SelInv'
<1>1. now' = now + 1 /\ UNCHANGED <<repVars, status, bids, sel>> /\ now < MaxNow
  BY DEF Tick
<1>2. now \in Nat /\ now' \in Nat /\ now <= now' /\ ClockOk'
  BY <1>1, SelectionAssumption DEF SelInv, ClockOk
<1>3. ASSUME NEW q \in Requests, sel[q].pc = "fetch" PROVE now' <= sel[q].start + HttpTimeout
  <2>1. sel[q].start \in Nat
    BY <1>3, PassAt DEF SelInv, PassOk, FetchOk
  <2>2. now < sel[q].start + HttpTimeout
    BY <1>3 DEF Tick
  <2> QED  BY <1>1, <1>2, <2>1, <2>2, SelectionAssumption
<1>4. \A s \in Subjects : profiles[s] # NoValue => profiles'[s] # NoValue
  BY <1>1 DEF repVars
<1> QED
  BY <1>1, <1>2, <1>3, <1>4, RepKept, JobsKept, PassKept DEF SelInv

\* What every step of a handler leaves alone.
LEMMA OnlySel ==
    ASSUME SelInv, UNCHANGED <<repVars, now>>,
           (UNCHANGED <<status, bids>>) \/ JobsOk', (UNCHANGED sel) \/ PassOk'
    PROVE  SelInv'
<1>1. now' = now /\ now \in Nat /\ now' \in Nat /\ now <= now' /\ ClockOk'
  BY DEF SelInv, ClockOk
<1>2. \A s \in Subjects : profiles[s] # NoValue => profiles'[s] # NoValue
  BY DEF repVars
<1>3. \A q \in Requests : sel[q].pc = "fetch" => now' <= sel[q].start + HttpTimeout
  BY <1>1, PassAt DEF SelInv, PassOk, FetchOk
<1>4. JobsOk'
  BY JobsKept DEF SelInv
<1>5. PassOk'
  BY <1>1, <1>2, <1>3, PassKept DEF SelInv
<1> QED
  BY <1>1, <1>4, <1>5, RepKept DEF SelInv

\* A handler's step to x, the rest left alone.
LEMMA StepTo ==
    ASSUME SelInv, UNCHANGED <<repVars, now>>, (UNCHANGED <<status, bids>>) \/ JobsOk',
           NEW q \in Requests, NEW x, Goto(q, x),
           OutsideOk(x) \/ SelOk(x) \/ FetchOk(x)
    PROVE  SelInv'
<1>1. now' = now /\ now \in Nat /\ now' \in Nat /\ now <= now' /\ profiles' = profiles
  BY DEF SelInv, ClockOk, repVars
<1>2. HandlerOk(x)
  BY DEF HandlerOk
<1>3. x.pc = "fetch" => now' <= x.start + HttpTimeout
  BY <1>1, <1>2, PassAt DEF FetchOk
<1>4. HandlerOk(x)'
  BY <1>1, <1>2, <1>3, HandlerKept
<1>5. sel' = [sel EXCEPT ![q] = x]
  BY DEF Goto
<1>6. PassOk'
  BY <1>1, <1>4, <1>5, OneMoves DEF SelInv
<1> QED
  BY <1>6, OnlySel

LEMMA InsertBidOk ==
    ASSUME SelInv, NEW j \in MeshJobs, NEW s \in Subjects, InsertBid(j, s)
    PROVE  SelInv'
<1>1. /\ bids' = [bids EXCEPT ![j] = Append(bids[j], s)] /\ status' = status
      /\ UNCHANGED <<repVars, now>> /\ UNCHANGED sel
  BY DEF InsertBid
<1>2. JobsOk'
  <2>1. bids \in [MeshJobs -> Seq(Subjects)] /\ status \in [MeshJobs -> Statuses] /\ ManaJobsUnassigned
    BY DEF SelInv, JobsOk
  <2>2. bids' \in [MeshJobs -> Seq(Subjects)]
    BY <1>1, <2>1
  <2> QED  BY <1>1, <2>1, <2>2 DEF JobsOk, ManaJobsUnassigned
<1> QED
  BY <1>1, <1>2, OnlySel

\* Steps that enter or leave a handler.
LEMMA ReadJobOk ==
    ASSUME SelInv, NEW q \in Requests, NEW j \in MeshJobs, ReadJob(q, j) PROVE SelInv'
<1>1. PICK x : x = [pc |-> "list", job |-> j]
  OBVIOUS
<1>2. OutsideOk(x)
  BY <1>1 DEF OutsideOk
<1> QED
  BY <1>1, <1>2, StepTo DEF ReadJob

LEMMA LeaveOk ==
    ASSUME SelInv, NEW q \in Requests, NoWinner(q) \/ NotifyMesh(q) \/ AbandonRequest(q)
    PROVE  SelInv'
<1>1. OutsideOk(Waiting)
  BY DEF OutsideOk
<1> QED
  BY <1>1, StepTo DEF NoWinner, NotifyMesh, AbandonRequest

LEMMA AssignJobOk == ASSUME SelInv, NEW q \in Requests, AssignJob(q) PROVE SelInv'
<1>1. PICK c : c = sel[q] /\ c.pc = "conclude" /\ c.best # NoValue
  BY DEF AssignJob
<1>2. SelOk(c)
  BY <1>1, PassAt DEF SelInv, PassOk
<1>3. PICK j \in MeshJobs : j = c.job
  BY <1>2 DEF SelOk, SelTyped
<1>4. /\ status' = [status EXCEPT ![j] = "Assigned"] /\ status \in [MeshJobs -> Statuses]
      /\ bids' = bids /\ UNCHANGED <<repVars, now>>
  BY <1>1, <1>3 DEF AssignJob, SelInv, JobsOk
<1>5. ~(RequiredMana[j] # NoValue /\ Policy[j].strategy # "LowestPrice")
  BY <1>1, <1>2, <1>3 DEF SelOk, Scores
<1>6. ManaJobsUnassigned'
  BY <1>4, <1>5 DEF SelInv, JobsOk, ManaJobsUnassigned
<1>7. JobsOk'
  BY <1>4, <1>6 DEF SelInv, JobsOk, Statuses
<1>8. PICK x : x = [pc |-> "notify"] /\ Goto(q, x)
  BY DEF AssignJob
<1>9. OutsideOk(x)
  BY <1>8 DEF OutsideOk
<1> QED
  BY <1>4, <1>7, <1>8, <1>9, StepTo

LEMMA CacheMissOk == ASSUME SelInv, NEW q \in Requests, CacheMiss(q) PROVE SelInv'
<1>1. PICK c : c = sel[q] /\ c.pc \in {"filter", "score"}
  BY DEF CacheMiss
<1>2. SelOk(c)
  BY <1>1, PassAt DEF SelInv, PassOk
<1>3. now \in Nat
  BY DEF SelInv, ClockOk
<1>4. PICK f : f = [pc |-> "fetch", start |-> now, read |-> "no", caller |-> c] /\ Goto(q, f)
  BY <1>1 DEF CacheMiss
<1>5. f.pc = "fetch" /\ f.start = now /\ f.read = "no" /\ f.caller = c
  BY <1>4
<1>6. FetchOk(f)
  <2>1. f.start \in Nat /\ f.start <= now /\ now <= f.start + HttpTimeout
    BY <1>3, <1>5, SelectionAssumption
  <2> QED  BY <1>1, <1>2, <1>5, <2>1 DEF FetchOk
<1> QED
  BY <1>4, <1>6, StepTo DEF CacheMiss

LEMMA ServiceReadsOk == ASSUME SelInv, NEW q \in Requests, ServiceReads(q) PROVE SelInv'
<1>1. PICK g : g = sel[q] /\ g.pc = "fetch"
  BY DEF ServiceReads
<1>2. FetchOk(g)
  BY <1>1, PassAt DEF SelInv, PassOk
<1>3. PICK c : c = g.caller /\ SelOk(c) /\ c.pc \in {"filter", "score"}
  BY <1>2 DEF FetchOk
<1>4. PICK f : /\ Goto(q, f)
               /\ f = [pc |-> "fetch", start |-> g.start, read |-> "yes", caller |-> c,
                       profile |-> profiles[Bidder(c)], asof |-> now]
  BY <1>1, <1>3 DEF ServiceReads
<1>5. /\ f.pc = "fetch" /\ f.start = g.start /\ f.read = "yes" /\ f.caller = c
      /\ f.profile = profiles[Bidder(c)] /\ f.asof = now
  BY <1>4
<1>6. now \in Nat
  BY DEF SelInv, ClockOk
<1>7. PICK w \in Subjects : w = Bidder(c) /\ w = c.list[c.i] /\ c.i \in DOMAIN c.list
  BY <1>3 DEF SelOk, SelTyped, Bidder
<1>8. f.profile \in Profile \cup {NoValue}
  BY <1>5, <1>7 DEF SelInv, RepInv, RepTyped
<1>9. c.pc = "score" /\ HasMinimum(c.job) => f.profile # NoValue
  BY <1>3, <1>5, <1>7 DEF SelOk, AtScore, KnownIn
<1>10. g.start \in Nat /\ g.start <= now /\ now <= g.start + HttpTimeout
  BY <1>2 DEF FetchOk
<1>11. AnswerOk(f)
  BY <1>5, <1>6, <1>8, <1>9, <1>10 DEF AnswerOk
<1>12. FetchOk(f)
  BY <1>3, <1>5, <1>10, <1>11 DEF FetchOk
<1> QED
  BY <1>4, <1>12, StepTo DEF ServiceReads

LEMMA CacheHitOk == ASSUME SelInv, NEW q \in Requests, CacheHit(q) PROVE SelInv'
<1>1. PICK c : c = sel[q] /\ c.pc \in {"filter", "score"}
  BY DEF CacheHit
<1>2. SelOk(c)
  BY <1>1, PassAt DEF SelInv, PassOk
<1>3. PICK w \in Subjects : w = Bidder(c)
  BY <1>1, <1>2 DEF SelOk, SelTyped, Bidder
<1>4. PICK e : e = c.cache[w]
  OBVIOUS
<1>5. Fresh(e) /\ Goto(q, Advance(Aged(c, e.asof), e.profile))
  BY <1>1, <1>3, <1>4 DEF CacheHit
<1>6. e # NoValue /\ now - e.at < TTL
  BY <1>5 DEF Fresh
<1>7. e \in Entry
  BY <1>2, <1>3, <1>4, <1>6 DEF SelOk, CacheOk
<1>8. e.profile \in Profile /\ e.at \in Nat /\ e.asof \in Nat
  BY <1>7 DEF Entry
<1>9. e.asof <= e.at /\ e.at <= now /\ e.at - e.asof <= HttpTimeout /\ profiles[w] # NoValue
  BY <1>2, <1>3, <1>4, <1>6 DEF SelOk, CacheOk, EntryOk
<1>10. now \in Nat /\ e.asof <= now /\ now - e.asof < TTL + HttpTimeout
  <2>1. now \in Nat
    BY DEF SelInv, ClockOk
  <2>2. TTL \in Nat /\ HttpTimeout \in Nat
    BY SelectionAssumption
  <2>3. PICK a \in Nat, b \in Nat : a = e.at /\ b = e.asof
    BY <1>8
  <2>4. b <= a /\ a <= now /\ a - b <= HttpTimeout /\ now - a < TTL
    BY <1>6, <1>9, <2>3
  <2>5. b <= now /\ now - b < TTL + HttpTimeout
    BY <2>1, <2>2, <2>4
  <2> QED  BY <2>1, <2>3, <2>5
<1>11. PICK d : d = Aged(c, e.asof)
  OBVIOUS
<1>12. SelOk(d) /\ d.pc = c.pc /\ d.list = c.list /\ d.i = c.i
  BY <1>2, <1>8, <1>10, <1>11, AgedOk
<1>13. PICK p \in Profile : p = e.profile
  BY <1>8
<1>14. p # NoValue
  BY <1>13, ReputationAssumption
<1>15. profiles[d.list[d.i]] # NoValue
  BY <1>3, <1>9, <1>12 DEF Bidder
<1>16. PICK x : x = Advance(d, p) /\ Goto(q, x)
  BY <1>5, <1>11, <1>13
<1>17. SelOk(x)
  BY <1>1, <1>12, <1>13, <1>14, <1>15, <1>16, AdvanceOk
<1> QED
  BY <1>16, <1>17, StepTo DEF CacheHit

\* An answer is cached as of its arrival.
LEMMA CachedOk ==
    ASSUME NEW c, SelOk(c), c.pc \in {"filter", "score"}, now \in Nat,
           NEW p \in Profile \cup {NoValue}, NEW asof \in Nat, asof <= now, now - asof <= HttpTimeout,
           p # NoValue => profiles[Bidder(c)] # NoValue
    PROVE  /\ SelOk(Cached(c, p, asof)) /\ Cached(c, p, asof).pc = c.pc
           /\ Cached(c, p, asof).list = c.list /\ Cached(c, p, asof).i = c.i
           /\ Cached(c, p, asof).job = c.job
<1>0. PICK d : d = Cached(c, p, asof)
  OBVIOUS
<1>1. CASE p = NoValue
  BY <1>1 DEF Cached
<1>2. CASE p # NoValue
  <2>1. DOMAIN c = SelFields /\ SelTyped(c) /\ CacheOk(c)
    BY DEF SelOk, SelTyped
  <2>2. PICK w \in Subjects : w = Bidder(c) /\ profiles[w] # NoValue
    BY <1>2 DEF SelOk, SelTyped, Bidder
  <2>3. PICK e \in Entry : e = [profile |-> p, at |-> now, asof |-> asof]
    BY <1>2 DEF Entry
  <2>4. e.at = now /\ e.asof = asof
    BY <2>3
  <2>5. PICK t : t = [c.cache EXCEPT ![w] = e]
    OBVIOUS
  <2>6. d = [c EXCEPT !.cache = t]
    BY <1>0, <1>2, <2>2, <2>3, <2>5 DEF Cached, CacheTime
  <2>7. /\ DOMAIN d = SelFields /\ d.job = c.job /\ d.unknown = c.unknown /\ d.age = c.age
        /\ d.pc = c.pc /\ d.best = c.best /\ d.list = c.list /\ d.i = c.i
        /\ d.kept = c.kept /\ d.scores = c.scores /\ d.cache = t
    BY <2>1, <2>6 DEF SelFields
  <2>8. CacheOk(d)
    <3>1. c.cache \in [Subjects -> Entry \cup {NoValue}]
      BY <2>1 DEF CacheOk
    <3>2. t \in [Subjects -> Entry \cup {NoValue}]
      BY <2>3, <2>5, <3>1
    <3>3. ASSUME NEW s \in Subjects PROVE EntryOk(d, s)
      <4>1. CASE s = w
        <5>1. d.cache[s] = e
          BY <2>5, <2>7, <3>1, <4>1
        <5> QED  BY <2>2, <2>4, <4>1, <5>1 DEF EntryOk
      <4>2. CASE s # w
        <5>1. d.cache[s] = c.cache[s]
          BY <2>5, <2>7, <3>1, <4>2
        <5>2. EntryOk(c, s)
          BY <2>1 DEF CacheOk
        <5> QED  BY <5>1, <5>2 DEF EntryOk
      <4> QED  BY <4>1, <4>2
    <3> QED  BY <2>7, <3>2, <3>3 DEF CacheOk
  <2>9. SelTyped(d)
    BY <2>1, <2>7 DEF SelTyped
  <2>10. Recent(d) /\ AtFilter(d) /\ AtScore(d)
    BY <2>7 DEF SelOk, Recent, AtFilter, AtScore
  <2>11. Scores(d.job) => BestSoFar(d)
    BY <2>7 DEF SelOk, BestSoFar, IsFirstBest
  <2>12. /\ HasMinimum(d.job) => d.unknown = FALSE
         /\ RequiredMana[d.job] # NoValue /\ Scores(d.job) => d.best = NoValue
    BY <2>7 DEF SelOk
  <2> QED  BY <1>0, <2>7, <2>8, <2>9, <2>10, <2>11, <2>12 DEF SelOk
<1> QED
  BY <1>1, <1>2

LEMMA FetchArrivesOk == ASSUME SelInv, NEW q \in Requests, FetchArrives(q) PROVE SelInv'
<1>1. PICK g : g = sel[q] /\ g.pc = "fetch" /\ g.read = "yes"
  BY DEF FetchArrives
<1>2. FetchOk(g) /\ AnswerOk(g)
  BY <1>1, PassAt DEF SelInv, PassOk, FetchOk
<1>3. PICK c : c = g.caller /\ SelOk(c) /\ c.pc \in {"filter", "score"}
  BY <1>2 DEF FetchOk
<1>4. PICK p \in Profile \cup {NoValue} : p = g.profile
  BY <1>2 DEF AnswerOk
<1>5. PICK asof \in Nat : asof = g.asof
  BY <1>2 DEF AnswerOk
<1>6. Goto(q, Advance(Aged(Cached(c, p, asof), asof), p))
  BY <1>1, <1>3, <1>4, <1>5 DEF FetchArrives
<1>7. /\ now \in Nat /\ g.start \in Nat /\ g.start <= asof /\ asof <= now
      /\ now <= g.start + HttpTimeout
  BY <1>2, <1>5 DEF SelInv, ClockOk, AnswerOk, FetchOk
<1>8. now - asof <= HttpTimeout /\ now - asof < TTL + HttpTimeout
  <2>1. TTL \in Nat /\ TTL > 0 /\ HttpTimeout \in Nat
    BY SelectionAssumption
  <2>2. PICK start \in Nat : start = g.start /\ start <= asof /\ now <= start + HttpTimeout
    BY <1>7
  <2> QED  BY <1>5, <1>7, <2>1, <2>2
<1>9. p # NoValue => profiles[Bidder(c)] # NoValue
  BY <1>2, <1>3, <1>4 DEF AnswerOk
<1>10. PICK d : d = Cached(c, p, asof)
  OBVIOUS
<1>11. SelOk(d) /\ d.pc = c.pc /\ d.list = c.list /\ d.i = c.i /\ d.job = c.job
  <2>1. SelOk(c) /\ c.pc \in {"filter", "score"} /\ now \in Nat /\ asof <= now
        /\ now - asof <= HttpTimeout
    BY <1>3, <1>7, <1>8
  <2> QED  BY <1>9, <1>10, <2>1, CachedOk
<1>12. PICK e : e = Aged(d, asof)
  OBVIOUS
<1>13. SelOk(e) /\ e.pc = c.pc /\ e.list = c.list /\ e.i = c.i /\ e.job = c.job
  BY <1>5, <1>7, <1>8, <1>11, <1>12, AgedOk
<1>14. p # NoValue => profiles[e.list[e.i]] # NoValue
  BY <1>9, <1>13 DEF Bidder
<1>15. e.pc = "score" /\ HasMinimum(e.job) => p # NoValue
  BY <1>2, <1>3, <1>4, <1>13 DEF AnswerOk
<1>16. PICK x : x = Advance(e, p) /\ Goto(q, x)
  BY <1>6, <1>10, <1>12
<1>17. SelOk(x)
  BY <1>3, <1>4, <1>13, <1>14, <1>15, <1>16, AdvanceOk
<1> QED
  BY <1>16, <1>17, StepTo DEF FetchArrives

\* A selector sets out.
LEMMA ListBidsOk == ASSUME SelInv, NEW q \in Requests, ListBids(q) PROVE SelInv'
<1>1. UNCHANGED <<repVars, now>> /\ UNCHANGED <<status, bids>> /\ sel[q].pc = "list"
  BY DEF ListBids
<1>2. PICK j \in MeshJobs : j = sel[q].job
  BY <1>1, PassAt DEF SelInv, PassOk
<1>3. PICK list \in Seq(Subjects) : list = bids[j]
  BY <1>2 DEF SelInv, JobsOk
<1>4. PICK none : none = NoProfiles
  OBVIOUS
<1>5. PICK c : c = [pc |-> "filter", job |-> j, list |-> list, i |-> 1, kept |-> <<>>,
                    best |-> NoValue, scores |-> <<>>, unknown |-> FALSE, age |-> 0, cache |-> none]
  OBVIOUS
<1>6. PICK x : x = (IF list = <<>> THEN Waiting ELSE Selector(c)) /\ Goto(q, x)
  BY <1>2, <1>3, <1>4, <1>5 DEF ListBids
<1>7. CASE list = <<>>
  <2>1. OutsideOk(x)
    BY <1>6, <1>7 DEF OutsideOk
  <2> QED  BY <1>1, <1>6, <2>1, StepTo
<1>8. CASE list # <<>>
  <2>1. /\ DOMAIN c = SelFields /\ c.pc = "filter" /\ c.job = j /\ c.list = list
        /\ c.i = 1 /\ c.kept = <<>> /\ c.best = NoValue /\ c.scores = <<>> /\ c.unknown = FALSE
        /\ c.age = 0 /\ c.cache = none
    BY <1>5 DEF SelFields
  <2>2. 1 \in 1..Len(list)
    BY <1>3, <1>8
  <2>3. CacheOk(c)
    <3>1. c.cache = [s \in Subjects |-> NoValue]
      BY <1>4, <2>1 DEF NoProfiles
    <3> QED  BY <3>1 DEF CacheOk, EntryOk
  <2>4. ASSUME NEW d, NEW pc \in {"filter", "conclude", "score"},
               DOMAIN d = SelFields, d.pc = pc, d.job = j, d.list = list, d.i = 1,
               d.kept = <<>>, d.scores = <<>>, d.unknown = FALSE, d.age = 0, d.cache = none,
               Scores(j) => d.best = NoValue, pc = "filter" => HasMinimum(j) /\ d.best = NoValue,
               pc = "score" => Scores(j) /\ ~HasMinimum(j)
        PROVE  SelOk(d)
    <3>1. d.scores \in Seq(Int) /\ d.kept \in Seq(Subjects) /\ d.i \in Nat /\ d.age \in Nat
      BY <2>4
    <3>2. SelTyped(d)
      BY <1>2, <1>3, <2>2, <2>4, <3>1 DEF SelTyped
    <3>3. CacheOk(d)
      BY <2>1, <2>3, <2>4, CacheSame
    <3>4. Len(d.scores) = d.i - 1 /\ DOMAIN d.scores = {} /\ DOMAIN d.kept = {}
      BY <2>4
    <3>5. Recent(d) /\ AtFilter(d) /\ AtScore(d)
      BY <2>4, <3>4 DEF Recent, AtFilter, AtScore, KnownIn
    <3>6. Scores(d.job) => BestSoFar(d)
      BY <2>4, <3>4 DEF BestSoFar
    <3> QED  BY <2>4, <3>2, <3>3, <3>5, <3>6 DEF SelOk
  <2>5. SelOk(x)
    <3>1. x = Selector(c)
      BY <1>6, <1>8
    <3>2. CASE Policy[j].strategy = "LowestPrice"
      <4>1. PICK b : b = LowestPrice(list)
        OBVIOUS
      <4>2. x = Conclude(c, b)
        BY <2>1, <3>1, <3>2, <4>1 DEF Selector
      <4>3. /\ SameJob(c, x) /\ x.pc = "conclude" /\ x.list = c.list /\ x.i = c.i
            /\ x.kept = c.kept /\ x.scores = c.scores
        BY <2>1, <4>2, ConcludeFields
      <4> QED  BY <2>1, <2>4, <3>2, <4>3 DEF SameJob, Scores
    <3>3. CASE Policy[j].strategy # "LowestPrice" /\ HasMinimum(j)
      <4>1. x = c
        BY <2>1, <3>1, <3>3 DEF Selector
      <4> QED  BY <2>1, <2>4, <3>3, <4>1
    <3>4. CASE Policy[j].strategy # "LowestPrice" /\ ~HasMinimum(j)
      <4>1. x = Scoring(c, list)
        BY <2>1, <3>1, <3>4 DEF Selector
      <4>2. /\ SameJob(c, x) /\ x.pc = "score" /\ x.best = c.best /\ x.list = list /\ x.i = 1
            /\ x.kept = c.kept /\ x.scores = c.scores
        BY <2>1, <4>1, ScoringFields
      <4> QED  BY <2>1, <2>4, <3>4, <4>2 DEF SameJob, Scores
    <3> QED  BY <3>2, <3>3, <3>4
  <2> QED  BY <1>1, <1>6, <2>5, StepTo
<1> QED
  BY <1>7, <1>8

-----------------------------------------------------------------------------
(* The theorems.                                                            *)

\* Every step keeps the invariant.
LEMMA SelStep == SelInv /\ [SelNext]_allVars => SelInv'
<1> SUFFICES ASSUME SelInv, [SelNext]_allVars PROVE SelInv'
  OBVIOUS
<1>1. CASE ServiceStep
  BY <1>1, ServiceStepOk
<1>2. CASE Tick
  BY <1>2, TickOk
<1>3. CASE \E j \in MeshJobs, s \in Subjects : InsertBid(j, s)
  BY <1>3, InsertBidOk
<1>4. CASE \E q \in Requests, j \in MeshJobs : ReadJob(q, j)
  BY <1>4, ReadJobOk
<1>5. ASSUME NEW q \in Requests, RequestStep(q) PROVE SelInv'
  BY <1>5, ListBidsOk, LeaveOk, AssignJobOk, CacheHitOk, CacheMissOk, FetchArrivesOk DEF RequestStep
<1>6. ASSUME NEW q \in Requests, ServiceReads(q) PROVE SelInv'
  BY <1>6, ServiceReadsOk
<1>7. CASE UNCHANGED allVars
  BY <1>7, OnlySel DEF allVars, selVars
<1> QED
  BY <1>1, <1>2, <1>3, <1>4, <1>5, <1>6, <1>7 DEF SelNext

\* A concluded choice is sound wherever the invariant holds.
LEMMA SelInvSound == SelInv => ChoiceSound
<1> SUFFICES ASSUME SelInv PROVE ChoiceSound
  OBVIOUS
<1>1. ASSUME NEW q \in Requests, Selecting(q) PROVE SelOk(sel[q])
  BY <1>1, PassAt DEF SelInv, PassOk, Selecting
<1>2. SelTypeOK
  <2>1. RepTypeOK
    BY RepInvSound DEF SelInv, ReputationSound
  <2>2. now \in 0 .. MaxNow
    BY SelectionAssumption DEF SelInv, ClockOk
  <2>3. \A j \in MeshJobs : status[j] \in {"Bidding", "Assigned"}
    BY DEF SelInv, JobsOk, Statuses
  <2>4. \A q \in Requests :
            sel[q].pc \in {"idle", "list", "filter", "score", "fetch", "conclude", "notify"}
    BY PassAt DEF SelInv, PassOk
  <2> QED  BY <2>1, <2>2, <2>3, <2>4 DEF SelTypeOK
<1>3. UsedIsRecent
  BY <1>1 DEF UsedIsRecent, SelOk, Recent
<1>4. FirstBestWins
  BY <1>1 DEF FirstBestWins, SelOk, Scores, BestSoFar, IsFirstBest
<1>5. MinimumExcludesUnknown
  BY <1>1 DEF MinimumExcludesUnknown, SelOk
<1>6. ManaJobsUnassigned
  BY DEF SelInv, JobsOk
<1> QED
  BY <1>2, <1>3, <1>4, <1>5, <1>6 DEF ChoiceSound

\* The profile, the summary and the history of every subject agree on its log of
\* records, whatever requests are interleaved or dropped between the two locks
\* of submit_record.
THEOREM ReputationAgrees == SelSpec => []ReputationSound
<1>1. SelInv => ReputationSound
  BY RepInvSound DEF SelInv
<1> QED
  BY <1>1, SelInitial, SelStep, PTL DEF SelSpec

\* However requests interleave, an executor is chosen by recent profiles only, as
\* the first with the best score, never by a made-up profile where the hybrid
\* policy sets a minimum, and never by score for a job that asks for mana
\* (assign_best_bid_handler and the selectors of job_assignment.rs).
THEOREM ChoiceIsSound == SelSpec => []ChoiceSound
<1> QED
  BY SelInitial, SelStep, SelInvSound, PTL DEF SelSpec

=============================================================================
