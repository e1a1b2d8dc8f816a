--------------------------------- MODULE Trust ---------------------------------
(***************************************************************************)
(* Signed documents and the trust in them.                                   *)
(*                                                                         *)
(* Documents: execution receipts (icn-mesh-receipts), runtime receipts and   *)
(* credentials (icn-types), credentials of icn-identity.  One is composed,   *)
(* signed, sent and verified by its receiver.  A document holds a HashMap;    *)
(* its order of iteration, map, is that of the instance: a clone keeps it,    *)
(* a receiver that deserializes the document has an order of its own.         *)
(*                                                                         *)
(* Bundles: QuorumProof, TrustBundle and TrustValidator of icn-identity, and  *)
(* the quorum rules of icn-types.                                            *)
(*                                                                         *)
(* A signature is [key, payload]: it verifies for that key and payload only.  *)
(***************************************************************************)
EXTENDS Integers, Sequences, FiniteSets, SequencesExt

CONSTANTS
    Dids,        \* did:key identifiers
    KeyOf,       \* the key in each of them
    Entries,     \* the entries a document's map may have
    Bodies,      \* what a document says besides its map
    Forms,       \* bundles as calculate_hash serializes them
    Weights,     \* the map of a weighted quorum: Did -> weight
    WeightRange, \* how many values a weight has: 2^16
    Registrations, \* <<did, key>> that register_signer is called with
    Rules,       \* quorum rules of the proofs
    Proofs,      \* signatures proofs are made of: sequences of [did, sig]
    MaxProof,    \* bound on the signatures of a proof
    Absent

ASSUME TrustAssumption ==
    /\ DOMAIN KeyOf = Dids /\ IsFiniteSet(Dids) /\ IsFiniteSet(Entries)
    /\ Registrations \subseteq Dids \X Range(KeyOf)
    /\ WeightRange \in Nat \ {0}
    /\ DOMAIN Weights \subseteq Dids
    /\ \A d \in DOMAIN Weights : Weights[d] \in 0..(WeightRange - 1)
    /\ \A r \in Rules : r.type \in {"Majority", "Threshold", "Weighted"} /\ r.min \in Nat
    /\ MaxProof \in Nat
    /\ \A sigs \in Proofs :
          /\ sigs \in Seq([did : Dids, sig : [key : Range(KeyOf), payload : Forms]])
          /\ Len(sigs) <= MaxProof
    /\ Absent \notin Dids \cup Range(KeyOf)

VARIABLES
    doc,         \* the document at its signer, or Absent
    copy,        \* the document at its receiver, or Absent
    verdict,     \* "none", "valid", "invalid"
    trusted,     \* trusted_keys: did -> key or Absent
    proof,       \* a QuorumProof, or Absent
    bundle,      \* the accepted bundle with its history, or Absent
    asked,       \* is_authorized_signer between its two reads, or Absent
    authorized   \* history: the DID it last answered true for

docVars == <<doc, copy, verdict>>
validatorVars == <<trusted, proof, bundle, asked, authorized>>

-----------------------------------------------------------------------------
(* Payloads                                                                 *)

\* Mutant: the status and the results are left out of what is signed.
PayloadOfParts(d) == <<"cbor", d.executor, d.map>>

\* get_receipt_signing_payload: CBOR of the receipt without its signature.
\* serde_cbor writes resource_usage in the order of iteration.
get_receipt_signing_payload(d) == <<"cbor", d.executor, d.body, d.map>>

\* The payload of VerifiableReceipt: identifiers and time, and of the rest
\* nothing; "id" stands for them.
get_payload_for_signing(d) == <<"bincode", d.executor, "id">>

\* sort_json_object; serde_json's Value sorts the map of icn-identity's too.
canonical_bytes(d) == <<"json", d.executor, d.body, Range(d.map)>>

PayloadOf(d) ==
    CASE d.kind = "mesh_receipt" -> get_receipt_signing_payload(d)
      [] d.kind = "runtime_receipt" -> get_payload_for_signing(d)
      [] d.kind = "credential" -> canonical_bytes(d)

Kinds == {"mesh_receipt", "runtime_receipt", "credential"}

\* to_ed25519: the key is in the did:key itself.
verifying_key(did) == KeyOf[did]

Signature(key, payload) == [key |-> key, payload |-> payload]

\* The orders of iteration a map may have.
Maps == UNION {SetToSeqs(es) : es \in SUBSET Entries}

\* No signature and no bundle is taken for a missing one.
ASSUME AbsentAssumption ==
    /\ \A k \in Kinds, d \in Dids, b \in Bodies, m \in Maps, key \in Range(KeyOf) :
          Absent # Signature(key, PayloadOf([kind |-> k, executor |-> d, body |-> b, map |-> m]))
    /\ \A r \in Rules, known, counted \in SUBSET Dids :
          Absent # [rule |-> r, registered |-> known, counted |-> counted]

-----------------------------------------------------------------------------
(* The life of a document                                                   *)

Compose(kind, executor, body, map) ==
    /\ doc = Absent
    /\ doc' = [kind |-> kind, executor |-> executor, body |-> body, map |-> map,
               sig |-> Absent]
    /\ UNCHANGED <<copy, verdict>>

\* What every way to sign does; a signature that is there is replaced.
Signed(key) ==
    /\ doc # Absent /\ copy = Absent
    /\ doc' = [doc EXCEPT !.sig = Signature(key, PayloadOf(doc))]
    /\ UNCHANGED <<copy, verdict>>

\* Refuses a key that is not the executor's.
sign_receipt_in_place(key) ==
    /\ doc # Absent /\ doc.kind = "mesh_receipt"
    /\ key = verifying_key(doc.executor)
    /\ Signed(key)

sign_runtime_receipt_in_place(key) ==
    doc # Absent /\ doc.kind = "runtime_receipt" /\ Signed(key)

with_signature(key) == doc # Absent /\ doc.kind = "credential" /\ Signed(key)

\* The other way to sign a credential refuses one that is signed already.
sign(key) ==
    doc # Absent /\ doc.kind = "credential" /\ doc.sig = Absent /\ Signed(key)

\* The receiver's instance has the same entries in an order of its own; the
\* body is what arrives.
Deliver(map, body) ==
    /\ doc # Absent /\ copy = Absent
    /\ Range(map) = Range(doc.map)
    /\ copy' = [doc EXCEPT !.map = map, !.body = body]
    /\ UNCHANGED <<doc, verdict>>

Verified(d) == d.sig = Signature(verifying_key(d.executor), PayloadOf(d))

Verify(kind) ==
    /\ copy # Absent /\ copy.kind = kind /\ verdict = "none"
    /\ verdict' = IF Verified(copy) THEN "valid" ELSE "invalid"
    /\ UNCHANGED <<doc, copy>>

verify_embedded_signature == Verify("mesh_receipt")

verify_signature == Verify("runtime_receipt")

\* The caller takes the key from the issuer's DID.
verify_detached_jws == Verify("credential")

\* The next document.
Discard == verdict # "none" /\ doc' = Absent /\ copy' = Absent /\ verdict' = "none"

-----------------------------------------------------------------------------
(* Quorums                                                                  *)

WeightSum(ds) == SumFunctionOnSet(Weights, ds)

\* u16 additions, as a release build wraps them.
Wrap(n) == n % WeightRange

Registered(keys) == {d \in Dids : keys[d] # Absent}

\* Those who signed at some positions, or at any.
SignersAt(sigs, positions) == {sigs[i].did : i \in positions}

SignersOf(sigs) == SignersAt(sigs, DOMAIN sigs)

HasDuplicates(sigs) == Cardinality(SignersOf(sigs)) # Len(sigs)

\* The positions of the signatures that count: of a registered DID, by the key
\* registered for it, over this form of the bundle.
ValidSignatures(sigs, form, keys) ==
    {i \in DOMAIN sigs : /\ keys[sigs[i].did] # Absent
                         /\ sigs[i].sig = Signature(keys[sigs[i].did], form)}

\* The rule is the one the proof carries.
QuorumMet(rule, count, valid, allowed) ==
    CASE rule.type = "Majority" -> count * 2 > allowed
      [] rule.type = "Threshold" -> rule.min <= allowed /\ count >= rule.min
      [] rule.type = "Weighted" ->
            /\ valid \subseteq DOMAIN Weights
            /\ Wrap(Wrap(WeightSum(valid)) * 2) > Wrap(WeightSum(DOMAIN Weights))

\* Mutant: a signer is counted as often as it signs.
DuplicatesCounted(p, form, keys) ==
    LET valid == ValidSignatures(p.sigs, form, keys)
    IN  QuorumMet(p.rule, Cardinality(valid), SignersAt(p.sigs, valid),
                  Cardinality(Registered(keys)))

\* QuorumProof::verify
VerifyProof(p, form, keys) ==
    LET valid == ValidSignatures(p.sigs, form, keys)
    IN  /\ ~HasDuplicates(p.sigs)
        /\ QuorumMet(p.rule, Cardinality(valid), SignersAt(p.sigs, valid),
                     Cardinality(Registered(keys)))

\* QuorumConfig::validate_quorum for Majority: every signer is authorized, none
\* signs twice, and there are more than half of them.  signers gives the DID of
\* each signature.
validate_quorum(signers, authorized_dids) ==
    /\ \A i \in DOMAIN signers : signers[i] \in authorized_dids
    /\ Cardinality(Range(signers)) = Cardinality(DOMAIN signers)
    /\ Cardinality(DOMAIN signers) >= Cardinality(authorized_dids) \div 2 + 1

-----------------------------------------------------------------------------
(* TrustValidator                                                           *)

TrustInit ==
    /\ doc = Absent /\ copy = Absent /\ verdict = "none"
    /\ trusted = [d \in Dids |-> Absent]
    /\ proof = Absent /\ bundle = Absent
    /\ asked = Absent /\ authorized = Absent

\* register_signer: a DID that is registered again has the new key.
RegisterSigner(did, key) ==
    /\ trusted' = [trusted EXCEPT ![did] = key]
    /\ UNCHANGED <<proof, bundle, asked, authorized>>

\* QuorumProof::new takes any signatures, and so does its Deserialize.
NewProof(rule, sigs) ==
    /\ proof = Absent
    /\ proof' = [rule |-> rule, sigs |-> sigs]
    /\ UNCHANGED <<trusted, bundle, asked, authorized>>

\* add_signature refuses a DID that has signed.
AddSignature(did, form) ==
    /\ proof # Absent /\ Len(proof.sigs) < MaxProof
    /\ did \notin SignersOf(proof.sigs)
    /\ proof' = [proof EXCEPT !.sigs =
                    Append(@, [did |-> did, sig |-> Signature(KeyOf[did], form)])]
    /\ UNCHANGED <<trusted, bundle, asked, authorized>>

\* set_trust_bundle: the keys stay read-locked while the bundle is verified and
\* replaced; a refused bundle changes nothing.
SetTrustBundle(form) ==
    /\ proof # Absent
    /\ proof' = Absent
    /\ bundle' = IF VerifyProof(proof, form, trusted)
                 THEN [rule |-> proof.rule, registered |-> Registered(trusted),
                       counted |-> SignersAt(proof.sigs, ValidSignatures(proof.sigs, form, trusted))]
                 ELSE bundle
    /\ UNCHANGED <<trusted, asked, authorized>>

\* is_authorized_signer: that there is a bundle, then that the DID is known.
ReadBundle(did) ==
    /\ asked = Absent
    /\ bundle # Absent
    /\ asked' = did
    /\ UNCHANGED <<trusted, proof, bundle, authorized>>

ReadKeys ==
    /\ asked # Absent
    /\ asked' = Absent
    /\ authorized' = IF trusted[asked] # Absent THEN asked ELSE authorized
    /\ UNCHANGED <<trusted, proof, bundle>>

-----------------------------------------------------------------------------
DocStep ==
    \/ \E k \in Kinds, d \in Dids, b \in Bodies, map \in Maps : Compose(k, d, b, map)
    \/ \E key \in Range(KeyOf) :
          \/ sign_receipt_in_place(key)
          \/ sign_runtime_receipt_in_place(key)
          \/ with_signature(key)
          \/ sign(key)
    \/ \E map \in Maps, b \in Bodies : Deliver(map, b)
    \/ verify_embedded_signature
    \/ verify_signature
    \/ verify_detached_jws
    \/ Discard

ValidatorStep ==
    \/ \E r \in Registrations : RegisterSigner(r[1], r[2])
    \/ \E r \in Rules, sigs \in Proofs : NewProof(r, sigs)
    \/ \E d \in Dids, f \in Forms : AddSignature(d, f)
    \/ \E f \in Forms : SetTrustBundle(f)
    \/ \E d \in Dids : ReadBundle(d)
    \/ ReadKeys

-----------------------------------------------------------------------------
\* Types of the documents and of the validator.
TrustTypeOK ==
    /\ verdict \in {"none", "valid", "invalid"}
    /\ doc # Absent => doc.kind \in Kinds /\ doc.executor \in Dids
    /\ doc # Absent /\ doc.sig # Absent => doc.sig.key \in Range(KeyOf)
    /\ trusted \in [Dids -> Range(KeyOf) \cup {Absent}]
    /\ proof # Absent => Len(proof.sigs) <= MaxProof
    /\ {asked, authorized} \subseteq Dids \cup {Absent}

\* What verifies was signed with the key of the DID it names and, for execution
\* receipts and credentials, says what was signed; of a runtime receipt the
\* signature binds the identifiers only.
VerifiedIsSigned ==
    verdict = "valid" =>
        /\ doc.sig # Absent /\ doc.sig.key = KeyOf[copy.executor]
        /\ copy.kind # "runtime_receipt" => copy.body = doc.body

\* A document that arrives as its signer sent it verifies whatever the order of
\* the receiver's map, with two exceptions: an execution receipt with two or more
\* kinds of resources, which verifies only if that order is the signer's, and a
\* runtime receipt or credential signed with a key that is not its issuer's.
SurvivesTransport ==
    verdict # "none" /\ doc.sig # Absent /\ copy.body = doc.body =>
        \/ verdict = "valid"
        \/ copy.kind = "mesh_receipt" /\ Len(copy.map) > 1 /\ copy.map # doc.map
        \/ copy.kind # "mesh_receipt" /\ doc.sig.key # KeyOf[doc.executor]

\* sign_receipt_in_place: "uses CBOR serialization to deterministically serialize
\* the receipt", so that an execution receipt verifies where it arrives as it
\* was signed.
ReceiptVerifies ==
    verdict # "none" /\ doc.sig # Absent /\ doc.kind = "mesh_receipt"
        /\ copy.body = doc.body
      => verdict = "valid"

\* The bundle in force was signed by the quorum its proof names, out of the
\* signers registered when it was accepted: a majority of distinct DIDs, the
\* number asked for, or more than half of the weight, as long as twice the sum
\* of the weights fits a weight.
AcceptedByQuorum ==
    bundle # Absent =>
        LET n == Cardinality(bundle.counted)
            total == WeightSum(DOMAIN Weights)
        IN  /\ bundle.counted \subseteq bundle.registered
            /\ bundle.rule.type = "Majority" =>
                  2 * n > Cardinality(bundle.registered)
            /\ bundle.rule.type = "Threshold" => n >= bundle.rule.min
            /\ bundle.rule.type = "Weighted" /\ 2 * total < WeightRange =>
                  2 * WeightSum(bundle.counted) > total

\* The majority of icn-identity and the majority of icn-types are one: a proof
\* is accepted exactly if validate_quorum accepts its valid signers.
MajoritiesAgree ==
    proof # Absent /\ ~HasDuplicates(proof.sigs) =>
        \A f \in Forms :
            LET valid == ValidSignatures(proof.sigs, f, trusted)
            IN  VerifyProof([proof EXCEPT !.rule = [type |-> "Majority", min |-> 0]],
                            f, trusted)
                  <=> validate_quorum([i \in valid |-> proof.sigs[i].did],
                                      Registered(trusted))

\* The two reads of is_authorized_signer need no common lock: a signer that
\* was found authorized stays registered, and a bundle stays in force.
AuthorizedForGood ==
    authorized # Absent => bundle # Absent /\ trusted[authorized] # Absent

\* A document that verifies was signed as it stands, and a credential that was
\* carried unchanged still verifies.
DocumentsSound == TrustTypeOK /\ VerifiedIsSigned /\ SurvivesTransport

\* A bundle in force had its quorum, by either crate's rule of a majority, and
\* who was authorized by it stays so.
QuorumsSound == AcceptedByQuorum /\ MajoritiesAgree /\ AuthorizedForGood

=============================================================================
