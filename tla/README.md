# OperationProof: formal models

TLA+ modules, TLC runs and TLAPS proofs for OperationProof. Sources are cited as `file.py:line`
relative to `src/operationproof/`.

## 1. The system

OperationProof turns evidence of independent control layers into one document, the
*PRE proof*, that says whether an exact operation may run, and later into a *FINAL proof* that
adds the evidence of its execution. A gateway admits operations whose PRE proof a registry
trusts, hands out a one-time token, and forwards the one request the proof is bound to. With
required provenance every step of that is a signed entry of an append-only chain.

| Part | State | Operations | What makes it correct |
|---|---|---|---|
| Proof builder, verifier (`builder.py`, `verifier.py`, `domain.py`) | none; reads the wall clock | `build_pre_proof`, `build_final_proof`, `verify_proof` | recorded decision and reasons are those of a fresh evaluation; a FINAL proof is bound to the exact PRE it embeds |
| Trust, SDK (`trust.py`, `sdk.py`) | registry, behind which the verifiers have a state of their own; a context variable during a verifier call | `verify_proof_trust`, `assess_proof` | nothing is accepted whose evidence is incomplete, expired, about something else, or not authentic |
| Admission store (`gateway_store.py`) | reserved operations and proofs, live tokens; a lock | `reserve`, `consume` | an operation is admitted once, a token works once, history is never evicted |
| Gateway (`gateway.py`, `gateway_contract.py`) | none of its own besides the running handlers | `POST /v1/admissions`, `/v1/proxy/{path}` | only the bound request of a trusted, unexpired proof is forwarded, at most once |
| Attestation store (`attestation_store.py`) | chains, heads, seen ids; a lock | `head`, `append`, `read` | compare-and-set on the head; chains verify and only grow |
| Provenance recorder (`provenance.py`, `attestation.py`, `observability.py`) | none; a call in progress | `record_event` | success means durable and read back; telemetry only after that, and never decisive |
| Attested gateway (`attested_gateway.py`) | none | wrappers of the store and of the HTTP client, pre-dispatch hook | barrier before dispatch; no event claims what did not happen |
| V-One adapter (`adapters/vone.py`) | a verifier call in progress; V-One keeps grants and witnesses elsewhere | `adapt`, the trust verifier | admission only on an unused grant, a FINAL proof only on an authentic consumption of exactly that grant |
| CASER adapter, receipts (`adapters/caser.py`, `execution.py`) | a call in progress; documents owned by the caller | `adapt`; building and verification of a receipt | PASS only for an execution that ran under this PRE proof, succeeded and is settled, from exactly the documents an authority bound |
| HOWEDO adapter (`adapters/howedo.py`) | a call in progress; documents owned by the caller | `adapt` | continuity evidence repeats a decision taken about this operation |
| Subject binding (`subject_binding.py`) | a call in progress of the binder or the verifier | `bind_evidence_to_subject`, the trust verifier | accepted evidence is its provider's, unaltered, and about the subject it names |
| Receipt and FINAL attestation (`provenance.py`) | a call in progress | `attest_execution_receipt`, `attest_final_proof` | what is attested was verified; one chain is about one execution |
| Timestamps (`rfc3339.py`, `_proof_expiry`, `_record_is_expired`) | none; reads the gateway's clock | parsing, comparison, choice of an expiry | exact order; an admission outlives neither its evidence nor its time to live |
| Body reading (`gateway.py`, `sidecar.py`) | the bytes kept so far | the reading loop, three times | never more than the limit; the outcome does not depend on the chunks |
| Sidecar (`sidecar.py`) | none besides the running request | `POST /v1/assess` | the body is bounded and whole; a report is coherent although the document is verified at two instants |
| Governance, providers and conformance, runtimes, CLI, scripts | none that changes | | see section 7 |

Interaction: the gateway handler runs on the event loop, calls the assessment, the stores and the
hook through a thread pool, and the recorder directly from the wrapped HTTP client. The stores
are shared by all handlers, and by all instances when they are durable. The hard behaviours are
therefore: two handlers between each other's store operations, time that passes while a body or a
barrier is slow, an adapter that fails after its effect, a handler that is cancelled or dies
between a fact and its record, a store at its limit, and, in the adapters, an authority that is slow,
changes its mind, and is asked while the caller still owns the documents. `PROJECT.json` lists each of these
hazards at its line with the properties that are about it.

## 2. Modules

| Module | Models | How |
|---|---|---|
| `OneTimeCapability` | abstract | unknown, granted, spent: once per operation, never back |
| `AdmissionStore` | `gateway_store.py` | `Reserve`, `Consume`, each one critical section; implements `OneTimeCapability` |
| `AttestationStore` | `attestation_store.py`, `verify_provenance_chain` | operators: the tests of `append` (`Appendable`), what it writes (`Persist`), `ReadsBack`, the audit of a chain |
| `ProvenanceRecorder` | `record_event` | per caller: `RecordEvent` (head read, signing, self-verification), `AppendEvent`, `ReadBack`, and the failure of each |
| `GovernedOperation` | abstract | unknown, admitted, spent, open, completed or failed |
| `AttestedGateway` | `gateway.py`, `attested_gateway.py` | composes `AdmissionStore` and `ProvenanceRecorder` (by INSTANCE) with the two handlers; implements `GovernedOperation` |
| `ProofVerifier` | `verifier.py`, `builder.py`, `trust.py`, `sdk.py` | pure operators that follow the functions (`EvidenceReasons`, `FinalReasons`, `IntegrityReasons`, `Trusted`, `Accepted`), and a document that is built, altered and assessed while time passes and the registered verifiers change their answers |
| `TrustStage` | `_verify_evidence_trust` in `trust.py` | the invocation objects and the context variable that refers to them, per thread or task: `Enter`, `Leave`, `Inherit` |
| `VOneGrant` | `adapters/vone.py` | extends `TrustStage`; a verification is cut at every callback (`ReadStage`, `Resolve`, `AskLiveAuthority`, `ResolveWitness`, `Authenticate`), with V-One as environment |
| `ExecutionReceipt` | `execution.py` | operators: `VerifyExecutionReceipt` as a set of reasons, `Buildable` |
| `ExecutionProvenance` | `attest_execution_receipt`, `attest_final_proof` | extends `ProvenanceRecorder`: verify against the clock, compare, and only then call `record_event`; the gateway's events on the same chains |
| `Timestamps` | `rfc3339.py` | operators: `ParseRfc3339`, `TupleLess`, the clock's text with its zeros stripped |
| `AdmissionExpiry` | `_proof_expiry`, `_record_is_expired` | extends `Timestamps`: `ProofExpiry` picks and writes the expiry, `RecordIsExpired` reads it back, a clock finer than the text |
| `BoundedBody` | the three reading loops | `Start` (declared length), `Chunk`, `EndOfStream`, `Broken` |
| `Sidecar` | `sidecar.py` | extends `BoundedBody`: refusals, and `assess_proof` in its thread, cut before each verification, while the clock goes on |
| `CaserVerdict` | the checks and the verdict of `adapters/caser.py` | operators over every combination of strength, scope, class, claims and checks |
| `CaserExecution` | `adapt` of `adapters/caser.py` | extends `CaserVerdict`, `ExecutionReceipt`: cut at the authority callback (`Adapt`, then `Normalize` or `Distrust`); executions, authority and caller as environment |
| `HowedoWitness` | `adapt` of `adapters/howedo.py` | the same cut (`Adapt`, then `Emit` or `Distrust`) |
| `Adapters` | | composes `CaserExecution` and `HowedoWitness` (by INSTANCE), which share no variable |
| `SubjectBinding` | `subject_binding.py` | the binder cut at its callback (`Bind`, `BindReturns`), the verifier at its three (`Verify`, `VerifyNative`, `Resolve`, `VerifyReturns`) |
| `*Proofs` | | theorems and proofs of the module they are named after (`SidecarProofs` also of `BoundedBody`; `ProvenanceRecorderProofs` also of `ExecutionProvenance`; `AdapterProofs` of `CaserVerdict`, `CaserExecution` and `HowedoWitness`) |
| `MC*` | | constants and symmetry for TLC |

Correspondence that is not obvious:

- **Handlers.** `pc[r]` is the place of a request in its handler. A handler is cut at every await,
  thread-pool call and store operation; what lies between two cuts touches only local data. While a
  handler is inside `record_event` its place is the name of the event, and the steps are those of
  `ProvenanceRecorder`. Opening of the upstream stream has no cut between the last expiry check
  and the call, as in `gateway.py:553-562`.
- **Attestations** are named by their `attestation_id`. The digest is a hash over an object that
  contains the id, so the model uses the id where the code compares digests.
- **Documents.** A proof document in the gateway is its operation, subject, target, the expiry
  instants of its evidence, whether the registry trusts it and whether it has the form the gateway
  asks for. `ProofVerifier` has the whole document, with digests as "does it match": `intact`,
  `pre_bound`. Its reasons are sets, since the code sorts and deduplicates them. `FORBIDDEN_LAYER`
  is not a reason of its own: the layer that PRE forbids is also not an allowed one. A FINAL
  proof nests one level; `sdk.py:172-180` refuses more. Nested evaluations and the trust pass read
  the clock again; `ProofVerifier` uses one instant per assessment, `Sidecar` has an instant for each
  of the two verifications of `assess_proof`.
- **Registered verifiers** are callables that are asked anew for every envelope of every assessment
  (`trust.py:124-136`): they look at witnesses, grants, authorities and clocks of their own, or raise.
  An envelope has a `native` document they judge, and `vouched` is what they say yes to at the moment,
  per native document and verification stage. `ProvidersChange` may change it in either direction at any
  time, so that evidence refused now may be vouched for later, as a V-One witness is once the grant
  was consumed. Their answers hold still during one assessment in `ProofVerifier`; `AskVerifiers` of
  `Sidecar` leaves them open. In `AttestedGateway` a document is trusted or not from the start: that it
  becomes so is a client that posts it only then.
- **Documents of the sidecar** are what `assess_proof` tells of them: the form, the recorded decision, and
  `valid`, the instants at which `verify_proof` finds nothing to refuse. `DocumentsAssumption` says that a
  VERIFIED one only ever stops being valid; that is `VerifiedEarlier`, a theorem about the functions
  of `ProofVerifier`. A REJECTED one may also become valid, once what it was rejected for is true.
- **Status codes.** 200 stands for the upstream's own response, whatever its status; 400 also
  stands for 413 and 415.
- **Faults.** With `Faults` the head read, the signature, the append (before or after it is
  durable), the read-back, the token store, the clock and the hook may fail, and a handler may be
  cancelled or its instance die at any place. Where an adapter raises what it is not supposed to,
  an admission may end in the 500 of `gateway.py:413-415`; the model answers 503, and nothing that
  matters here tells them apart. The stores keep their contents: a process restart
  that empties a *memory* store is not modelled, because such a store is documented as ephemeral.
- **Tokens** are 256-bit secrets. A token that some client already holds is not drawn again, and a
  client presents only tokens that were delivered.
- **Verifications.** A run of `VOneGrant` is one call of the verifier, by the registry or directly,
  or one `adapt`. It may be started from inside another run's call, with a copy of its context;
  whether the parent waits for it (a nested call) or not (a child task) makes no difference to what
  the child sees, and the parent may outlive it or end first. A grant in the model is everything
  its two digests cover, so a resolver that returns another document for a digest is the case of
  a refused call. The witness resolver may return any witness at all; `grant_verifier` and
  `consumption_verifier` are taken to tell the truth about V-One at the moment they are asked, as
  the factory's documentation requires (`adapters/vone.py:517-524`).
- **Authorities** of the three adapters are taken to be truthful when they attest a binding, since
  that judgement is all the code leaves to them, and free to withdraw it at any moment. Their answer and
  what the code does with it is one step: a withdrawal after the answer is beyond what the code can
  see. Everybody else may present any document and any binding, mixed, altered or replayed.
- **Digests** over documents are modelled by the content they are computed over, so a binding of a
  digest is a binding of that content. Adapters take a snapshot of the caller's documents before
  they call out; the caller's object is `live` in a call and may change (`Alter`), the snapshot not.
- **CASER.** A check of a verification document that is missing or did not pass is `"ABSENT"`. When a
  binding expires while the authority is asked, the receipt cannot be built and its `ValueError`
  leaves `adapt` instead of a `CaserExecutionError` (`adapters/caser.py:393`); nothing is emitted. An observed value that cannot be hashed makes `adapt` raise
  a `TypeError` (`adapters/caser.py:122`, `:193`), also with nothing emitted; it is not in the model.
- **HOWEDO.** The adapter compares the two ends of a window with each other and not with a clock, and
  puts the expiry on the envelope; that the evidence is refused once it has expired is
  `ProofVerifier`'s concern, as it is the verifier's in the code.
- **Receipts and FINAL proofs** in `ExecutionProvenance` carry, as `until`, the first expiry of their
  evidence. A REJECTED FINAL proof built on evidence that had expired already goes on verifying after
  that; it is one whose `until` lies further ahead. Nothing in the code makes a receipt come before the FINAL proof, makes either unique in
  a chain, or compares the subject of a receipt, which has none: a receipt may even open an
  empty chain for any subject its caller names. The properties claim none of this.
- **Timestamps** are a second, a mark for second 60 and the digits of the fraction, in a base that is
  two in the run, ten in the code and arbitrary in the proofs. Calendar and offset are applied
  already; that is the standard library's work.
- **Body reading.** Bytes are counted, not kept. A content-length line is a number, or -1 for what is
  no decimal number; the gateway insists on at most one such line, the sidecar reads the first.
- **Time** is one monotone clock. The gateway reads its injected clock, the verifier
  `datetime.now`; the model takes them to agree.

## 3. Runs

| Run | Instance | States | Shows |
|---|---|---|---|
| `admission` | store: 3 operations, 3 proofs, 3 tokens, capacity 2; expiry: 2 expiries out of 62 texts, clock of quarter seconds cut to halves, a leap second | 152 686 | one-time tokens, bounded history, refinement of `OneTimeCapability`; exact order of timestamps, an admission never outlives its evidence and loses less than the cut |
| `provenance_recorder` | 2 recorders, 2 operations, 2 proofs, 3 ids, capacity 2, no faults | 68 788 | `CapacityRespected`; `AppendProgress`: refusals only by progress, a full store or a taken id |
| `execution_provenance` | 2 recorders, 2 operations, 2 subjects, 2 proofs, 4 receipts, 3 proofs of an execution, clock 0..1, capacity 2, faults | 1 282 516 | chains verify, success is durable, what is attested was verified, one chain is about one execution |
| `gateway` | 3 requests, 1 operation with 2 proofs, 2 targets, clock 0..2, faults | 495 971 | all safety properties of the composition and the refinement of `GovernedOperation`, with failures, cancellations and deaths |
| `gateway_liveness` | 2 requests, 2 operations, 4 proofs (valid, expiring, untrusted, not PRE/v2), capacity 1, faults | about 52 000 | `Answered` |
| `gateway_order` | 2 requests | | **violated**: `LifecycleOrder` |
| `proof_verifier` | 2 PRE layers and execution, 2 operations, 2 subjects, 2 kinds of native documents, 2 sets of answers, 1 alteration, clock 0..2 | 507 034 | acceptance is exactly `Governed`; builder agrees with verifier; time never brings back what it took away |
| `proof_reproducible` | the same | | **violated**: `Reproducible` |
| `vone_grant` | 2 verifications, 2 grants of different lifetimes, 4 calls (faithful, altered, of another operation), clock 0..2, one revocation | 992 214 | admission means unused, embedded means consumed, no stage laundering |
| `subject_binding` | 2 envelopes, 2 subjects, 3 windows, 1 call, 2 attested bindings, 1 result, clock 0..2 | 1 479 210 | accepted evidence is genuine, correlated and current; binding is reversible |
| `sidecar` | limit 2, bodies up to 4, chunks up to 3, up to 2 content-length lines, all three readers, 8 documents (two that are no proof, REJECTED ones that verify early or late, VERIFIED ones of every expiry), clock 0..2 | 186 982 | the limit holds under any chunks and declarations; reports are coherent and what they accept was valid throughout; every patient peer is answered |
| `adapters` | CASER: 1 execution, 3 PRE proofs, 7 reports, a forged binding, clock 0..1; HOWEDO: 2 operations, 2 decisions, 1 binding, windows that are open, empty or reversed | about 162 000 | PASS and FAIL tell what happened, evidence repeats a decision, emission is current |

`admission` and `adapters` each look at two components that share no variable. A reachable state of
such a pair is a pair of reachable states, and each of the properties reads one component only, so a
behaviour of the MC module runs one (`part`, `adapter`) and leaves the other in its initial state:
nothing is lost against the product.

Why the bounds are enough: the gateway hazards need at most three handlers at once (two competing
posts and a proxy, or a post and two competing proxies) on one operation; a second operation adds
only the competition for capacity, which the store's and the liveness run have. Two proofs with
different expiries for one operation give replay by operation id, by digest, and the pinned anchor. The
clock reaches past one evidence expiry and the end of a TTL. `MaxAttestations` in the gateway run
is 7, so that a second assessment can fill the chain's place for the last event. The recorder's
capacity of two lets one chain fill the store in the middle of a call of another. For the verifier,
two PRE layers suffice for a missing, a duplicated and an unexpected layer; evidence collections have
each defect of an envelope in turn, one kind of native document is always vouched for and the other at
one stage by each set of answers, so its verifier's answers change in both directions, and the alteration edits any field of the document or of its
embedded PRE, with the digests recomputed or not.

For V-One, two verifications are needed for a stage to leak from one to another; two grants let a
witness of one be offered for the other and, with the clock, let a consumption fall before, in and
after a lifetime. For subject binding two envelopes and two subjects let any of them be taken for
another, and two attested bindings let one be withdrawn while its twin stands; calls do not read each
other's state, so one at a time, with the authority moving around it, is every interleaving. For the
adapters, a report that lacks one premise of what it claims is in play for each premise the verdict
has; that the verdict is right on *all* combinations is a theorem (`PassSound`). For receipts, the
documents differ from a good one in one respect each, and two recorders give every race for a head.
For bodies, four is twice the limit, and a chunk of three is larger than the limit. For timestamps,
fractions of up to three binary digits lie on both sides of the two of the clock and the one of the
written expiry.

The invariants that only strengthen others, or that a theorem establishes for every instance, are
not run as well: the `TypeOK` of each module, `LiveCapabilityUnique` and `HistoryKept` of the store,
`HeadIsLast`, `StaleHeadDetected` and `AppendOnly` of the recorder. They are theorems of section 5.

Symmetry is used on requests, recorders, verifications, ids and canonical subjects, in runs of safety
properties only. Deadlock is checked in the gateway and recorder runs. It is not where the system
legally ends: no token left and the clock at its bound (`admission`), clock and alterations at
their bounds (`proof_verifier`), all calls over (`vone_grant`, `adapters`), results and clock at
their bounds (`subject_binding`), the answer given (`sidecar`).

Every property has a faulty variant of a modelled definition (`ConsumeWithoutPop`, `FreshEnough`,
`RecordingFailureIgnored`, ...) that breaks it; these stand next to the definition and are used
by nothing else.

### Two disagreements with the documentation

- `gateway_order`. `docs/ATTESTATIONS.md:102-111` lists the required events beginning with
  `proof_assessed`. The wrapper records it before the store has seen a replay
  (`attested_gateway.py:36-50`), so posting an admitted proof again appends `proof_assessed` behind
  whatever the chain has reached, and only then is answered 409. The order that does hold is
  `LifecyclePrefix`: assessments apart, the events come in the documented order, none twice.
- `proof_reproducible`. `docs/CONSTITUTION.md:41`, I11: "Proof verification must be reproducible
  from canonical recorded inputs." `verify_proof` has no time among its inputs and reads the wall
  clock (`verifier.py:140`): a VERIFIED document nobody touched later fails verification, with
  `DECISION_MISMATCH` and `REASON_CODES_MISMATCH`, because what it records is no longer what a fresh
  evaluation gives. What does hold is `NoResurrection`: what `verify_proof` refuses of a VERIFIED
  document stays refused, and only another answer of a registered verifier turns a refusal into an
  acceptance.

Also visible in the model, and in agreement with the code's comments: when recording
`admission_created` fails, or a second handler wins the race for the chain's head, the operation
stays reserved and no client has its token.

## 4. Fairness

`Spec` of the gateway has weak fairness on the steps of each handler, and that of the recorder on
the steps of each call. The code justifies it: the only locks are held for a bounded computation,
no step waits for another handler, the upstream is bounded by `upstream_timeout_seconds` (in the client the gateway makes for itself,
`gateway.py:392`; one that is injected has to bring a timeout of its own), and the event loop and the thread pool keep running what is ready. There is no fairness for a client:
`ReadBody` may wait for ever, and `Answered` says so by stopping at `"body"`. There is none for the
clock either.

`provenance_recorder` runs `FaultFreeSpec`, the same specification without `Die` and
`ReadBackRefused`, which are never enabled without `Faults`: `AppendProgress` says why an append is
refused when no adapter is to blame.

`sidecar` has weak fairness on `Advance`: the event loop and the thread pool run what is ready, and
the peer goes on sending, at least one byte at a time, to the end of its stream. That a peer goes
away (`Broken`) is possible and does not count as progress, so `Answered` is not owed to it. A peer
that stalls gets no answer from this code, whatever the server around it does.

## 5. Proofs

All theorems hold for every value of the constants that satisfies the `ASSUME`s of the modules, in
particular for any number of operations, tokens, recorders and layers.

- `AdmissionProofs`. For the store, the inductive invariant adds to the checked properties that
  handed-out operations are reserved and that the history is finite, without which `Cardinality` says
  nothing. From it: at-most-once consumption, uniqueness of live tokens, the bound, no eviction, and
  that every step maps to a step or a stutter of `OneTimeCapability`.
  For the expiry, the state needs little (`ExpiryInv`: the record is what the evidence and the
  instant kept with it determine); the argument is about the data, for any base, any precision of the
  clock and of the text, and any table of leap seconds. `Lexicographic` orders functions from
  positions to numbers; comparing parsed texts (`KeyFirst`, with `FractionLessIsBelow`: the tail
  test pads with zeros) and comparing strings (`StringOrder`) are both instances, so both orders are
  transitive and what `min()` picks has nothing before it (`EarliestFacts`, `ChosenFacts`).
  `FractionOrder` makes the order of digits the order of the numbers, `Leaps` makes the order of whole
  seconds exact across leap seconds (`Exact`), `FractionOfDigits` says the clock's digits stand
  for the clock, and `TtlFacts` that the cut to milliseconds loses less than one. Induction over the
  digits is by the least counterexample (`SetInduction`). From it: `ExactOrder`, `Limits`, `Reasons`.
- `ProvenanceRecorderProofs`. `ChainVerifies` is not inductive: that an appended entry fits depends
  on the head, that heads agree depends on what callers hold between two critical sections, and
  freshness of ids on what is in the chains. `IInv` adds `IdsSeen` (every stored id is in
  `seen_ids`) and `CallsKnow` (what a call in progress holds was true of the store when it was read
  and is still a possible past of it). From it: the chain audit, head agreement, durability of
  success, no unnoticed stale head, and that chains only grow. `WithinCapacity` counts: the places
  taken (`Stored`, pairs of an operation and an index) are finite and as many as the ids seen, and an
  append takes a place and an id that were both free.
  For `ExecutionProvenance` the first step is that each of its steps is a step of the recorder
  (`ProvenanceRecords`), which gives it `IInv`; `PInv` then says that what is verified, what a call
  carries and what the chain holds is `Checked`: valid at the instant noted with it and about the
  operation, proof and subject it is recorded under. `ChainIsOneExecution` is that and the chain
  audit, which makes all entries of a chain agree on their proof and subject.
- `ProofVerifierProofs`. `Soundness` is about the functions, for any document at all: whatever
  `Accepted` accepts is `Governed`. It follows the structure of the code: a clean list of reasons
  means a complete, unexpired, matching evidence set, and a recorded decision that matches a fresh
  evaluation means the reasons are clean. `VerifiedEarlier` says that validity of a VERIFIED document
  is monotone towards the past, for PRE and FINAL documents: a clean evidence set was clean before, and a
  recorded decision VERIFIED fits no other set. `AcceptedEarlier` has the answers of the verifiers as
  parameters: for a document accepted at one time under some answers, acceptance at any earlier time
  under any other answers is exactly that those vouch for all of its evidence, so nothing but the
  verifiers decides. `RefusalIsFinal` is the action property that follows. `Completeness` is the converse of
  soundness: only `EXPIRED_EVIDENCE` depends on the instant, so a VERIFIED document that verified once
  is accepted whenever it is governed. The invariant behind `AcceptanceComplete` is
  `UntouchedWasValid`: a VERIFIED document nobody touched did verify at some instant, the one of its
  building. It rests on `BuiltPreValid` and `BuiltFinalValid`, of which `BuildersAgree` is the other
  consequence: a FINAL proof built on an expired PRE proof is REJECTED and does not verify either.
- `VOneGrantProofs`. `IInv` adds that witnesses are genuine (V-One consumes only issued grants),
  what a verification has established at each place (`ProgressSound`, `Validated`), and
  `InvocationsScoped`: the invocation of a run is active exactly while the registry is in its call.
  From it: what acceptance means at either stage, and `StagesScoped`, that a thread or task which
  inherited a context is judged at the embedded stage only while the registry is in such a call.
  The assumption is that V-One's two verifiers are truthful; nothing is assumed of the resolvers,
  the callers or the envelopes.
- `AttestedGatewayProofs`. For any number of requests, any documents and any faults: one dispatch per
  operation, authorised, unexpired and behind the barrier; every event of a chain true; no
  unattested success; no refusal with an effect. None of these is inductive. The invariant `IInv` has
  a shared part (`Granted`: what a live token stands for; `SpentOnce`; `Anchored`: one proof per
  chain; `Dispatched` and `Facts`: the history of the wire), a part per request (`Data`, `Barrier`,
  `Call`, `Stream_`, `Answer_`: what its place says of its data, the chain, its call, the wire and its
  answer) and a part per pair (`Distinct`: no two requests carry one operation to its dispatch, or
  one token to a client). Most actions change only what their request owns:
  `LocalStep` says so once, `LocalStepKeeps` concludes, and each action has a lemma that it is
  `Fine`. The others (`Reserve`, the successful `Consume` and `Dispatch`, `AppendEvent`,
  `DeliverToken`) rest on `Bystander`: whatever a request does, what the others rely on stays. The
  bound on the expiry, a minimum over a set that may be infinite, is `EarliestExpiry`, by
  well-foundedness of the order on the naturals. `DocumentedOrder` needs `LInv` on top: what
  each place of a request says about the events that are *not* yet in the chain (`Fresh`). That a
  request about to record an event is the only one that can (`SoleRecorder`) follows from `Distinct`.
  `Governance` is the refinement of `GovernedOperation`: the stage of an operation is read off the
  replay history, the consumed tokens and its stream, every action moves the stage of at most one
  operation, and by at most one step (`StepsAreGoverned`). `NullAssumption`, that the two null values are no
  records, is all that is assumed besides the types of the constants.
- `AdapterProofs`. `PassSound` and its counterpart for FAIL are about the verdict alone, on every
  document; `IInv` says that a call carries the documents of its binding (`CallBound`) and that
  bindings are true. Together: PASS and FAIL evidence is true of the execution. `EmissionCurrent` is
  the action property: vouched for and not expired at that moment (the start of a binding's validity is
  compared with its end only, in the code as in the model). For HOWEDO, `HInv` follows the statement behind a witness digest: an attested
  binding is about a statement HOWEDO made (`StatementBound`), a waiting call's document and binding
  have that digest, and the document is what it is a digest of (`WitnessBound`), so the evidence
  repeats the statement (`ContinuityTrue`). The assumption is a truthful authority for each.
- `SubjectBindingProofs`. `IInv` says what the calls carry at each place (`BinderKnows`,
  `VerifierKnows`): the envelope that was taken apart, that its native form was verified, and that
  the binding's window was met at some instant since the call began. From it: correlation,
  reversibility, and that an acceptance is current. The resolver is not trusted, nor is the caller.
- `SidecarProofs`. `Held` says what the place in the loop says of the bytes taken so far. From it: the
  limit for every limit, body and division into chunks, that the outcome is `Deserved`.
  `AssessmentInv` says what a request knows while its assessment is under way: a VERIFIED document that
  was found invalid stays so, and a second verification that found nothing comes after the body arrived.
  A document valid at that instant was therefore valid all the way back to the arrival (`ValidBefore`,
  from `DocumentsAssumption`), which is why fields of two instants never contradict each other
  (`ReportsCohere`).

Only model-checked: the liveness properties `AppendProgress` and `Answered`, which are out of the
prover's reach because they need fairness. Every other property of a passing run is a theorem.

## 6. Reading order

`AdmissionStore`, `AttestationStore`, `ProvenanceRecorder`, `AttestedGateway`; `ProofVerifier`,
`TrustStage`, `VOneGrant`; `CaserVerdict`, `ExecutionReceipt`, `CaserExecution`, `HowedoWitness`,
`SubjectBinding`, `ExecutionProvenance`; `Timestamps`, `AdmissionExpiry`, `BoundedBody`, `Sidecar`.
Each `*Proofs` module after its subject.

## 7. Plan

Done, in this order: the admission store; attestation store and recorder; the attested gateway;
proof verifier and builder; verification stages and V-One grants; CASER and receipts, HOWEDO, subject
binding; timestamps, body reading and the sidecar; receipt and FINAL attestation; the gateway's proofs; the
order of the lifecycle, the refinements and the remaining invariants of recorder, verifier and
adapters; exactness of the timestamps and the limits of an admission. Nothing of the plan is left.

Not planned: `governance.py`, `conformance.py`, `provider.py`, `providers.py`, `cli.py`, the runtimes and the
scripts, which are static checks, an interface, a test kit and start-up code without a protocol of
their own.
