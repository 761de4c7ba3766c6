--------------------------- MODULE AttestedGateway ---------------------------
(***************************************************************************)
(* The gateway (gateway.py) composed with required provenance              *)
(* (attested_gateway.py): the handlers create_admission and proxy, the     *)
(* wrappers AttestedGatewayAdmissionStore and AttestedHTTPClient, and the  *)
(* pre-dispatch hook, over the admission store and the provenance recorder *)
(* of their own modules.  Requests run concurrently, on one instance or on *)
(* several that share durable stores; a request is one run of a handler,   *)
(* cut into steps at every await, thread-pool call and store operation.    *)
(*                                                                         *)
(* pc[r] is the place of request r.  A handler that is inside a call of    *)
(* record_event has the name of the event as its pc, and the steps of the  *)
(* call itself are those of ProvenanceRecorder.                            *)
(*                                                                         *)
(* Data is abstracted to what the handlers compare.  A proof document is   *)
(* its operation, subject, target, the expiry instants of its evidence,    *)
(* whether the registry trusts it, and whether it has the form the gateway *)
(* requires (v2, PRE, expiry on every envelope).  Parsing and size limits  *)
(* of bodies are one "malformed" outcome.  With Faults the adapters may    *)
(* fail and instances may die; see ProvenanceRecorder.                     *)
(***************************************************************************)
EXTENDS Naturals, Sequences, FiniteSets, FiniteSetsExt

CONSTANTS
    Requests,                       \* runs of the two handlers
    Operations, Subjects, Proofs, Targets, Tokens,
    Doc,                            \* proof digest -> content of the document
    TTL, MaxTime,                   \* admission_ttl_seconds; bound of the clock
    MaxRecords, MaxAttestations,
    Faults,
    NoRecord, NoHead, NoAttestation, GENESIS, NoInput

Events == {"proof_assessed", "admission_created", "admission_consumed",
           "upstream_dispatch_prepared", "upstream_dispatched",
           "upstream_completed", "upstream_failed"}

Document == [operation_id : Operations, subject_digest : Subjects,
             target_digest : Targets, expiries : SUBSET Nat,
             trusted : BOOLEAN, pre_v2 : BOOLEAN]

ASSUME GatewayAssumption ==
    /\ Doc \in [Proofs -> Document]
    /\ \A p \in Proofs : Doc[p].expiries # {}
    /\ TTL \in Nat \ {0} /\ MaxTime \in Nat
    /\ NoInput \notin Proofs \cup Tokens \cup Targets

VARIABLES
    reserved_operations, reserved_proofs, tokens, consumptions,  \* admission store
    heads, records, seen_ids,       \* attestation store
    calls,                          \* the record_event call of each request
    now,                            \* the clock of the gateway
    pc, input, held,                \* place, request data and admission record in hand
    answer,                         \* status sent to the client, 0 while there is none
    delivered,                      \* tokens that clients have received
    network,                        \* what happened on the wire for each request
    dispatches                      \* history: every opening of the upstream stream

Admission == INSTANCE AdmissionStore WITH Times <- 0..(MaxTime + TTL)
Recorder == INSTANCE ProvenanceRecorder WITH
    Recorders <- Requests, Ids <- Requests \X Events, ExportOutcomes <- {FALSE}

ASSUME NullAssumption ==
    NoRecord \notin Admission!Record /\ NoHead \notin Recorder!StoreHead

admission == <<reserved_operations, reserved_proofs, tokens, consumptions>>
provenance == <<heads, records, seen_ids, calls>>
handler == <<pc, input, held, answer>>
wire == <<network, dispatches>>
vars == <<admission, provenance, now, handler, delivered, wire>>

Places == Events \cup {"idle", "assess", "admit", "reserve", "consume", "check",
                       "body", "dispatch", "stream", "response", "done"}
Input == [proof : Proofs \cup {NoInput}, token : Tokens \cup {NoInput},
          target : Targets \cup {NoInput}]
Blank == [proof |-> NoInput, token |-> NoInput, target |-> NoInput]
WireStates == {"none", "opening", "entered", "complete", "aborted", "broken"}
Statuses == {0, 200, 201, 400, 401, 403, 409, 500, 502, 503}

TypeOK ==
    /\ Admission!TypeOK /\ Recorder!TypeOK
    /\ now \in 0..MaxTime
    /\ pc \in [Requests -> Places]
    /\ input \in [Requests -> Input]
    /\ held \in [Requests -> Admission!Record \cup {NoRecord}]
    /\ answer \in [Requests -> Statuses]
    /\ delivered \in SUBSET Tokens
    /\ network \in [Requests -> WireStates]
    /\ \A d \in dispatches :
         d.request \in Requests /\ d.record \in Admission!Record
         /\ d.target \in Targets /\ d.at \in 0..MaxTime

Init ==
    /\ Admission!Init /\ Recorder!Init
    /\ now = 0
    /\ pc = [r \in Requests |-> "idle"]
    /\ input = [r \in Requests |-> Blank]
    /\ held = [r \in Requests |-> NoRecord]
    /\ answer = [r \in Requests |-> 0]
    /\ delivered = {}
    /\ network = [r \in Requests |-> "none"]
    /\ dispatches = {}

-------------------------------------------------------------------------------
(* Moving on, and answering.  A finished handler forgets its local data.    *)
Goto(r, place) ==
    /\ pc' = [pc EXCEPT ![r] = place]
    /\ UNCHANGED answer

Answer(r, status) ==
    /\ pc' = [pc EXCEPT ![r] = "done"]
    /\ answer' = [answer EXCEPT ![r] = status]
    /\ input' = [input EXCEPT ![r] = Blank]
    /\ held' = [held EXCEPT ![r] = NoRecord]

Keep == UNCHANGED <<input, held>>

(* _record_is_expired at the current reading of the clock.                  *)
Expired(record) == record.expires_at <= now

(* _proof_expiry: the earliest evidence expiry or the end of the TTL.       *)
Expiry(p) == Min(Doc[p].expiries \cup {now + TTL})

(* _admission_record                                                        *)
AdmissionRecord(p) ==
    [operation_id |-> Doc[p].operation_id, proof_digest |-> p,
     target_digest |-> Doc[p].target_digest, issued_at |-> now, expires_at |-> Expiry(p)]

-------------------------------------------------------------------------------
(* POST /v1/admissions                                                      *)

(* Media type, encoding, size or JSON of the body are wrong: no effect.     *)
(* 400 stands for 413 and 415 too.                                          *)
MalformedProof(r) ==
    /\ pc[r] = "idle"
    /\ Answer(r, 400)
    /\ UNCHANGED <<admission, provenance, now, delivered, wire>>

PostAdmission(r, p) ==
    /\ pc[r] = "idle"
    /\ input' = [input EXCEPT ![r].proof = p]
    /\ Goto(r, "assess")
    /\ UNCHANGED <<admission, provenance, now, held, delivered, wire>>

(* assess_proof with the trust registry: accepted means trusted and every   *)
(* envelope unexpired at the time of the verification.                      *)
Accepted(p) == Doc[p].trusted /\ \A x \in Doc[p].expiries : x > now

Assess(r) ==
    /\ pc[r] = "assess"
    /\ IF Accepted(input[r].proof) THEN Goto(r, "admit") /\ Keep ELSE Answer(r, 403)
    /\ UNCHANGED <<admission, provenance, now, delivered, wire>>

(* The clock is read and the record built once the assessment is back.      *)
Admit(r) ==
    /\ pc[r] = "admit"
    /\ LET p == input[r].proof IN
       \/ /\ Doc[p].pre_v2 /\ Expiry(p) > now
          /\ held' = [held EXCEPT ![r] = AdmissionRecord(p)]
          /\ Goto(r, "proof_assessed")
          /\ UNCHANGED input
       \/ /\ ~(Doc[p].pre_v2 /\ Expiry(p) > now)
          /\ Answer(r, 403)
       \/ Faults /\ Answer(r, 503)
    /\ UNCHANGED <<admission, provenance, now, delivered, wire>>

(* The underlying store reserves and returns a token.  Tokens are 256-bit   *)
(* secrets, so a token clients already know is not drawn again.             *)
Reserve(r) ==
    /\ pc[r] = "reserve"
    /\ \E t \in Tokens \ delivered :
         /\ Admission!Reserve(held[r], t)
         /\ \/ /\ input' = [input EXCEPT ![r].token = t]
               /\ Goto(r, "admission_created")
               /\ UNCHANGED held
            \/ Faults /\ Answer(r, 503)
    /\ UNCHANGED <<provenance, now, delivered, wire>>

(* The store raises: a replay is 409, everything else 503.                  *)
ReserveRefused(r) ==
    /\ pc[r] = "reserve"
    /\ \/ Admission!Replayed(held[r]) /\ Answer(r, 409)
       \/ /\ ~Admission!Replayed(held[r])
          /\ Faults \/ Admission!CapacityExceeded \/ Admission!TokensExhausted
          /\ Answer(r, 503)
    /\ UNCHANGED <<admission, provenance, now, delivered, wire>>

-------------------------------------------------------------------------------
(* /v1/proxy/{path}                                                         *)

(* No token, several, or none that a store could have issued: no effect.    *)
MalformedToken(r) ==
    /\ pc[r] = "idle"
    /\ Answer(r, 401)
    /\ UNCHANGED <<admission, provenance, now, delivered, wire>>

ProxyRequest(r, t, g) ==
    /\ pc[r] = "idle"
    /\ t \in delivered
    /\ input' = [input EXCEPT ![r] = [proof |-> NoInput, token |-> t, target |-> g]]
    /\ Goto(r, "consume")
    /\ UNCHANGED <<admission, provenance, now, held, delivered, wire>>

(* The token is consumed before anything else is looked at.                 *)
Consume(r) ==
    /\ pc[r] = "consume"
    /\ LET t == input[r].token IN
       \/ /\ Admission!Consume(t)
          /\ \/ /\ held' = [held EXCEPT ![r] = tokens[t]]
                /\ Goto(r, "admission_consumed")
                /\ UNCHANGED input
             \/ Faults /\ Answer(r, 500)
       \/ /\ \/ ~Admission!Live(t) /\ Answer(r, 401)
             \/ Faults /\ Answer(r, 500)
          /\ UNCHANGED admission
    /\ UNCHANGED <<provenance, now, delivered, wire>>

(* First expiry check, right after the consumption.                         *)
Check(r) ==
    /\ pc[r] = "check"
    /\ \/ Expired(held[r]) /\ Answer(r, 401)
       \/ ~Expired(held[r]) /\ Goto(r, "body") /\ Keep
       \/ Faults /\ Answer(r, 503)
    /\ UNCHANGED <<admission, provenance, now, delivered, wire>>

TargetMatches(r) == input[r].target = held[r].target_digest

(* The client's body has arrived, however long that took: the target is     *)
(* compared and the expiry checked a second time.                           *)
ReadBody(r) ==
    /\ pc[r] = "body"
    /\ \/ Answer(r, 400)
       \/ ~TargetMatches(r) /\ Answer(r, 403)
       \/ TargetMatches(r) /\ Expired(held[r]) /\ Answer(r, 401)
       \/ TargetMatches(r) /\ ~Expired(held[r]) /\ Goto(r, "upstream_dispatch_prepared") /\ Keep
       \/ Faults /\ Answer(r, 503)
    /\ UNCHANGED <<admission, provenance, now, delivered, wire>>

(* Faulty variant: the second check is trusted after the slow barrier.      *)
FreshEnough(r) == TRUE

(* Third expiry check; nothing is awaited between it and the stream.        *)
FreshAtDispatch(r) == ~Expired(held[r])

(* Faulty variant: the stream is opened before the expiry is looked at.      *)
DispatchThenCheck(r) ==
    /\ pc[r] = "dispatch"
    /\ network' = [network EXCEPT ![r] = "opening"]
    /\ dispatches' = dispatches \cup
         {[request |-> r, record |-> held[r], target |-> input[r].target, at |-> now]}
    /\ IF FreshAtDispatch(r) THEN Goto(r, "stream") /\ Keep ELSE Answer(r, 401)
    /\ UNCHANGED <<admission, provenance, now, delivered>>

(* The upstream stream is opened, or the admission has expired meanwhile.   *)
Dispatch(r) ==
    /\ pc[r] = "dispatch"
    /\ \/ /\ FreshAtDispatch(r)
          /\ Goto(r, "stream") /\ Keep
          /\ network' = [network EXCEPT ![r] = "opening"]
          /\ dispatches' = dispatches \cup
               {[request |-> r, record |-> held[r], target |-> input[r].target, at |-> now]}
       \/ ~FreshAtDispatch(r) /\ Answer(r, 401) /\ UNCHANGED wire
       \/ Faults /\ Answer(r, 503) /\ UNCHANGED wire
    /\ UNCHANGED <<admission, provenance, now, delivered>>

Wire(r, state) ==
    /\ network' = [network EXCEPT ![r] = state]
    /\ UNCHANGED dispatches

(* Faulty variant: the dispatch is claimed whatever the transport does.      *)
StreamClaimed(r) ==
    /\ pc[r] = "stream"
    /\ \/ Wire(r, "entered") /\ Goto(r, "upstream_dispatched")
       \/ Wire(r, "aborted") /\ Goto(r, "upstream_dispatched")
    /\ Keep
    /\ UNCHANGED <<admission, provenance, now, delivered>>

(* The response head arrives, or the transport fails or times out.          *)
Stream(r) ==
    /\ pc[r] = "stream"
    /\ \/ Wire(r, "entered") /\ Goto(r, "upstream_dispatched")
       \/ Wire(r, "aborted") /\ Goto(r, "upstream_failed")
    /\ Keep
    /\ UNCHANGED <<admission, provenance, now, delivered>>

(* The response body is read to its end, or is too large or breaks off.     *)
Response(r) ==
    /\ pc[r] = "response"
    /\ \/ Wire(r, "complete") /\ Goto(r, "upstream_completed")
       \/ Wire(r, "broken") /\ Goto(r, "upstream_failed")
    /\ Keep
    /\ UNCHANGED <<admission, provenance, now, delivered>>

-------------------------------------------------------------------------------
(* record_event inside a handler                                            *)

(* Faulty variant: completion is claimed on the response head.              *)
NextPlaceEager(r) ==
    CASE pc[r] = "proof_assessed" -> "reserve"
      [] pc[r] = "admission_consumed" -> "check"
      [] pc[r] = "upstream_dispatch_prepared" -> "dispatch"
      [] pc[r] = "upstream_dispatched" -> "upstream_completed"

(* Where the handler goes on once its event is recorded.                    *)
NextPlace(r) ==
    CASE pc[r] = "proof_assessed" -> "reserve"
      [] pc[r] = "admission_consumed" -> "check"
      [] pc[r] = "upstream_dispatch_prepared" -> "dispatch"
      [] pc[r] = "upstream_dispatched" -> "response"

(* The handler calls record_event for its current event.                    *)
StartRecording(r) ==
    /\ pc[r] \in Events
    /\ LET o == held[r].operation_id
           p == held[r].proof_digest
           s == Doc[p].subject_digest IN
       \/ Recorder!RecordEvent(r, o, s, p, pc[r], <<r, pc[r]>>, TRUE)
       \/ Recorder!RecordRefused(r, o, s, p, TRUE)
    /\ UNCHANGED <<admission, now, handler, delivered, wire>>

Recording(r) ==
    /\ Recorder!Step(r)
    /\ UNCHANGED <<admission, now, handler, delivered, wire>>

(* The creation of the admission is recorded: the token goes out.           *)
DeliverToken(r) ==
    /\ pc[r] = "admission_created" /\ calls[r].pc = "ok"
    /\ Recorder!Return(r)
    /\ delivered' = delivered \cup {input[r].token}
    /\ Answer(r, 201)
    /\ UNCHANGED <<admission, now, wire>>

(* The outcome is recorded: the upstream's response, whose status 200       *)
(* stands for, or the gateway's own error goes out: 502, or 500 when the    *)
(* HTTP library raised something that is not an HTTPError.                  *)
Respond(r) ==
    /\ calls[r].pc = "ok"
    /\ \/ pc[r] = "upstream_completed" /\ Answer(r, 200)
       \/ pc[r] = "upstream_failed" /\ Answer(r, 502)
       \/ Faults /\ pc[r] = "upstream_failed" /\ Answer(r, 500)
    /\ Recorder!Return(r)
    /\ UNCHANGED <<admission, now, delivered, wire>>

(* Any other event is recorded: the handler goes on.                        *)
Proceed(r) ==
    /\ pc[r] \notin {"admission_created", "upstream_completed", "upstream_failed"}
    /\ calls[r].pc = "ok"
    /\ Recorder!Return(r)
    /\ Goto(r, NextPlace(r)) /\ Keep
    /\ UNCHANGED <<admission, now, delivered, wire>>

(* What the client sees when the recorder raises.  The admission wrapper    *)
(* and the hook map it to 503; out of consume() and of the HTTP client it   *)
(* reaches the handler of unexpected exceptions.                            *)
FailureStatus(r) ==
    IF pc[r] \in {"proof_assessed", "admission_created", "upstream_dispatch_prepared"}
    THEN 503 ELSE 500

(* Faulty variant: provenance is best effort, the handler goes on.          *)
RecordingFailureIgnored(r) ==
    /\ calls[r].pc = "failed"
    /\ Recorder!Return(r)
    /\ IF pc[r] \in {"admission_created", "upstream_completed", "upstream_failed"}
       THEN Answer(r, 200) ELSE Goto(r, NextPlace(r)) /\ Keep
    /\ UNCHANGED <<admission, now, delivered, wire>>

(* Faulty variant: the handler calls the recorder again until it succeeds.   *)
RecordingRetried(r) ==
    /\ calls[r].pc = "failed"
    /\ Recorder!Return(r)
    /\ UNCHANGED <<admission, now, handler, delivered, wire>>

(* Required provenance: the handler gives up.                               *)
RecordingFailed(r) ==
    /\ calls[r].pc = "failed"
    /\ Recorder!Return(r)
    /\ Answer(r, FailureStatus(r))
    /\ UNCHANGED <<admission, now, delivered, wire>>

-------------------------------------------------------------------------------
(* The environment: time passes, a handler is cancelled or its instance     *)
(* dies at any place; the stores are durable and keep what they have.       *)
Tick ==
    /\ now < MaxTime
    /\ now' = now + 1
    /\ UNCHANGED <<admission, provenance, handler, delivered, wire>>

Abandon(r) ==
    /\ Faults
    /\ pc[r] \notin {"idle", "done"}
    /\ Answer(r, 0)
    /\ calls' = [calls EXCEPT ![r] = Recorder!Idle]
    /\ UNCHANGED <<admission, heads, records, seen_ids, now, delivered, wire>>

(* Steps of a handler that depend on nobody but the gateway, its adapters   *)
(* and the upstream, which httpx bounds with a timeout.                     *)
HandlerStep(r) ==
    \/ Assess(r) \/ Admit(r) \/ Reserve(r) \/ ReserveRefused(r)
    \/ Consume(r) \/ Check(r) \/ Dispatch(r) \/ Stream(r) \/ Response(r)
    \/ StartRecording(r) \/ Recording(r) \/ RecordingFailed(r)
    \/ DeliverToken(r) \/ Respond(r) \/ Proceed(r)

ClientStep(r) ==
    \/ MalformedProof(r) \/ MalformedToken(r)
    \/ \E p \in Proofs : PostAdmission(r, p)
    \/ \E t \in Tokens, g \in Targets : ProxyRequest(r, t, g)
    \/ ReadBody(r)

AllDone == (\A r \in Requests : pc[r] = "done") /\ UNCHANGED vars

Next ==
    \/ \E r \in Requests : HandlerStep(r) \/ ClientStep(r) \/ Abandon(r)
    \/ Tick
    \/ AllDone

(* The event loop and the thread pool keep running every handler; a client  *)
(* may stall its body for ever.                                             *)
Spec == Init /\ [][Next]_vars /\ \A r \in Requests : WF_vars(HandlerStep(r))

-------------------------------------------------------------------------------
Chain(o) == [i \in 1..Len(records[o]) |-> records[o][i].artifact_type]
Claimed(o, e) == \E i \in 1..Len(records[o]) : records[o][i].artifact_type = e

(* However proofs are posted again, tokens presented again and handlers     *)
(* interrupted, the upstream stream is opened at most once per operation.   *)
AtMostOneDispatch ==
    \A d, e \in dispatches :
        d.record.operation_id = e.record.operation_id => d = e

(* A stream is opened only for a trusted PRE/v2 proof, towards the target   *)
(* that proof is bound to, and at an instant at which every piece of its    *)
(* evidence and the time to live of the admission are unexpired, however    *)
(* long the body and the barrier took.                                      *)
DispatchAuthorised ==
    \A d \in dispatches :
        LET doc == Doc[d.record.proof_digest] IN
        /\ doc.trusted /\ doc.pre_v2
        /\ d.target = doc.target_digest
        /\ d.record.operation_id = doc.operation_id
        /\ \A x \in doc.expiries : d.at < x
        /\ d.at < d.record.issued_at + TTL

(* The barrier: before a stream is opened, the chain of its operation holds *)
(* creation, consumption and preparation, anchored to the proof that was    *)
(* admitted.                                                                *)
DispatchFollowsBarrier ==
    \A d \in dispatches :
        LET o == d.record.operation_id IN
        /\ \A e \in {"proof_assessed", "admission_created", "admission_consumed",
                     "upstream_dispatch_prepared"} : Claimed(o, e)
        /\ \A i \in 1..Len(records[o]) : records[o][i].proof_digest = d.record.proof_digest

(* "Records no false success claim": every event in a chain is true of the  *)
(* stores or of the wire.                                                   *)
ClaimsFollowFacts ==
    \A o \in Operations :
        LET wires == {network[d.request] :
                      d \in {x \in dispatches : x.record.operation_id = o}} IN
        /\ Claimed(o, "admission_created") => o \in reserved_operations
        /\ Claimed(o, "admission_consumed") => consumptions[o] = 1
        /\ Claimed(o, "upstream_dispatched") =>
             wires \cap {"entered", "complete", "broken"} # {}
        /\ Claimed(o, "upstream_completed") => "complete" \in wires
        /\ Claimed(o, "upstream_failed") => wires \cap {"aborted", "broken"} # {}

(* The upstream's response reaches the client only when its completion is   *)
(* in the chain.                                                            *)
SuccessIsAttested ==
    \A d \in dispatches :
        answer[d.request] = 200 => Claimed(d.record.operation_id, "upstream_completed")

(* When the gateway itself answers with an error below 500, or with 503,    *)
(* the request had no effect upstream and the client may believe it.        *)
RefusalHadNoEffect ==
    \A r \in Requests : answer[r] \in {400, 401, 403, 409, 503} => network[r] = "none"

(* The order docs/ATTESTATIONS.md gives: what has to be in a chain, and what *)
(* must not be, when event e is appended.                                   *)
MayFollow(past, e) ==
    \/ e = "proof_assessed"
    \/ /\ e \notin past
       /\ \/ e = "admission_created" /\ "proof_assessed" \in past
          \/ e = "admission_consumed" /\ "admission_created" \in past
          \/ e = "upstream_dispatch_prepared" /\ "admission_consumed" \in past
          \/ e = "upstream_dispatched" /\ "upstream_dispatch_prepared" \in past
             /\ "upstream_failed" \notin past
          \/ e = "upstream_completed" /\ "upstream_dispatched" \in past
             /\ "upstream_failed" \notin past
          \/ e = "upstream_failed" /\ "upstream_dispatch_prepared" \in past
             /\ "upstream_completed" \notin past

Past(o, n) == {records[o][j].artifact_type : j \in 1..n}

(* After admission, the events of an operation come in the documented       *)
(* order, none twice and none skipped, with one outcome, in spite of failed *)
(* appends and concurrent handlers; assessments may be interspersed.        *)
LifecyclePrefix ==
    \A o \in Operations : \A i \in 1..Len(records[o]) :
        MayFollow(Past(o, i - 1), records[o][i].artifact_type)

(* docs/ATTESTATIONS.md lists proof_assessed as the first event, before     *)
(* admission_created: no assessment is recorded once the lifecycle of the   *)
(* operation has moved past it.                                             *)
LifecycleOrder ==
    \A o \in Operations : \A i, j \in 1..Len(records[o]) :
        i < j /\ Chain(o)[j] = "proof_assessed" => Chain(o)[i] = "proof_assessed"

(* The gateway implements GovernedOperation.                                *)
Stage(o) ==
    LET wires == {network[d.request] : d \in {x \in dispatches : x.record.operation_id = o}} IN
    IF o \notin reserved_operations THEN "unknown"
    ELSE IF consumptions[o] = 0 THEN "admitted"
    ELSE IF wires = {} THEN "spent"
    ELSE IF wires \cap {"opening", "entered"} # {} THEN "open"
    ELSE IF wires = {"complete"} THEN "completed"
    ELSE "failed"

Governed == INSTANCE GovernedOperation WITH stage <- [o \in Operations |-> Stage(o)]

(* Every operation goes through the stages of GovernedOperation, one by one *)
(* and never back.                                                          *)
ImplementsGoverned == Governed!Spec

(* Every request is answered, unless its client withholds the body: no      *)
(* failure of a store, of the signer or of the upstream leaves a handler    *)
(* waiting.                                                                 *)
Answered ==
    \A r \in Requests :
        /\ pc[r] \in {"assess", "upstream_dispatch_prepared"} ~> pc[r] = "done"
        /\ pc[r] = "consume" ~> pc[r] \in {"body", "done"}
===============================================================================
