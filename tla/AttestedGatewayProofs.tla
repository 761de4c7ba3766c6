------------------------ MODULE AttestedGatewayProofs ------------------------
(***************************************************************************)
(* Proofs about the composed gateway, for any number of requests, any      *)
(* documents, any faults and any interleaving.                             *)
(*                                                                         *)
(* The invariant has a part about what all requests share (the stores, the *)
(* dispatches), a part about each request, and a part about each pair of   *)
(* requests.  Most steps change only the state of the request that takes   *)
(* them: LocalStep says so, and lemma Bystander, that whatever a request   *)
(* does leaves the facts about the others true.  On top of it LInv follows *)
(* the order of the events of a chain; and the refinement of               *)
(* GovernedOperation is read off the stores, the wire and the dispatches.  *)
(***************************************************************************)
EXTENDS AttestedGateway, WellFoundedInduction, SequenceTheorems, TLAPS

PreDispatch == {"admission_consumed", "check", "body", "upstream_dispatch_prepared", "dispatch"}
PostDispatch == {"stream", "upstream_dispatched", "response", "upstream_completed", "upstream_failed"}
Holding == {"proof_assessed", "reserve", "admission_created"} \cup PreDispatch \cup PostDispatch
Refusals == {400, 401, 403, 409, 503}

(* The chain of the operation of a record has event e, for the proof of the  *)
(* record.                                                                  *)
Entry(rec, e) ==
    \E i \in 1 .. Len(records[rec.operation_id]) :
        /\ records[rec.operation_id][i].artifact_type = e
        /\ records[rec.operation_id][i].proof_digest = rec.proof_digest

Admitted(rec) == Entry(rec, "proof_assessed") /\ Entry(rec, "admission_created")

(* What the admission record of an accepted PRE/v2 proof says.              *)
Authorised(rec) ==
    /\ rec \in Admission!Record
    /\ LET doc == Doc[rec.proof_digest] IN
       /\ doc.trusted /\ doc.pre_v2
       /\ rec.operation_id = doc.operation_id
       /\ rec.target_digest = doc.target_digest
       /\ \A x \in doc.expiries : rec.expires_at <= x
       /\ rec.expires_at <= rec.issued_at + TTL

HandlerTypeOK ==
    /\ now \in 0 .. MaxTime
    /\ pc \in [Requests -> Places]
    /\ input \in [Requests -> Input]
    /\ held \in [Requests -> Admission!Record \cup {NoRecord}]
    /\ answer \in [Requests -> Statuses]
    /\ delivered \in SUBSET Tokens
    /\ network \in [Requests -> WireStates]
    /\ \A d \in dispatches :
         d.request \in Requests /\ d.record \in Admission!Record
         /\ d.target \in Targets /\ d.at \in 0 .. MaxTime

(* What the place of a request says about its data.                         *)
Data(r) ==
    /\ pc[r] \in {"assess", "admit"} => input[r].proof \in Proofs
    /\ pc[r] = "admit" => Doc[input[r].proof].trusted
    /\ pc[r] \in {"consume"} \cup PreDispatch => input[r].target \in Targets
    /\ pc[r] = "consume" => input[r].token \in delivered
    /\ pc[r] \in Holding => Authorised(held[r])
    /\ pc[r] = "admission_created" =>
         /\ input[r].token \in Tokens \ delivered
         /\ tokens[input[r].token] = held[r]
         /\ held[r].operation_id \in reserved_operations
    /\ pc[r] \in PreDispatch \cup PostDispatch => consumptions[held[r].operation_id] # 0
    /\ pc[r] \in {"upstream_dispatch_prepared", "dispatch"} =>
         input[r].target = held[r].target_digest

(* ... about the chain of its operation.                                    *)
Barrier(r) ==
    /\ pc[r] \in {"reserve", "admission_created"} => Entry(held[r], "proof_assessed")
    /\ pc[r] \in PreDispatch => Admitted(held[r])
    /\ pc[r] \in PreDispatch \ {"admission_consumed"} => Entry(held[r], "admission_consumed")
    /\ pc[r] = "dispatch" => Entry(held[r], "upstream_dispatch_prepared")

(* ... about its call of the recorder.                                      *)
Call(r) ==
    /\ calls[r].pc # "idle" => pc[r] \in Events
    /\ calls[r].pc \in {"append", "readback"} =>
         /\ calls[r].att \in Recorder!Attestation
         /\ calls[r].att.operation_id = held[r].operation_id
         /\ calls[r].att.proof_digest = held[r].proof_digest
         /\ calls[r].att.artifact_type = pc[r]
    /\ calls[r].pc = "ok" => Entry(held[r], pc[r])

(* ... about its stream.                                                    *)
Stream_(r) ==
    /\ pc[r] \notin PostDispatch \cup {"done"} =>
         network[r] = "none" /\ \A d \in dispatches : d.request # r
    /\ pc[r] \in PreDispatch =>
         \A d \in dispatches : d.record.operation_id # held[r].operation_id
    /\ pc[r] \in PostDispatch =>
         /\ \E d \in dispatches : d.request = r
         /\ \A d \in dispatches : d.request = r => d.record = held[r]
    /\ pc[r] = "stream" => network[r] = "opening"
    /\ pc[r] \in {"upstream_dispatched", "response"} => network[r] = "entered"
    /\ pc[r] = "upstream_completed" => network[r] = "complete"
    /\ pc[r] = "upstream_failed" => network[r] \in {"aborted", "broken"}

(* ... about its answer.                                                    *)
Answer_(r) ==
    /\ pc[r] # "done" => answer[r] = 0
    /\ answer[r] \in Refusals => network[r] = "none"
    /\ answer[r] = 200 => \A d \in dispatches : d.request = r =>
         Claimed(d.record.operation_id, "upstream_completed")

Local(r) == Data(r) /\ Barrier(r) /\ Call(r) /\ Stream_(r) /\ Answer_(r)

(* Two requests never hold the same operation on its way to the dispatch, nor *)
(* the same token on its way to a client.                                    *)
Distinct(r, s) ==
    /\ pc[r] \in PreDispatch /\ pc[s] \in PreDispatch =>
         held[r].operation_id # held[s].operation_id
    /\ pc[r] = "admission_created" /\ pc[s] = "admission_created" =>
         input[r].token # input[s].token

Granted(t) ==
    tokens[t] # NoRecord =>
        /\ Authorised(tokens[t])
        /\ tokens[t].operation_id \in reserved_operations
        /\ consumptions[tokens[t].operation_id] = 0
        /\ \A u \in Tokens \ {t} : tokens[u] # NoRecord =>
             tokens[u].operation_id # tokens[t].operation_id
        /\ t \in delivered => Admitted(tokens[t])

SpentOnce ==
    \A o \in Operations : consumptions[o] # 0 => consumptions[o] = 1 /\ o \in reserved_operations

(* One proof per chain, the one its head has.                               *)
Anchored ==
    \A o \in Operations : \A i \in 1 .. Len(records[o]) :
        heads[o] # NoHead /\ records[o][i].proof_digest = heads[o].proof_digest

Dispatched(d) ==
    /\ Authorised(d.record)
    /\ consumptions[d.record.operation_id] # 0
    /\ d.target = d.record.target_digest
    /\ d.at < d.record.expires_at
    /\ Admitted(d.record)
    /\ Entry(d.record, "admission_consumed") /\ Entry(d.record, "upstream_dispatch_prepared")

(* ClaimsFollowFacts, event by event.                                       *)
Happened(o, states) ==
    \E d \in dispatches : d.record.operation_id = o /\ network[d.request] \in states

Reached == {"entered", "complete", "broken"}

Facts ==
    \A o \in Operations :
        /\ Claimed(o, "admission_created") => o \in reserved_operations
        /\ Claimed(o, "admission_consumed") => consumptions[o] # 0
        /\ Claimed(o, "upstream_dispatched") => Happened(o, Reached)
        /\ Claimed(o, "upstream_completed") => Happened(o, {"complete"})
        /\ Claimed(o, "upstream_failed") => Happened(o, {"aborted", "broken"})

Shared ==
    /\ \A t \in Tokens : Granted(t)
    /\ SpentOnce
    /\ Anchored
    /\ \A d \in dispatches : Dispatched(d)
    /\ AtMostOneDispatch
    /\ Facts

IInv ==
    /\ Admission!TypeOK /\ Recorder!TypeOK /\ HandlerTypeOK
    /\ Shared
    /\ \A r \in Requests : Local(r)
    /\ \A r \in Requests : \A s \in Requests \ {r} : Distinct(r, s)

-----------------------------------------------------------------------------
(* The expiry of an admission is one of the instants it is computed from, and *)
(* none of them comes before it.                                            *)
LEMMA EarliestExpiry ==
  ASSUME NEW p \in Proofs, now \in 0 .. MaxTime
  PROVE  /\ Expiry(p) \in Nat
         /\ Expiry(p) <= now + TTL
         /\ \A x \in Doc[p].expiries : Expiry(p) <= x
<1> DEFINE S == Doc[p].expiries \cup {now + TTL}
           R == OpToRel(<, Nat)
<1>1. S \subseteq Nat /\ S # {}
  BY GatewayAssumption DEF Document
<1>2. \E x \in S : \A y \in S : ~ (<<y, x>> \in R)
  <2> HIDE DEF S, R
  <2>1. IsWellFoundedOn(R, Nat)
    BY NatLessThanWellFounded DEF R
  <2> QED
    BY <1>1, <2>1, WFMin, Zenon
<1>3. PICK x \in S : \A y \in S : x <= y
  <2>1. PICK x \in S : \A y \in S : ~ (<<y, x>> \in R)
    BY <1>2
  <2>2. \A y \in Nat, z \in Nat : y < z => <<y, z>> \in R
    <3>1. R = {ss \in Nat \X Nat : ss[1] < ss[2]}
      BY DEF OpToRel
    <3> HIDE DEF R
    <3> QED
      BY <3>1
  <2>3. x \in Nat /\ \A y \in S : y \in Nat /\ ~ (y < x)
    <3> HIDE DEF R, S
    <3> QED
      BY <1>1, <2>1, <2>2
  <2> HIDE DEF R, S
  <2> QED
    BY <2>3
<1>4. Expiry(p) \in S /\ \A y \in S : Expiry(p) <= y
  BY <1>3 DEF Expiry, Min
<1> QED
  BY <1>1, <1>4

LEMMA RecordAuthorised ==
  ASSUME NEW p \in Proofs, now \in 0 .. MaxTime, Doc[p].trusted, Doc[p].pre_v2
  PROVE  Authorised(AdmissionRecord(p))
<1>1. Expiry(p) \in 0 .. (MaxTime + TTL)
  BY EarliestExpiry, GatewayAssumption
<1>2. now \in 0 .. (MaxTime + TTL)
  BY GatewayAssumption
<1>3. Doc[p].operation_id \in Operations /\ Doc[p].target_digest \in Targets
  BY GatewayAssumption DEF Document
<1>4. AdmissionRecord(p) \in Admission!Record
  BY <1>1, <1>2, <1>3 DEF AdmissionRecord, Admission!Record
<1> QED
  BY <1>4, EarliestExpiry DEF Authorised, AdmissionRecord

(* What others do to the stores can only add to what a request relies on.    *)
StaysFor(s) ==
    /\ <<pc[s], input[s], held[s], answer[s], network[s], calls[s]>>' =
       <<pc[s], input[s], held[s], answer[s], network[s], calls[s]>>
    /\ reserved_operations \subseteq reserved_operations'
    /\ \A o \in Operations : consumptions[o] # 0 => consumptions'[o] # 0
    /\ delivered \subseteq delivered'
    /\ \A rec \in Admission!Record, e \in Events : Entry(rec, e) => Entry(rec, e)'
    /\ \A o \in Operations, e \in Events : Claimed(o, e) => Claimed(o, e)'
    /\ dispatches \subseteq dispatches'
    /\ \A d \in dispatches' \ dispatches :
         /\ d.request # s
         /\ pc[s] \in PreDispatch => d.record.operation_id # held[s].operation_id
    /\ pc[s] = "admission_created" =>
         /\ input[s].token \notin delivered'
         /\ tokens'[input[s].token] = tokens[input[s].token]

LEMMA Bystander ==
  ASSUME NEW s \in Requests, HandlerTypeOK, Local(s), StaysFor(s)
  PROVE  Local(s)'
<1> USE DEF StaysFor
<1>1. pc[s] \in Holding => held[s] \in Admission!Record /\ held[s].operation_id \in Operations
  BY DEF Local, Data, Authorised, Admission!Record
<1>2. Data(s)'
  BY <1>1 DEF Local, Data, Authorised, Holding, PreDispatch, PostDispatch
<1>3. Barrier(s)'
  BY <1>1 DEF Local, Barrier, Admitted, Holding, PreDispatch, Events
<1>4. Call(s)'
  <2>1. pc[s] \in Events => pc[s] \in Holding
    BY DEF Events, Holding, PreDispatch, PostDispatch
  <2> QED
    BY <1>1, <2>1 DEF Local, Call
<1>5. Stream_(s)'
  BY DEF Local, Stream_, PreDispatch, PostDispatch, HandlerTypeOK
<1>6. Answer_(s)'
  <2>1. \A d \in dispatches : d.record.operation_id \in Operations
    BY DEF HandlerTypeOK, Admission!Record
  <2> QED
    BY <2>1 DEF Local, Answer_, Events, Refusals
<1> QED
  BY <1>2, <1>3, <1>4, <1>5, <1>6 DEF Local

-----------------------------------------------------------------------------
(* A step that changes what request r alone owns.                           *)
LocalStep(r) ==
    /\ UNCHANGED <<admission, heads, records, seen_ids, now, delivered, dispatches>>
    /\ \A s \in Requests \ {r} :
         <<pc[s], input[s], held[s], answer[s], network[s], calls[s]>>' =
         <<pc[s], input[s], held[s], answer[s], network[s], calls[s]>>
    /\ pc'[r] \in PreDispatch => pc[r] \in PreDispatch /\ held'[r] = held[r]
    /\ pc'[r] = "admission_created" => pc[r] = "admission_created" /\ input'[r] = input[r]
    /\ \/ network'[r] = network[r]
       \/ network[r] = "opening" /\ network'[r] \in {"entered", "aborted"}
       \/ network[r] = "entered" /\ network'[r] \in {"complete", "broken"}

LEMMA LocalStepKeeps ==
  ASSUME IInv, NEW r \in Requests, LocalStep(r),
         HandlerTypeOK', Recorder!TypeOK', Local(r)'
  PROVE  IInv'
<1> USE DEF LocalStep, admission
<1>1. Admission!TypeOK'
  BY DEF IInv, Admission!TypeOK
<1>2. ASSUME NEW s \in Requests PROVE Local(s)'
  <2>1. CASE s # r
    <3>1. StaysFor(s)
      BY <2>1 DEF StaysFor, Entry, Claimed, Chain, IInv, Local, Data
    <3> QED
      BY <3>1, Bystander DEF IInv
  <2> QED
    BY <2>1
<1>3. ASSUME NEW s \in Requests, NEW u \in Requests \ {s} PROVE Distinct(s, u)'
  <2>1. Distinct(s, u)
    BY DEF IInv
  <2>2. pc'[s] \in PreDispatch => pc[s] \in PreDispatch /\ held'[s] = held[s]
    OBVIOUS
  <2>3. pc'[u] \in PreDispatch => pc[u] \in PreDispatch /\ held'[u] = held[u]
    OBVIOUS
  <2>4. pc'[s] = "admission_created" => pc[s] = "admission_created" /\ input'[s] = input[s]
    OBVIOUS
  <2>5. pc'[u] = "admission_created" => pc[u] = "admission_created" /\ input'[u] = input[u]
    OBVIOUS
  <2> QED
    BY <2>1, <2>2, <2>3, <2>4, <2>5 DEF Distinct
<1>4. Shared'
  <2>1. (\A t \in Tokens : Granted(t))'
    BY DEF IInv, Shared, Granted, Admitted, Entry, Authorised
  <2>2. SpentOnce' /\ Anchored' /\ AtMostOneDispatch'
    BY DEF IInv, Shared, SpentOnce, Anchored, AtMostOneDispatch
  <2>3. (\A d \in dispatches : Dispatched(d))'
    BY DEF IInv, Shared, Dispatched, Admitted, Entry, Authorised
  <2>4. \A o \in Operations : \A states \in {Reached, {"complete"}, {"aborted", "broken"}} :
          Happened(o, states) => Happened(o, states)'
    BY DEF IInv, HandlerTypeOK, Happened, Reached
  <2>5. Facts'
    BY <2>4 DEF IInv, Shared, Facts, Claimed, Chain
  <2> QED
    BY <2>1, <2>2, <2>3, <2>5 DEF Shared
<1> QED
  BY <1>1, <1>2, <1>3, <1>4 DEF IInv

-----------------------------------------------------------------------------
(* What a local step has to establish.                                      *)
Fine(r) == LocalStep(r) /\ HandlerTypeOK' /\ Recorder!TypeOK' /\ Local(r)'

quiet == <<admission, heads, records, seen_ids, now, delivered, dispatches, network>>

Returned(r) == calls' = [calls EXCEPT ![r] = Recorder!Idle]

(* A handler that answers, its call of the recorder over, ends well when its *)
(* refusals come before the stream and its success after the completion.    *)
LEMMA Ends ==
  ASSUME IInv, NEW r \in Requests, NEW status \in Statuses, Answer(r, status),
         UNCHANGED quiet,
         \/ UNCHANGED calls /\ calls[r].pc = "idle"
         \/ Returned(r),
         status \in Refusals => network[r] = "none",
         status = 200 => \A d \in dispatches : d.request = r =>
             Claimed(d.record.operation_id, "upstream_completed")
  PROVE  Fine(r)
<1> USE DEF Answer, quiet, IInv, Returned
<1>1. /\ pc'[r] = "done" /\ answer'[r] = status /\ network'[r] = network[r]
      /\ calls'[r].pc = "idle"
  <2>1. calls'[r].pc = "idle"
    <3>1. Recorder!Idle.pc = "idle"
      BY DEF Recorder!Idle
    <3>2. calls \in [Requests -> [pc : Recorder!CallStates,
             att : Recorder!Attestation \cup {NoAttestation}, exported : BOOLEAN]]
      BY DEF Recorder!TypeOK
    <3> QED
      BY <3>1, <3>2
  <2> QED
    BY <2>1 DEF HandlerTypeOK
<1>2. LocalStep(r)
  BY <1>1 DEF LocalStep, HandlerTypeOK, PreDispatch, Recorder!TypeOK
<1>3. HandlerTypeOK'
  <2>1. Blank \in Input
    BY DEF Blank, Input
  <2> QED
    BY <2>1 DEF HandlerTypeOK, Places
<1>4. Recorder!TypeOK'
  <2>1. Recorder!Idle \in [pc : Recorder!CallStates,
             att : Recorder!Attestation \cup {NoAttestation}, exported : BOOLEAN]
    BY DEF Recorder!Idle, Recorder!CallStates
  <2> QED
    BY <2>1 DEF Recorder!TypeOK, Recorder!StoreTypeOK
<1>5. Local(r)'
  BY <1>1 DEF Local, Data, Barrier, Call, Stream_, Answer_, Holding, PreDispatch, PostDispatch,
              Claimed, Chain
<1> QED
  BY <1>2, <1>3, <1>4, <1>5 DEF Fine

LEMMA IdleCall ==
  ASSUME IInv, NEW r \in Requests, pc[r] \notin Events
  PROVE  calls[r].pc = "idle"
  BY DEF IInv, Local, Call

LEMMA NotOnWire ==
  ASSUME IInv, NEW r \in Requests, pc[r] \notin PostDispatch \cup {"done"}
  PROVE  network[r] = "none"
  BY DEF IInv, Local, Stream_

(* Each local step of a handler.                                            *)
LEMMA ClientMalformed ==
  ASSUME IInv, NEW r \in Requests, MalformedProof(r) \/ MalformedToken(r)
  PROVE  Fine(r)
<1>1. /\ pc[r] = "idle" /\ calls[r].pc = "idle" /\ network[r] = "none"
      /\ UNCHANGED quiet /\ UNCHANGED calls
  BY IdleCall, NotOnWire
  DEF MalformedProof, MalformedToken, Events, PostDispatch, quiet, provenance, wire
<1>2. CASE MalformedProof(r)
  BY <1>1, <1>2, Ends DEF MalformedProof, Statuses
<1>3. CASE MalformedToken(r)
  BY <1>1, <1>3, Ends DEF MalformedToken, Statuses
<1> QED
  BY <1>2, <1>3

LEMMA ClientPosts ==
  ASSUME IInv, NEW r \in Requests, NEW p \in Proofs, PostAdmission(r, p)
  PROVE  Fine(r)
<1> USE DEF PostAdmission, Goto, IInv, provenance, wire
<1>1. pc'[r] = "assess" /\ input'[r].proof = p /\ calls'[r].pc = "idle" /\ pc[r] = "idle"
  BY IdleCall DEF HandlerTypeOK, Input, Events
<1>2. LocalStep(r)
  BY <1>1 DEF LocalStep, HandlerTypeOK, PreDispatch
<1>3. HandlerTypeOK'
  BY DEF HandlerTypeOK, Places, Input
<1>4. Recorder!TypeOK'
  BY DEF Recorder!TypeOK, Recorder!StoreTypeOK
<1>5. Local(r)'
  BY <1>1 DEF Local, Data, Barrier, Call, Stream_, Answer_, Holding, PreDispatch, PostDispatch,
              Claimed, Chain
<1> QED
  BY <1>2, <1>3, <1>4, <1>5 DEF Fine

LEMMA ClientCalls ==
  ASSUME IInv, NEW r \in Requests, NEW t \in Tokens, NEW g \in Targets, ProxyRequest(r, t, g)
  PROVE  Fine(r)
<1> USE DEF ProxyRequest, Goto, IInv, provenance, wire
<1>1. /\ pc'[r] = "consume" /\ input'[r].token = t /\ input'[r].target = g
      /\ calls'[r].pc = "idle" /\ pc[r] = "idle"
  BY IdleCall DEF HandlerTypeOK, Input, Events
<1>2. LocalStep(r)
  BY <1>1 DEF LocalStep, HandlerTypeOK, PreDispatch
<1>3. HandlerTypeOK'
  <2>1. [proof |-> NoInput, token |-> t, target |-> g] \in Input
    BY DEF Input
  <2>2. input' \in [Requests -> Input]
    BY <2>1 DEF HandlerTypeOK
  <2> QED
    BY <2>2 DEF HandlerTypeOK, Places
<1>4. Recorder!TypeOK'
  BY DEF Recorder!TypeOK, Recorder!StoreTypeOK
<1>5. Local(r)'
  BY <1>1 DEF Local, Data, Barrier, Call, Stream_, Answer_, Holding, PreDispatch, PostDispatch,
              Claimed, Chain
<1> QED
  BY <1>2, <1>3, <1>4, <1>5 DEF Fine

(* A handler that goes on with what it has.                                 *)
LEMMA Moves ==
  ASSUME IInv, NEW r \in Requests, NEW place \in Places, Goto(r, place), Keep,
         UNCHANGED <<admission, heads, records, seen_ids, now, delivered, dispatches>>,
         \/ UNCHANGED network
         \/ network[r] = "opening" /\ \E state \in {"entered", "aborted"} : Wire(r, state)
         \/ network[r] = "entered" /\ \E state \in {"complete", "broken"} : Wire(r, state),
         UNCHANGED calls \/ calls' = [calls EXCEPT ![r] = Recorder!Idle],
         place \in PreDispatch => pc[r] \in PreDispatch,
         place # "admission_created"
  PROVE  LocalStep(r) /\ HandlerTypeOK' /\ Recorder!TypeOK'
<1> USE DEF Goto, Keep, Wire, IInv
<1>1. LocalStep(r)
  BY DEF LocalStep, HandlerTypeOK, Recorder!TypeOK
<1>2. HandlerTypeOK'
  BY DEF HandlerTypeOK, WireStates
<1>3. Recorder!TypeOK'
  <2>1. Recorder!Idle \in [pc : Recorder!CallStates,
             att : Recorder!Attestation \cup {NoAttestation}, exported : BOOLEAN]
    BY DEF Recorder!Idle, Recorder!CallStates
  <2> QED
    BY <2>1 DEF Recorder!TypeOK, Recorder!StoreTypeOK
<1> QED
  BY <1>1, <1>2, <1>3

LEMMA AssessFine ==
  ASSUME IInv, NEW r \in Requests, Assess(r)
  PROVE  Fine(r)
<1>1. /\ pc[r] = "assess" /\ calls[r].pc = "idle" /\ network[r] = "none"
      /\ UNCHANGED quiet /\ UNCHANGED calls
  BY IdleCall, NotOnWire DEF Assess, Events, PostDispatch, quiet, provenance, wire
<1>2. CASE Answer(r, 403)
  BY <1>1, <1>2, Ends DEF Statuses
<1>3. CASE Accepted(input[r].proof) /\ Goto(r, "admit") /\ Keep
  <2>1. LocalStep(r) /\ HandlerTypeOK' /\ Recorder!TypeOK'
    BY <1>1, <1>3, Moves DEF Places, PreDispatch, quiet
  <2>2. /\ pc'[r] = "admit" /\ UNCHANGED <<input, held, answer, calls, network>>
        /\ Doc[input[r].proof].trusted
    BY <1>1, <1>3 DEF Goto, Keep, Accepted, IInv, HandlerTypeOK, quiet
  <2>3. Local(r)'
    BY <1>1, <2>2 DEF IInv, quiet, Local, Data, Barrier, Call, Stream_, Answer_, Holding,
                      PreDispatch, PostDispatch, Claimed, Chain
  <2> QED
    BY <2>1, <2>3 DEF Fine
<1> QED
  BY <1>2, <1>3 DEF Assess

LEMMA AdmitFine ==
  ASSUME IInv, NEW r \in Requests, Admit(r)
  PROVE  Fine(r)
<1>1. /\ pc[r] = "admit" /\ calls[r].pc = "idle" /\ network[r] = "none"
      /\ UNCHANGED quiet /\ UNCHANGED calls
  BY IdleCall, NotOnWire DEF Admit, Events, PostDispatch, quiet, provenance, wire
<1>2. CASE Answer(r, 403) \/ Answer(r, 503)
  BY <1>1, <1>2, Ends DEF Statuses
<1>3. ASSUME NEW p \in Proofs, p = input[r].proof, Doc[p].pre_v2,
             held' = [held EXCEPT ![r] = AdmissionRecord(p)],
             Goto(r, "proof_assessed"), UNCHANGED input
      PROVE  Fine(r)
  <2>1. Authorised(AdmissionRecord(p))
    BY <1>1, <1>3, RecordAuthorised DEF IInv, HandlerTypeOK, Local, Data
  <2>2. AdmissionRecord(p) \in Admission!Record
    BY <2>1 DEF Authorised
  <2>3. /\ pc'[r] = "proof_assessed" /\ held'[r] = AdmissionRecord(p)
        /\ UNCHANGED <<input, answer, calls, network>>
    BY <1>1, <1>3 DEF Goto, IInv, HandlerTypeOK, quiet
  <2>4. LocalStep(r)
    BY <1>1, <1>3, <2>3 DEF LocalStep, quiet, PreDispatch, IInv, HandlerTypeOK, Goto
  <2>5. HandlerTypeOK'
    BY <1>1, <1>3, <2>2, <2>3 DEF IInv, HandlerTypeOK, Goto, Places, Events, quiet
  <2>6. Recorder!TypeOK'
    BY <1>1 DEF IInv, quiet, Recorder!TypeOK, Recorder!StoreTypeOK
  <2>7. Local(r)'
    BY <1>1, <2>1, <2>3
    DEF IInv, quiet, Local, Data, Barrier, Call, Stream_, Answer_, Authorised,
        PreDispatch, PostDispatch, Claimed, Chain
  <2> QED
    BY <2>4, <2>5, <2>6, <2>7 DEF Fine
<1>4. input[r].proof \in Proofs
  BY <1>1 DEF IInv, Local, Data
<1> QED
  BY <1>2, <1>3, <1>4 DEF Admit

LEMMA ReserveRefusedFine ==
  ASSUME IInv, NEW r \in Requests, ReserveRefused(r)
  PROVE  Fine(r)
<1>1. /\ calls[r].pc = "idle" /\ network[r] = "none"
      /\ UNCHANGED quiet /\ UNCHANGED calls
  BY IdleCall, NotOnWire DEF ReserveRefused, Events, PostDispatch, quiet, provenance, wire
<1>2. Answer(r, 409) \/ Answer(r, 503)
  BY DEF ReserveRefused
<1> QED
  BY <1>1, <1>2, Ends DEF Statuses

LEMMA CheckFine ==
  ASSUME IInv, NEW r \in Requests, Check(r)
  PROVE  Fine(r)
<1>1. /\ pc[r] = "check" /\ calls[r].pc = "idle" /\ network[r] = "none"
      /\ UNCHANGED quiet /\ UNCHANGED calls
  BY IdleCall, NotOnWire DEF Check, Events, PostDispatch, quiet, provenance, wire
<1>2. CASE Answer(r, 401) \/ Answer(r, 503)
  BY <1>1, <1>2, Ends DEF Statuses
<1>3. CASE Goto(r, "body") /\ Keep
  <2>1. LocalStep(r) /\ HandlerTypeOK' /\ Recorder!TypeOK'
    BY <1>1, <1>3, Moves DEF Places, PreDispatch, quiet
  <2>2. pc'[r] = "body" /\ UNCHANGED <<input, held, answer, calls, network>>
    BY <1>1, <1>3 DEF Goto, Keep, IInv, HandlerTypeOK, quiet
  <2>3. Local(r)'
    <3>1. Data(r)'
      BY <1>1, <2>2
      DEF IInv, quiet, admission, Local, Data, Authorised, Holding, PreDispatch, PostDispatch
    <3>2. Barrier(r)'
      BY <1>1, <2>2 DEF IInv, quiet, Local, Barrier, Admitted, Entry, PreDispatch
    <3>3. Call(r)' /\ Answer_(r)'
      BY <1>1, <2>2 DEF IInv, quiet, Local, Call, Answer_, Claimed, Chain, Refusals
    <3>4. Stream_(r)'
      BY <1>1, <2>2 DEF IInv, quiet, Local, Stream_, PreDispatch, PostDispatch
    <3> QED
      BY <3>1, <3>2, <3>3, <3>4 DEF Local
  <2> QED
    BY <2>1, <2>3 DEF Fine
<1> QED
  BY <1>2, <1>3 DEF Check

LEMMA ReadBodyFine ==
  ASSUME IInv, NEW r \in Requests, ReadBody(r)
  PROVE  Fine(r)
<1>1. /\ pc[r] = "body" /\ calls[r].pc = "idle" /\ network[r] = "none"
      /\ UNCHANGED quiet /\ UNCHANGED calls
  BY IdleCall, NotOnWire DEF ReadBody, Events, PostDispatch, quiet, provenance, wire
<1>2. CASE Answer(r, 400) \/ Answer(r, 401) \/ Answer(r, 403) \/ Answer(r, 503)
  BY <1>1, <1>2, Ends DEF Statuses
<1>3. CASE TargetMatches(r) /\ Goto(r, "upstream_dispatch_prepared") /\ Keep
  <2>1. LocalStep(r) /\ HandlerTypeOK' /\ Recorder!TypeOK'
    BY <1>1, <1>3, Moves DEF Places, Events, PreDispatch, quiet
  <2>2. /\ pc'[r] = "upstream_dispatch_prepared"
        /\ UNCHANGED <<input, held, answer, calls, network>>
        /\ input[r].target = held[r].target_digest
    BY <1>1, <1>3 DEF Goto, Keep, TargetMatches, IInv, HandlerTypeOK, quiet
  <2>3. Local(r)'
    <3>1. Data(r)'
      BY <1>1, <2>2
      DEF IInv, quiet, admission, Local, Data, Authorised, Holding, PreDispatch, PostDispatch
    <3>2. Barrier(r)'
      BY <1>1, <2>2 DEF IInv, quiet, Local, Barrier, Admitted, Entry, PreDispatch
    <3>3. Call(r)' /\ Answer_(r)'
      BY <1>1, <2>2 DEF IInv, quiet, Local, Call, Answer_, Claimed, Chain, Refusals
    <3>4. Stream_(r)'
      BY <1>1, <2>2 DEF IInv, quiet, Local, Stream_, PreDispatch, PostDispatch
    <3> QED
      BY <3>1, <3>2, <3>3, <3>4 DEF Local
  <2> QED
    BY <2>1, <2>3 DEF Fine
<1> QED
  BY <1>2, <1>3 DEF ReadBody

(* The refusals of steps that, when they succeed, change the stores.        *)
LEMMA RefusedFine ==
  ASSUME IInv, NEW r \in Requests, pc[r] \in {"consume", "dispatch"},
         Answer(r, 401) \/ Answer(r, 500) \/ Answer(r, 503),
         UNCHANGED <<admission, provenance, now, delivered, wire>>
  PROVE  Fine(r)
<1>1. /\ calls[r].pc = "idle" /\ network[r] = "none"
      /\ UNCHANGED quiet /\ UNCHANGED calls
  BY IdleCall, NotOnWire DEF Events, PostDispatch, quiet, provenance, wire
<1> QED
  BY <1>1, Ends DEF Statuses, Refusals

LEMMA WireFine ==
  ASSUME IInv, NEW r \in Requests, Stream(r) \/ Response(r)
  PROVE  Fine(r)
<1>1. /\ pc[r] \in {"stream", "response"} /\ calls[r].pc = "idle" /\ UNCHANGED calls /\ Keep
      /\ UNCHANGED <<admission, heads, records, seen_ids, now, delivered, dispatches>>
  BY IdleCall DEF Stream, Response, Events, Wire, provenance
<1>2. /\ pc[r] = "stream" => network[r] = "opening"
      /\ pc[r] = "response" => network[r] = "entered"
  BY DEF IInv, Local, Stream_
<1>3. ASSUME NEW place \in {"upstream_dispatched", "upstream_completed", "upstream_failed"},
             NEW state \in WireStates, Wire(r, state), Goto(r, place),
             \/ pc[r] = "stream" /\ place = "upstream_dispatched" /\ state = "entered"
             \/ pc[r] = "stream" /\ place = "upstream_failed" /\ state = "aborted"
             \/ pc[r] = "response" /\ place = "upstream_completed" /\ state = "complete"
             \/ pc[r] = "response" /\ place = "upstream_failed" /\ state = "broken"
      PROVE  Fine(r)
  <2>1. LocalStep(r) /\ HandlerTypeOK' /\ Recorder!TypeOK'
    BY <1>1, <1>2, <1>3, Moves DEF Places, Events, PreDispatch
  <2>2. /\ pc'[r] = place /\ network'[r] = state
        /\ UNCHANGED <<input, held, answer, calls>>
    BY <1>1, <1>3 DEF Goto, Keep, Wire, IInv, HandlerTypeOK
  <2>3. Local(r)'
    <3>1. Data(r)'
      BY <1>1, <1>3, <2>2
      DEF IInv, quiet, admission, Local, Data, Authorised, Holding, PreDispatch, PostDispatch
    <3>2. Barrier(r)'
      BY <1>1, <1>3, <2>2 DEF IInv, quiet, Local, Barrier, Admitted, Entry, PreDispatch
    <3>3. Call(r)' /\ Answer_(r)'
      BY <1>1, <1>3, <2>2 DEF IInv, quiet, Local, Call, Answer_, Claimed, Chain, Refusals
    <3>4. Stream_(r)'
      BY <1>1, <1>3, <2>2 DEF IInv, quiet, Local, Stream_, PreDispatch, PostDispatch
    <3> QED
      BY <3>1, <3>2, <3>3, <3>4 DEF Local
  <2> QED
    BY <2>1, <2>3 DEF Fine
<1>4. CASE Stream(r)
  BY <1>3, <1>4 DEF Stream, WireStates
<1>5. CASE Response(r)
  BY <1>3, <1>5 DEF Response, WireStates
<1> QED
  BY <1>4, <1>5

(* The call of the recorder moves on, or is refused; nothing is stored.      *)
LEMMA CallFine ==
  ASSUME IInv, NEW r \in Requests, NEW c \in [pc : Recorder!CallStates,
             att : Recorder!Attestation \cup {NoAttestation}, exported : BOOLEAN],
         calls' = [calls EXCEPT ![r] = c], pc[r] \in Events,
         UNCHANGED <<admission, heads, records, seen_ids, now, handler, delivered, wire>>,
         c.pc \in {"append", "readback"} =>
             /\ c.att \in Recorder!Attestation
             /\ c.att.operation_id = held[r].operation_id
             /\ c.att.proof_digest = held[r].proof_digest
             /\ c.att.artifact_type = pc[r],
         c.pc = "ok" => Entry(held[r], pc[r])
  PROVE  Fine(r)
<1> USE DEF IInv, handler, wire
<1>1. calls'[r] = c
  BY DEF Recorder!TypeOK
<1>2. LocalStep(r)
  BY DEF LocalStep, HandlerTypeOK, Recorder!TypeOK
<1>3. HandlerTypeOK' /\ Recorder!TypeOK'
  BY DEF HandlerTypeOK, Recorder!TypeOK, Recorder!StoreTypeOK
<1>4. Local(r)'
  BY <1>1
  DEF Local, Data, Barrier, Admitted, Entry, Call, Stream_, Answer_, Claimed, Chain, Authorised,
      admission
<1> QED
  BY <1>2, <1>3, <1>4 DEF Fine

LEMMA StartRecordingFine ==
  ASSUME IInv, NEW r \in Requests, StartRecording(r)
  PROVE  Fine(r)
<1> DEFINE o == held[r].operation_id
           p == held[r].proof_digest
           s == Doc[p].subject_digest
<1>1. pc[r] \in Events /\ pc[r] \in Holding
  BY DEF StartRecording, Events, Holding, PreDispatch, PostDispatch
<1>2. o \in Operations /\ p \in Proofs /\ s \in Subjects
  <2>1. Authorised(held[r])
    BY <1>1 DEF IInv, Local, Data
  <2> QED
    BY <2>1, GatewayAssumption DEF Authorised, Admission!Record, Document
<1>3. UNCHANGED <<admission, heads, records, seen_ids, now, handler, delivered, wire>>
  BY DEF StartRecording, Recorder!RecordEvent, Recorder!RecordRefused, Recorder!store
<1>4. CASE Recorder!RecordEvent(r, o, s, p, pc[r], <<r, pc[r]>>, TRUE)
  <2> DEFINE att == Recorder!Draft(o, s, p, pc[r], <<r, pc[r]>>, TRUE)
  <2>1. att \in Recorder!Attestation
    <3>1. Recorder!NextSequence(o) \in Nat
          /\ Recorder!Predecessor(o) \in (Requests \X Events) \cup {GENESIS}
      <4>1. heads[o] \in Recorder!StoreHead \cup {NoHead}
        BY <1>2 DEF IInv, Recorder!TypeOK, Recorder!StoreTypeOK
      <4> QED
        BY <4>1 DEF Recorder!NextSequence, Recorder!Predecessor, Recorder!StoreHead
    <3> QED
      BY <1>1, <1>2, <3>1 DEF Recorder!Draft, Recorder!Attestation
  <2>2. att.operation_id = o /\ att.proof_digest = p /\ att.artifact_type = pc[r]
    BY DEF Recorder!Draft
  <2>3. calls' = [calls EXCEPT ![r] = [pc |-> "append", att |-> att, exported |-> FALSE]]
    BY <1>4 DEF Recorder!RecordEvent
  <2> HIDE DEF att
  <2>4. [pc |-> "append", att |-> att, exported |-> FALSE] \in [pc : Recorder!CallStates,
             att : Recorder!Attestation \cup {NoAttestation}, exported : BOOLEAN]
    BY <2>1 DEF Recorder!CallStates
  <2> QED
    BY <1>1, <1>3, <2>1, <2>2, <2>3, <2>4, CallFine
<1>5. CASE Recorder!RecordRefused(r, o, s, p, TRUE)
  <2>1. calls' = [calls EXCEPT ![r] = [calls[r] EXCEPT !.pc = "failed"]]
    BY <1>5 DEF Recorder!RecordRefused, Recorder!Goto
  <2>2. [calls[r] EXCEPT !.pc = "failed"] \in [pc : Recorder!CallStates,
             att : Recorder!Attestation \cup {NoAttestation}, exported : BOOLEAN]
        /\ [calls[r] EXCEPT !.pc = "failed"].pc = "failed"
    BY DEF IInv, Recorder!TypeOK, Recorder!CallStates
  <2> QED
    BY <1>1, <1>3, <2>1, <2>2, CallFine
<1> QED
  BY <1>4, <1>5 DEF StartRecording

(* Every step of a call that has started, except the append itself.          *)
LEMMA RecordingFine ==
  ASSUME IInv, NEW r \in Requests, Recording(r), ~ Recorder!AppendEvent(r)
  PROVE  Fine(r)
<1>1. /\ Recorder!AppendRefused(r) \/ Recorder!ReadBack(r) \/ Recorder!ReadBackRefused(r)
      /\ UNCHANGED <<admission, heads, records, seen_ids, now, handler, delivered, wire>>
  BY DEF Recording, Recorder!Step, Recorder!AppendRefused, Recorder!ReadBack,
         Recorder!ReadBackRefused, Recorder!store
<1>2. calls[r].pc # "idle" /\ pc[r] \in Events
  BY <1>1
  DEF Recorder!AppendRefused, Recorder!ReadBack, Recorder!ReadBackRefused, IInv, Local, Call
<1>3. calls[r] \in [pc : Recorder!CallStates,
             att : Recorder!Attestation \cup {NoAttestation}, exported : BOOLEAN]
  BY DEF IInv, Recorder!TypeOK
<1>4. CASE Recorder!AppendRefused(r) \/ Recorder!ReadBackRefused(r)
  <2>1. calls' = [calls EXCEPT ![r] = [calls[r] EXCEPT !.pc = "failed"]]
    BY <1>4 DEF Recorder!AppendRefused, Recorder!ReadBackRefused, Recorder!Goto
  <2>2. [calls[r] EXCEPT !.pc = "failed"] \in [pc : Recorder!CallStates,
             att : Recorder!Attestation \cup {NoAttestation}, exported : BOOLEAN]
        /\ [calls[r] EXCEPT !.pc = "failed"].pc = "failed"
    BY <1>3 DEF Recorder!CallStates
  <2> QED
    BY <1>1, <1>2, <2>1, <2>2, CallFine
<1>5. CASE Recorder!ReadBack(r)
  <2>1. PICK c \in [pc : Recorder!CallStates,
             att : Recorder!Attestation \cup {NoAttestation}, exported : BOOLEAN] :
          c.pc = "ok" /\ calls' = [calls EXCEPT ![r] = c]
    <3>1. calls' = [calls EXCEPT ![r] = [pc |-> "ok", att |-> calls[r].att, exported |-> FALSE]]
      BY <1>3, <1>5 DEF Recorder!ReadBack, IInv, Recorder!TypeOK
    <3>2. [pc |-> "ok", att |-> calls[r].att, exported |-> FALSE] \in [pc : Recorder!CallStates,
             att : Recorder!Attestation \cup {NoAttestation}, exported : BOOLEAN]
      BY <1>3 DEF Recorder!CallStates
    <3> QED
      BY <3>1, <3>2
  <2>2. Entry(held[r], pc[r])
    <3>1. /\ calls[r].att.operation_id = held[r].operation_id
          /\ calls[r].att.proof_digest = held[r].proof_digest
          /\ calls[r].att.artifact_type = pc[r]
      BY <1>5 DEF Recorder!ReadBack, IInv, Local, Call
    <3>2. /\ calls[r].att.sequence < Len(records[held[r].operation_id])
          /\ records[held[r].operation_id][calls[r].att.sequence + 1] = calls[r].att
      BY <1>5, <3>1 DEF Recorder!ReadBack, Recorder!ReadsBack
    <3>3. calls[r].att.sequence \in Nat
      BY <1>5 DEF Recorder!ReadBack, IInv, Local, Call, Recorder!Attestation
    <3>4. calls[r].att.sequence + 1 \in 1 .. Len(records[held[r].operation_id])
      <4>1. held[r].operation_id \in Operations
        BY <1>5, <3>1 DEF Recorder!ReadBack, IInv, Local, Call, Recorder!Attestation
      <4>2. Len(records[held[r].operation_id]) \in Nat
        BY <4>1 DEF IInv, Recorder!TypeOK, Recorder!StoreTypeOK
      <4> QED
        BY <3>2, <3>3, <4>2
    <3> QED
      BY <3>1, <3>2, <3>4 DEF Entry
  <2> QED
    BY <1>1, <1>2, <2>1, <2>2, CallFine
<1> QED
  BY <1>1, <1>4, <1>5

(* The call is over and the handler goes on.                                *)
LEMMA ProceedFine ==
  ASSUME IInv, NEW r \in Requests, Proceed(r)
  PROVE  Fine(r)
<1>1. /\ calls[r].pc = "ok" /\ Recorder!Return(r) /\ Goto(r, NextPlace(r)) /\ Keep
      /\ UNCHANGED <<admission, heads, records, seen_ids, now, delivered, wire>>
      /\ calls' = [calls EXCEPT ![r] = Recorder!Idle]
  BY DEF Proceed, Recorder!Return, Recorder!store
<1>2. /\ pc[r] \in {"proof_assessed", "admission_consumed", "upstream_dispatch_prepared",
                    "upstream_dispatched"}
      /\ Entry(held[r], pc[r])
  BY <1>1 DEF Proceed, IInv, Local, Call, Events
<1>3. \/ pc[r] = "proof_assessed" /\ NextPlace(r) = "reserve"
      \/ pc[r] = "admission_consumed" /\ NextPlace(r) = "check"
      \/ pc[r] = "upstream_dispatch_prepared" /\ NextPlace(r) = "dispatch"
      \/ pc[r] = "upstream_dispatched" /\ NextPlace(r) = "response"
  BY <1>2 DEF NextPlace
<1> DEFINE place == NextPlace(r)
<1>4. LocalStep(r) /\ HandlerTypeOK' /\ Recorder!TypeOK'
  <2>1. /\ place \in Places /\ place # "admission_created"
        /\ place \in PreDispatch => pc[r] \in PreDispatch
    BY <1>3 DEF Places, PreDispatch
  <2>2. UNCHANGED network
        /\ UNCHANGED <<admission, heads, records, seen_ids, now, delivered, dispatches>>
    BY <1>1 DEF wire
  <2> HIDE DEF place
  <2> QED
    BY <1>1, <2>1, <2>2, Moves DEF place
<1>5. /\ pc'[r] = place /\ calls'[r].pc = "idle"
      /\ UNCHANGED <<input, held, answer, network>>
  <2>1. Recorder!Idle.pc = "idle"
    BY DEF Recorder!Idle
  <2> QED
    BY <1>1, <2>1 DEF Goto, Keep, wire, IInv, HandlerTypeOK, Recorder!TypeOK
<1> HIDE DEF place
<1>6. /\ pc[r] = "proof_assessed" => place = "reserve"
      /\ pc[r] = "admission_consumed" => place = "check"
      /\ pc[r] = "upstream_dispatch_prepared" => place = "dispatch"
      /\ pc[r] = "upstream_dispatched" => place = "response"
  BY <1>3 DEF place
<1>7. Local(r)'
  <2>1. UNCHANGED quiet
    BY <1>1 DEF quiet, wire
  <2>2. Data(r)'
    BY <1>2, <1>5, <1>6, <2>1
    DEF IInv, quiet, admission, Local, Data, Authorised, Holding, PreDispatch, PostDispatch
  <2>3. Barrier(r)'
    BY <1>2, <1>5, <1>6, <2>1 DEF IInv, quiet, Local, Barrier, Admitted, Entry, PreDispatch
  <2>4. Call(r)' /\ Answer_(r)'
    BY <1>2, <1>5, <1>6, <2>1 DEF IInv, quiet, Local, Call, Answer_, Claimed, Chain, Refusals
  <2>5. Stream_(r)'
    BY <1>2, <1>5, <1>6, <2>1 DEF IInv, quiet, Local, Stream_, PreDispatch, PostDispatch
  <2> QED
    BY <2>2, <2>3, <2>4, <2>5 DEF Local
<1> QED
  BY <1>4, <1>7 DEF Fine

(* The call is over and the handler answers.                                *)
LEMMA RespondFine ==
  ASSUME IInv, NEW r \in Requests, Respond(r) \/ RecordingFailed(r)
  PROVE  Fine(r)
<1>1. /\ Returned(r) /\ UNCHANGED quiet
      /\ calls[r].pc # "idle" /\ pc[r] \in Events
  BY DEF Returned, Respond, RecordingFailed, Recorder!Return, Recorder!store, quiet, wire, IInv, Local, Call
<1>2. CASE Respond(r)
  <2>1. CASE pc[r] = "upstream_completed" /\ Answer(r, 200)
    <3>1. Entry(held[r], "upstream_completed")
      BY <1>2, <2>1 DEF Respond, IInv, Local, Call
    <3>2. \A d \in dispatches : d.request = r => d.record = held[r]
      BY <2>1 DEF IInv, Local, Stream_, PostDispatch
    <3>3. \A d \in dispatches : d.request = r =>
             Claimed(d.record.operation_id, "upstream_completed")
      BY <3>1, <3>2 DEF Entry, Claimed
    <3>4. 200 \in Statuses /\ 200 \notin Refusals
      BY DEF Statuses, Refusals
    <3> QED
      BY <1>1, <2>1, <3>3, <3>4, Ends
  <2>2. ASSUME NEW status \in {500, 502}, Answer(r, status) PROVE Fine(r)
    <3>1. status \in Statuses \ {200} /\ status \notin Refusals
      BY DEF Statuses, Refusals
    <3> QED
      BY <1>1, <2>2, <3>1, Ends
  <2> QED
    BY <1>2, <2>1, <2>2 DEF Respond
<1>3. CASE RecordingFailed(r)
  <2>1. \/ FailureStatus(r) = 500
        \/ FailureStatus(r) = 503 /\ network[r] = "none"
    BY NotOnWire DEF FailureStatus, PostDispatch
  <2>2. \/ FailureStatus(r) \in Statuses \ (Refusals \cup {200})
        \/ FailureStatus(r) \in Statuses \ {200} /\ network[r] = "none"
    BY <2>1 DEF Statuses, Refusals
  <2>3. Answer(r, FailureStatus(r))
    BY <1>3 DEF RecordingFailed
  <2> QED
    BY <1>1, <2>2, <2>3, Ends
<1> QED
  BY <1>2, <1>3

LEMMA AbandonFine ==
  ASSUME IInv, NEW r \in Requests, Abandon(r)
  PROVE  Fine(r)
<1>1. UNCHANGED quiet
  BY DEF Abandon, quiet, wire, admission
<1>2. 0 \in Statuses /\ 0 \notin Refusals
  BY DEF Statuses, Refusals
<1>3. Answer(r, 0) /\ Returned(r)
  BY DEF Abandon, Returned
<1> QED
  BY <1>1, <1>2, <1>3, Ends

-----------------------------------------------------------------------------
(* The steps that change what requests share.                               *)
LEMMA TickKeeps ==
  ASSUME IInv, Tick \/ UNCHANGED vars
  PROVE  IInv'
<1>1. /\ UNCHANGED <<admission, provenance, handler, delivered, wire>>
      /\ now' \in 0 .. MaxTime
  BY GatewayAssumption DEF Tick, vars, IInv, HandlerTypeOK
<1> USE DEF IInv, admission, provenance, handler, wire
<1>2. Admission!TypeOK' /\ Recorder!TypeOK' /\ HandlerTypeOK'
  BY <1>1 DEF Admission!TypeOK, Recorder!TypeOK, Recorder!StoreTypeOK, HandlerTypeOK
<1>3. (\A s \in Requests : Local(s))'
  <2> SUFFICES ASSUME NEW s \in Requests PROVE Local(s)'
    OBVIOUS
  <2>1. StaysFor(s)
    BY <1>1 DEF StaysFor, Entry, Claimed, Chain, Local, Data
  <2> QED
    BY <2>1, Bystander
<1>4. (\A s \in Requests : \A u \in Requests \ {s} : Distinct(s, u))'
  BY <1>1 DEF Distinct
<1>5. Shared'
  BY <1>1
  DEF Shared, Granted, Admitted, Entry, Authorised, SpentOnce, Anchored, Dispatched,
      AtMostOneDispatch, Facts, Claimed, Chain, Happened
<1> QED
  BY <1>2, <1>3, <1>4, <1>5

LEMMA ReserveKeeps ==
  ASSUME IInv, NEW r \in Requests, Reserve(r)
  PROVE  IInv'
<1> DEFINE rec == held[r]
<1>1. PICK t \in Tokens \ delivered :
        /\ Admission!Reserve(rec, t)
        /\ \/ /\ input' = [input EXCEPT ![r].token = t]
              /\ Goto(r, "admission_created")
              /\ UNCHANGED held
           \/ Answer(r, 503)
  BY DEF Reserve
<1>2. /\ pc[r] = "reserve" /\ calls[r].pc = "idle" /\ network[r] = "none"
      /\ UNCHANGED <<heads, records, seen_ids, calls, now, delivered, network, dispatches>>
  BY IdleCall, NotOnWire DEF Reserve, Events, PostDispatch, provenance, wire
<1>3. /\ Authorised(rec) /\ rec \in Admission!Record /\ rec # NoRecord
      /\ rec.operation_id \in Operations /\ rec.proof_digest \in Proofs
  BY <1>2, NullAssumption DEF IInv, Local, Data, Holding, Authorised, Admission!Record
<1>4. /\ rec.operation_id \notin reserved_operations
      /\ tokens[t] = NoRecord
      /\ tokens' = [tokens EXCEPT ![t] = rec]
      /\ reserved_operations' = reserved_operations \cup {rec.operation_id}
      /\ reserved_proofs' = reserved_proofs \cup {rec.proof_digest}
      /\ consumptions' = consumptions
  BY <1>1 DEF Admission!Reserve, Admission!Replayed, Admission!Live
<1>5. Admission!TypeOK'
  BY <1>3, <1>4 DEF IInv, Admission!TypeOK
<1>6. Recorder!TypeOK'
  BY <1>2 DEF IInv, Recorder!TypeOK, Recorder!StoreTypeOK
<1>7. HandlerTypeOK'
  <2>1. Blank \in Input
    BY DEF Blank, Input
  <2>2. [input[r] EXCEPT !.token = t] \in Input
    BY DEF IInv, HandlerTypeOK, Input
  <2> QED
    BY <1>1, <1>2, <2>1, <2>2 DEF IInv, HandlerTypeOK, Goto, Answer, Places, Events, Statuses
<1>8. /\ \A u \in Tokens : tokens'[u] = IF u = t THEN rec ELSE tokens[u]
      /\ \A s \in Requests \ {r} :
           <<pc[s], input[s], held[s], answer[s]>>' = <<pc[s], input[s], held[s], answer[s]>>
      /\ \/ pc'[r] = "done" /\ answer'[r] = 503
         \/ /\ pc'[r] = "admission_created" /\ input'[r].token = t
            /\ held'[r] = rec /\ answer'[r] = answer[r]
  BY <1>1, <1>4 DEF IInv, HandlerTypeOK, Admission!TypeOK, Goto, Answer, Input
<1> HIDE DEF rec
<1>9. ASSUME NEW s \in Requests \ {r} PROVE Local(s)'
  <2>1. pc[s] = "admission_created" => input[s].token \in Tokens /\ input[s].token # t
    <3>1. pc[s] = "admission_created" => held[s] \in Admission!Record
      BY DEF IInv, Local, Data, Holding, Authorised
    <3> QED
      BY <1>4, <3>1, NullAssumption DEF IInv, Local, Data
  <2>2. StaysFor(s)
    BY <1>2, <1>4, <1>8, <2>1 DEF StaysFor, Entry, Claimed, Chain, IInv, Local, Data
  <2> QED
    BY <2>2, Bystander DEF IInv
<1>10. Local(r)'
  <2>1. CASE pc'[r] = "done" /\ answer'[r] = 503
    BY <1>2, <2>1 DEF Local, Data, Barrier, Call, Stream_, Answer_, Holding, PreDispatch,
                      PostDispatch, Refusals
  <2>2. CASE /\ pc'[r] = "admission_created" /\ input'[r].token = t
             /\ held'[r] = rec /\ answer'[r] = answer[r]
    <3>1. Data(r)'
      BY <1>1, <1>2, <1>3, <1>4, <1>8, <2>2 DEF Data, Authorised, PreDispatch, PostDispatch
    <3>2. Barrier(r)'
      BY <1>2, <2>2 DEF IInv, Local, Barrier, Entry, PreDispatch, rec
    <3>3. Call(r)' /\ Answer_(r)' /\ Stream_(r)'
      BY <1>2, <2>2 DEF IInv, Local, Call, Answer_, Stream_, Refusals, PreDispatch, PostDispatch
    <3> QED
      BY <3>1, <3>2, <3>3 DEF Local
  <2> QED
    BY <1>8, <2>1, <2>2
<1>11. (\A s \in Requests : \A u \in Requests \ {s} : Distinct(s, u))'
  <2>1. \A s \in Requests \ {r} : pc[s] = "admission_created" => input[s].token # t
    <3>1. \A s \in Requests : pc[s] = "admission_created" => held[s] \in Admission!Record
      BY DEF IInv, Local, Data, Holding, Authorised
    <3> QED
      BY <1>4, <3>1, NullAssumption DEF IInv, Local, Data
  <2>2. pc'[r] \notin PreDispatch
    BY <1>8 DEF PreDispatch
  <2>3. \A s \in Requests : \A u \in Requests \ {s} : Distinct(s, u)
    BY DEF IInv
  <2> QED
    BY <1>8, <2>1, <2>2, <2>3 DEF Distinct
<1>12. Shared'
  <2>1. (\A u \in Tokens : Granted(u))'
    <3>1. consumptions[rec.operation_id] = 0
      BY <1>3, <1>4 DEF IInv, Shared, SpentOnce
    <3>2. \A u \in Tokens : tokens[u] # NoRecord => tokens[u].operation_id # rec.operation_id
      BY <1>4 DEF IInv, Shared, Granted
    <3>3. SUFFICES ASSUME NEW u \in Tokens PROVE Granted(u)'
      OBVIOUS
    <3>4. CASE u = t
      BY <1>1, <1>2, <1>3, <1>4, <1>8, <3>1, <3>2, <3>4 DEF Granted, Authorised
    <3>5. CASE u # t
      BY <1>2, <1>4, <1>8, <3>2, <3>5 DEF Granted, Authorised, Admitted, Entry, IInv, Shared
    <3> QED
      BY <3>4, <3>5
  <2>2. SpentOnce' /\ Anchored' /\ AtMostOneDispatch'
    BY <1>2, <1>4 DEF IInv, Shared, SpentOnce, Anchored, AtMostOneDispatch
  <2>3. (\A d \in dispatches : Dispatched(d))'
    BY <1>2, <1>4 DEF IInv, Shared, Dispatched, Admitted, Entry, Authorised
  <2>4. Facts'
    BY <1>2, <1>4 DEF IInv, Shared, Facts, Claimed, Chain, Happened
  <2> QED
    BY <2>1, <2>2, <2>3, <2>4 DEF Shared
<1> QED
  BY <1>5, <1>6, <1>7, <1>9, <1>10, <1>11, <1>12 DEF IInv

LEMMA ConsumeKeeps ==
  ASSUME IInv, NEW r \in Requests, Consume(r), Admission!Consume(input[r].token)
  PROVE  IInv'
<1> DEFINE t == input[r].token
           rec == tokens[t]
           o == rec.operation_id
<1>1. /\ pc[r] = "consume" /\ calls[r].pc = "idle" /\ network[r] = "none"
      /\ UNCHANGED <<heads, records, seen_ids, calls, now, delivered, network, dispatches>>
  BY IdleCall, NotOnWire DEF Consume, Events, PostDispatch, provenance, wire
<1>2. t \in delivered /\ t \in Tokens /\ input[r].target \in Targets
  BY <1>1 DEF IInv, Local, Data, HandlerTypeOK
<1>3. /\ tokens[t] # NoRecord
      /\ consumptions' = [consumptions EXCEPT ![o] = @ + 1]
      /\ tokens' = [tokens EXCEPT ![t] = NoRecord]
      /\ UNCHANGED <<reserved_operations, reserved_proofs>>
  BY DEF Admission!Consume, Admission!Live
<1>4. /\ Authorised(rec) /\ Admitted(rec)
      /\ o \in reserved_operations /\ consumptions[o] = 0
      /\ \A u \in Tokens \ {t} : tokens[u] # NoRecord => tokens[u].operation_id # o
  BY <1>2, <1>3 DEF IInv, Shared, Granted
<1>5. rec \in Admission!Record /\ o \in Operations
  BY <1>4 DEF Authorised, Admission!Record
<1>6. \/ /\ held' = [held EXCEPT ![r] = rec]
         /\ Goto(r, "admission_consumed")
         /\ UNCHANGED input
      \/ Answer(r, 500)
  BY <1>1, <1>3 DEF Consume, Admission!Consume, Admission!Live, admission
<1> HIDE DEF rec, t, o
<1>7. /\ \A u \in Tokens : tokens'[u] = IF u = t THEN NoRecord ELSE tokens[u]
      /\ \A x \in Operations : consumptions'[x] = IF x = o THEN 1 ELSE consumptions[x]
      /\ \A s \in Requests \ {r} :
           <<pc[s], input[s], held[s], answer[s]>>' = <<pc[s], input[s], held[s], answer[s]>>
      /\ \/ pc'[r] = "done" /\ answer'[r] = 500
         \/ /\ pc'[r] = "admission_consumed" /\ held'[r] = rec
            /\ input'[r] = input[r] /\ answer'[r] = answer[r]
  BY <1>2, <1>3, <1>4, <1>5, <1>6 DEF IInv, HandlerTypeOK, Admission!TypeOK, Goto, Answer
<1>8. Admission!TypeOK'
  <2>1. consumptions' \in [Operations -> Nat]
    BY <1>3, <1>5 DEF IInv, Admission!TypeOK
  <2>2. tokens' \in [Tokens -> Admission!Record \cup {NoRecord}]
    BY <1>3 DEF IInv, Admission!TypeOK
  <2> QED
    BY <1>3, <2>1, <2>2 DEF IInv, Admission!TypeOK
<1>9. Recorder!TypeOK'
  BY <1>1 DEF IInv, Recorder!TypeOK, Recorder!StoreTypeOK
<1>10. HandlerTypeOK'
  <2>1. Blank \in Input
    BY DEF Blank, Input
  <2> QED
    BY <1>1, <1>5, <1>6, <2>1 DEF IInv, HandlerTypeOK, Goto, Answer, Places, Events, Statuses
<1>11. \A s \in Requests : pc[s] \in PreDispatch =>
          consumptions[held[s].operation_id] # 0 /\ held[s].operation_id # o
  BY <1>4 DEF IInv, Local, Data
<1>12. ASSUME NEW s \in Requests \ {r} PROVE Local(s)'
  <2>1. pc[s] = "admission_created" => input[s].token \in Tokens /\ input[s].token # t
    BY <1>2 DEF IInv, Local, Data
  <2>2. StaysFor(s)
    BY <1>1, <1>3, <1>7, <2>1 DEF StaysFor, Entry, Claimed, Chain, IInv, Local, Data
  <2> QED
    BY <2>2, Bystander DEF IInv
<1>13. \A d \in dispatches : d.record.operation_id # o
  BY <1>4 DEF IInv, Shared, Dispatched
<1>14. Local(r)'
  <2>1. CASE pc'[r] = "done" /\ answer'[r] = 500
    BY <1>1, <2>1 DEF Local, Data, Barrier, Call, Stream_, Answer_, Holding, PreDispatch,
                      PostDispatch, Refusals
  <2>2. CASE /\ pc'[r] = "admission_consumed" /\ held'[r] = rec
             /\ input'[r] = input[r] /\ answer'[r] = answer[r]
    <3>1. Data(r)'
      <4>1. o = rec.operation_id
        BY DEF o
      <4> QED
        BY <1>2, <1>4, <1>5, <1>7, <2>2, <4>1 DEF Data, Authorised
    <3>2. Barrier(r)'
      BY <1>1, <1>4, <2>2 DEF Barrier, Admitted, Entry
    <3>3. Call(r)' /\ Answer_(r)'
      BY <1>1, <2>2 DEF IInv, Local, Call, Answer_, Refusals
    <3>4. Stream_(r)'
      BY <1>1, <1>13, <2>2 DEF IInv, Local, Stream_, PreDispatch, PostDispatch, o
    <3> QED
      BY <3>1, <3>2, <3>3, <3>4 DEF Local
  <2> QED
    BY <1>7, <2>1, <2>2
<1>15. (\A s \in Requests : \A u \in Requests \ {s} : Distinct(s, u))'
  <2>1. \A s \in Requests : \A u \in Requests \ {s} : Distinct(s, u)
    BY DEF IInv
  <2>2. pc'[r] # "admission_created"
        /\ (pc'[r] \in PreDispatch => held'[r].operation_id = o)
    BY <1>7 DEF PreDispatch, o
  <2> QED
    BY <1>7, <1>11, <2>1, <2>2 DEF Distinct
<1>16. Shared'
  <2>1. (\A u \in Tokens : Granted(u))'
    <3>1. SUFFICES ASSUME NEW u \in Tokens PROVE Granted(u)'
      OBVIOUS
    <3>2. tokens[u] # NoRecord => tokens[u].operation_id \in Operations
      BY DEF IInv, Admission!TypeOK, Admission!Record
    <3>3. CASE u = t
      BY <1>7, <3>3 DEF Granted
    <3>4. CASE u # t /\ tokens[u] # NoRecord
      <4>1. Granted(u) /\ tokens'[u] = tokens[u] /\ tokens[u].operation_id # o
        BY <1>4, <1>7, <3>4 DEF IInv, Shared
      <4>2. consumptions'[tokens[u].operation_id] = 0
        BY <1>7, <3>2, <3>4, <4>1 DEF Granted
      <4>3. Authorised(tokens[u])' /\ (u \in delivered => Admitted(tokens[u])')
        BY <1>1, <3>4, <4>1 DEF Granted, Authorised, Admitted, Entry
      <4> QED
        BY <1>1, <1>3, <1>7, <3>4, <4>1, <4>2, <4>3 DEF Granted
    <3>5. CASE u # t /\ tokens[u] = NoRecord
      BY <1>7, <3>5 DEF Granted
    <3> QED
      BY <3>3, <3>4, <3>5
  <2>2. SpentOnce' /\ Anchored' /\ AtMostOneDispatch'
    BY <1>1, <1>3, <1>4, <1>7 DEF IInv, Shared, SpentOnce, Anchored, AtMostOneDispatch
  <2>3. (\A d \in dispatches : Dispatched(d))'
    <3>1. \A d \in dispatches : d.record.operation_id \in Operations
      BY DEF IInv, HandlerTypeOK, Admission!Record
    <3> QED
      BY <1>1, <1>7, <3>1 DEF IInv, Shared, Dispatched, Admitted, Entry, Authorised
  <2>4. Facts'
    BY <1>1, <1>3, <1>7 DEF IInv, Shared, Facts, Claimed, Chain, Happened
  <2> QED
    BY <2>1, <2>2, <2>3, <2>4 DEF Shared
<1> QED
  BY <1>8, <1>9, <1>10, <1>12, <1>14, <1>15, <1>16 DEF IInv

LEMMA DeliverTokenKeeps ==
  ASSUME IInv, NEW r \in Requests, DeliverToken(r)
  PROVE  IInv'
<1> DEFINE t == input[r].token
<1>1. /\ pc[r] = "admission_created" /\ calls[r].pc = "ok"
      /\ UNCHANGED <<admission, heads, records, seen_ids, now, network, dispatches>>
      /\ Returned(r) /\ Answer(r, 201)
      /\ delivered' = delivered \cup {t}
  BY DEF DeliverToken, Returned, Recorder!Return, Recorder!store, wire
<1>2. /\ t \in Tokens /\ t \notin delivered /\ tokens[t] = held[r]
      /\ network[r] = "none" /\ \A d \in dispatches : d.request # r
      /\ Entry(held[r], "proof_assessed") /\ Entry(held[r], "admission_created")
  BY <1>1 DEF IInv, Local, Data, Stream_, Barrier, Call, PostDispatch
<1> HIDE DEF t
<1>3. /\ \A s \in Requests \ {r} :
           <<pc[s], input[s], held[s], answer[s], calls[s]>>' =
           <<pc[s], input[s], held[s], answer[s], calls[s]>>
      /\ pc'[r] = "done" /\ answer'[r] = 201
  BY <1>1 DEF IInv, HandlerTypeOK, Recorder!TypeOK, Answer, Returned
<1>4. calls'[r].pc = "idle"
  <2>1. Recorder!Idle.pc = "idle"
    BY DEF Recorder!Idle
  <2> QED
    BY <1>1, <2>1 DEF IInv, Recorder!TypeOK, Returned
<1>5. Admission!TypeOK'
  BY <1>1 DEF IInv, Admission!TypeOK, admission
<1>6. Recorder!TypeOK'
  <2>1. Recorder!Idle \in [pc : Recorder!CallStates,
             att : Recorder!Attestation \cup {NoAttestation}, exported : BOOLEAN]
    BY DEF Recorder!Idle, Recorder!CallStates
  <2> QED
    BY <1>1, <2>1 DEF IInv, Recorder!TypeOK, Recorder!StoreTypeOK, Returned
<1>7. HandlerTypeOK'
  <2>1. Blank \in Input
    BY DEF Blank, Input
  <2> QED
    BY <1>1, <1>2, <2>1 DEF IInv, HandlerTypeOK, Answer, Places, Statuses
<1>8. ASSUME NEW s \in Requests \ {r} PROVE Local(s)'
  <2>1. pc[s] = "admission_created" => input[s].token # t
    BY <1>1 DEF IInv, Distinct, t
  <2>2. StaysFor(s)
    BY <1>1, <1>3, <2>1 DEF StaysFor, Entry, Claimed, Chain, IInv, Local, Data, admission
  <2> QED
    BY <2>2, Bystander DEF IInv
<1>9. Local(r)'
  BY <1>1, <1>2, <1>3, <1>4
  DEF Local, Data, Barrier, Call, Stream_, Answer_, Holding, PreDispatch, PostDispatch, Refusals
<1>10. (\A s \in Requests : \A u \in Requests \ {s} : Distinct(s, u))'
  <2>1. \A s \in Requests : \A u \in Requests \ {s} : Distinct(s, u)
    BY DEF IInv
  <2>2. pc'[r] # "admission_created" /\ pc'[r] \notin PreDispatch
    BY <1>3 DEF PreDispatch
  <2> QED
    BY <1>3, <2>1, <2>2 DEF Distinct
<1>11. Shared'
  <2>1. (\A u \in Tokens : Granted(u))'
    BY <1>1, <1>2 DEF Granted, Authorised, Admitted, Entry, IInv, Shared, admission
  <2>2. SpentOnce' /\ Anchored' /\ AtMostOneDispatch'
    BY <1>1 DEF IInv, Shared, SpentOnce, Anchored, AtMostOneDispatch, admission
  <2>3. (\A d \in dispatches : Dispatched(d))'
    BY <1>1 DEF IInv, Shared, Dispatched, Admitted, Entry, Authorised, admission
  <2>4. Facts'
    BY <1>1 DEF IInv, Shared, Facts, Claimed, Chain, Happened, admission
  <2> QED
    BY <2>1, <2>2, <2>3, <2>4 DEF Shared
<1> QED
  BY <1>5, <1>6, <1>7, <1>8, <1>9, <1>10, <1>11 DEF IInv

LEMMA DispatchKeeps ==
  ASSUME IInv, NEW r \in Requests, Dispatch(r), ~ UNCHANGED wire
  PROVE  IInv'
<1>0. PICK d : d = [request |-> r, record |-> held[r], target |-> input[r].target, at |-> now]
  OBVIOUS
<1>1. /\ pc[r] = "dispatch" /\ calls[r].pc = "idle" /\ network[r] = "none"
      /\ FreshAtDispatch(r) /\ Goto(r, "stream") /\ Keep
      /\ network' = [network EXCEPT ![r] = "opening"]
      /\ dispatches' = dispatches \cup {d}
      /\ UNCHANGED <<admission, heads, records, seen_ids, calls, now, delivered>>
  BY <1>0, IdleCall, NotOnWire DEF Dispatch, Events, PostDispatch, provenance, wire
<1>2. /\ Authorised(held[r]) /\ held[r] \in Admission!Record
      /\ held[r].operation_id \in Operations
      /\ consumptions[held[r].operation_id] # 0
      /\ input[r].target = held[r].target_digest /\ input[r].target \in Targets
      /\ Admitted(held[r]) /\ Entry(held[r], "admission_consumed")
      /\ Entry(held[r], "upstream_dispatch_prepared")
      /\ \A e \in dispatches : e.request # r /\ e.record.operation_id # held[r].operation_id
  BY <1>1 DEF IInv, Local, Data, Barrier, Stream_, Holding, PreDispatch, PostDispatch, Authorised,
              Admission!Record
<1>3. now < held[r].expires_at
  <2>1. now \in Int /\ held[r].expires_at \in Int
    BY <1>2, GatewayAssumption DEF IInv, HandlerTypeOK, Admission!Record
  <2> QED
    BY <1>1, <2>1 DEF FreshAtDispatch, Expired
<1>4. d.request = r /\ d.record = held[r] /\ d.target = input[r].target /\ d.at = now
  BY <1>0
<1>5. /\ \A s \in Requests \ {r} :
           <<pc[s], input[s], held[s], answer[s], network[s]>>' =
           <<pc[s], input[s], held[s], answer[s], network[s]>>
      /\ pc'[r] = "stream" /\ network'[r] = "opening" /\ UNCHANGED <<input, held, answer>>
  BY <1>1 DEF IInv, HandlerTypeOK, Goto, Keep
<1>6. Admission!TypeOK' /\ Recorder!TypeOK'
  BY <1>1 DEF IInv, Admission!TypeOK, admission, Recorder!TypeOK, Recorder!StoreTypeOK
<1>7. HandlerTypeOK'
  BY <1>1, <1>2, <1>4, <1>5 DEF IInv, HandlerTypeOK, Goto, Places, WireStates
<1>8. ASSUME NEW s \in Requests \ {r} PROVE Local(s)'
  <2>1. pc[s] \in PreDispatch => held[r].operation_id # held[s].operation_id
    BY <1>1 DEF IInv, Distinct, PreDispatch
  <2>2. StaysFor(s)
    BY <1>1, <1>4, <1>5, <2>1 DEF StaysFor, Entry, Claimed, Chain, IInv, Local, Data, admission
  <2> QED
    BY <2>2, Bystander DEF IInv
<1>9. Local(r)'
  <2>1. Data(r)'
    BY <1>1, <1>2, <1>5 DEF Data, Authorised, Holding, PreDispatch, PostDispatch, admission
  <2>2. Barrier(r)'
    BY <1>5 DEF Barrier, PreDispatch
  <2>3. Call(r)' /\ Answer_(r)'
    BY <1>1, <1>5 DEF IInv, Local, Call, Answer_, Refusals
  <2>4. Stream_(r)'
    BY <1>1, <1>2, <1>4, <1>5 DEF Stream_, PreDispatch, PostDispatch
  <2> QED
    BY <2>1, <2>2, <2>3, <2>4 DEF Local
<1>10. (\A s \in Requests : \A u \in Requests \ {s} : Distinct(s, u))'
  <2>1. \A s \in Requests : \A u \in Requests \ {s} : Distinct(s, u)
    BY DEF IInv
  <2>2. pc'[r] # "admission_created" /\ pc'[r] \notin PreDispatch
    BY <1>5 DEF PreDispatch
  <2> QED
    BY <1>5, <2>1, <2>2 DEF Distinct
<1>11. Shared'
  <2>1. (\A u \in Tokens : Granted(u))'
    BY <1>1 DEF Granted, Authorised, Admitted, Entry, IInv, Shared, admission
  <2>2. SpentOnce' /\ Anchored'
    BY <1>1 DEF IInv, Shared, SpentOnce, Anchored, admission
  <2>3. AtMostOneDispatch'
    <3>1. SUFFICES ASSUME NEW e \in dispatches', NEW f \in dispatches',
                          e.record.operation_id = f.record.operation_id
                   PROVE  e = f
      BY DEF AtMostOneDispatch
    <3>2. CASE e \in dispatches /\ f \in dispatches
      BY <3>1, <3>2 DEF IInv, Shared, AtMostOneDispatch
    <3> QED
      BY <1>1, <1>2, <1>4, <3>1, <3>2
  <2>0. ASSUME NEW e, Dispatched(e) PROVE Dispatched(e)'
    BY <1>1, <2>0 DEF Dispatched, Authorised, Admitted, Entry, admission
  <2>4. Dispatched(d)'
    <3>1. Dispatched(d)
      BY <1>2, <1>3, <1>4 DEF Dispatched
    <3> QED
      BY <2>0, <3>1
  <2>5. ASSUME NEW e \in dispatches PROVE Dispatched(e)'
    BY <2>0 DEF IInv, Shared
  <2>6. Facts'
    <3>1. \A o \in Operations : \A states \in {Reached, {"complete"}, {"aborted", "broken"}} :
            Happened(o, states) => Happened(o, states)'
      BY <1>1, <1>2, <1>5 DEF IInv, HandlerTypeOK, Happened
    <3> QED
      BY <1>1, <3>1 DEF IInv, Shared, Facts, Claimed, Chain, admission
  <2> QED
    BY <1>1, <2>1, <2>2, <2>3, <2>4, <2>5, <2>6 DEF Shared
<1> QED
  BY <1>6, <1>7, <1>8, <1>9, <1>10, <1>11 DEF IInv

LEMMA AppendKeeps ==
  ASSUME IInv, NEW r \in Requests, Recording(r), Recorder!AppendEvent(r)
  PROVE  IInv'
<1>0. PICK att, o : att = calls[r].att /\ o = att.operation_id
  OBVIOUS
<1>1. /\ calls[r].pc = "append" /\ pc[r] \in Events
      /\ att \in Recorder!Attestation
      /\ o = held[r].operation_id /\ att.proof_digest = held[r].proof_digest
      /\ att.artifact_type = pc[r]
  BY <1>0 DEF Recorder!AppendEvent, IInv, Local, Call
<1>2. /\ records' = [records EXCEPT ![o] = Append(@, att)]
      /\ heads' = [heads EXCEPT ![o] =
           [subject_digest |-> att.subject_digest, proof_digest |-> att.proof_digest,
            sequence |-> att.sequence, attestation_id |-> att.attestation_id]]
      /\ seen_ids' = seen_ids \cup {att.attestation_id}
      /\ calls' = [calls EXCEPT ![r] = [calls[r] EXCEPT !.pc = "readback"]]
      /\ heads[o] # NoHead => heads[o].proof_digest = att.proof_digest
      /\ UNCHANGED <<admission, now, pc, input, held, answer, delivered, network, dispatches>>
  BY <1>0 DEF Recording, Recorder!AppendEvent, Recorder!Appendable, Recorder!AnchorMatches,
         Recorder!Persist, Recorder!Goto, handler, wire
<1>3. /\ o \in Operations /\ att.subject_digest \in Subjects /\ att.proof_digest \in Proofs
      /\ att.sequence \in Nat /\ att.attestation_id \in Requests \X Events
  BY <1>0, <1>1 DEF Recorder!Attestation
<1>4. /\ records[o] \in Seq(Recorder!Attestation) /\ Len(records[o]) \in Nat
      /\ \A x \in Operations \ {o} : records'[x] = records[x] /\ heads'[x] = heads[x]
      /\ records'[o] = Append(records[o], att)
      /\ heads'[o].proof_digest = att.proof_digest
  <2>1. /\ records \in [Operations -> Seq(Recorder!Attestation)]
        /\ heads \in [Operations -> Recorder!StoreHead \cup {NoHead}]
    BY DEF IInv, Recorder!TypeOK, Recorder!StoreTypeOK
  <2>2. records[o] \in Seq(Recorder!Attestation) /\ records'[o] = Append(records[o], att)
    BY <1>2, <1>3, <2>1
  <2>3. Len(records[o]) \in Nat
    BY <2>2, LenProperties
  <2>4. heads'[o].proof_digest = att.proof_digest
    BY <1>2, <1>3, <2>1
  <2>5. \A x \in Operations \ {o} : records'[x] = records[x] /\ heads'[x] = heads[x]
    BY <1>2, <2>1
  <2> QED
    BY <2>2, <2>3, <2>4, <2>5
<1>5. /\ Len(records'[o]) = Len(records[o]) + 1
      /\ \A i \in 1 .. Len(records[o]) : records'[o][i] = records[o][i]
      /\ records'[o][Len(records[o]) + 1] = att
  BY <1>1, <1>4
<1>6. calls[r] \in [pc : Recorder!CallStates,
             att : Recorder!Attestation \cup {NoAttestation}, exported : BOOLEAN]
  BY DEF IInv, Recorder!TypeOK
<1>7. /\ calls'[r].pc = "readback" /\ calls'[r].att = att
      /\ \A s \in Requests \ {r} : calls'[s] = calls[s]
  BY <1>0, <1>2, <1>6 DEF IInv, Recorder!TypeOK
<1>8. [calls[r] EXCEPT !.pc = "readback"] \in [pc : Recorder!CallStates,
             att : Recorder!Attestation \cup {NoAttestation}, exported : BOOLEAN]
  BY <1>6 DEF Recorder!CallStates
<1>9. Recorder!TypeOK'
  <2>1. records' \in [Operations -> Seq(Recorder!Attestation)]
    BY <1>1, <1>2, <1>4 DEF IInv, Recorder!TypeOK, Recorder!StoreTypeOK
  <2>2. [subject_digest |-> att.subject_digest, proof_digest |-> att.proof_digest,
         sequence |-> att.sequence, attestation_id |-> att.attestation_id] \in Recorder!StoreHead
    BY <1>3 DEF Recorder!StoreHead
  <2>3. heads' \in [Operations -> Recorder!StoreHead \cup {NoHead}]
    BY <1>2, <2>2 DEF IInv, Recorder!TypeOK, Recorder!StoreTypeOK
  <2>4. seen_ids' \in SUBSET (Requests \X Events)
    BY <1>2, <1>3 DEF IInv, Recorder!TypeOK, Recorder!StoreTypeOK
  <2> QED
    BY <1>2, <1>8, <2>1, <2>3, <2>4 DEF IInv, Recorder!TypeOK, Recorder!StoreTypeOK
<1>10. Admission!TypeOK' /\ HandlerTypeOK'
  BY <1>2 DEF IInv, Admission!TypeOK, admission, HandlerTypeOK
<1>11. ASSUME NEW rec \in Admission!Record, NEW e \in Events, Entry(rec, e)
       PROVE  Entry(rec, e)'
  <2>1. rec.operation_id \in Operations
    BY DEF Admission!Record
  <2>2. CASE rec.operation_id # o
    BY <1>4, <1>11, <2>1, <2>2 DEF Entry
  <2>3. CASE rec.operation_id = o
    <3>1. PICK i \in 1 .. Len(records[o]) :
            records[o][i].artifact_type = e /\ records[o][i].proof_digest = rec.proof_digest
      BY <1>11, <2>3 DEF Entry
    <3>2. i \in 1 .. Len(records'[o]) /\ records'[o][i] = records[o][i]
      BY <1>4, <1>5, <3>1
    <3> QED
      BY <2>3, <3>1, <3>2 DEF Entry
  <2> QED
    BY <2>2, <2>3
<1>12. ASSUME NEW x \in Operations, NEW e \in Events
       PROVE  /\ Claimed(x, e) => Claimed(x, e)'
              /\ Claimed(x, e)' => Claimed(x, e) \/ (x = o /\ e = pc[r])
  <2>1. CASE x # o
    BY <1>4, <2>1 DEF Claimed
  <2>2. CASE x = o
    <3>1. ASSUME Claimed(o, e) PROVE Claimed(o, e)'
      <4>1. PICK i \in 1 .. Len(records[o]) : records[o][i].artifact_type = e
        BY <3>1 DEF Claimed
      <4>2. i \in 1 .. Len(records'[o]) /\ records'[o][i] = records[o][i]
        BY <1>4, <1>5, <4>1
      <4>3. \E j \in 1 .. Len(records'[o]) : records'[o][j].artifact_type = e
        BY <4>1, <4>2
      <4> QED
        BY <4>3 DEF Claimed
    <3>2. ASSUME Claimed(o, e)' PROVE Claimed(o, e) \/ e = pc[r]
      <4>1. PICK i \in 1 .. Len(records'[o]) : records'[o][i].artifact_type = e
        BY <3>2 DEF Claimed
      <4>2. CASE i \in 1 .. Len(records[o])
        BY <1>5, <4>1, <4>2 DEF Claimed
      <4>3. CASE i = Len(records[o]) + 1
        BY <1>1, <1>5, <4>1, <4>3
      <4> QED
        BY <1>4, <1>5, <4>1, <4>2, <4>3
    <3> QED
      BY <2>2, <3>1, <3>2
  <2> QED
    BY <2>1, <2>2
<1>13. ASSUME NEW s \in Requests \ {r} PROVE Local(s)'
  <2>1. StaysFor(s)
    BY <1>2, <1>7, <1>11, <1>12 DEF StaysFor, IInv, Local, Data, admission
  <2> QED
    BY <2>1, Bystander DEF IInv
<1>14. Local(r)'
  <2>1. pc[r] \in Holding
    BY <1>1 DEF Events, Holding, PreDispatch, PostDispatch
  <2>2. held[r] \in Admission!Record
    BY <2>1 DEF IInv, Local, Data, Authorised
  <2>3. Data(r)'
    BY <1>2 DEF IInv, Local, Data, Authorised, admission
  <2>4. Barrier(r)'
    BY <1>2, <1>11, <2>2 DEF IInv, Local, Barrier, Admitted, Events
  <2>5. Call(r)'
    BY <1>0, <1>1, <1>2, <1>7 DEF Call
  <2>6. Stream_(r)'
    BY <1>2 DEF IInv, Local, Stream_
  <2>7. Answer_(r)'
    <3>1. answer[r] = 0
      BY <1>1 DEF IInv, Local, Answer_, Events
    <3> QED
      BY <1>2, <3>1 DEF Answer_, Refusals
  <2> QED
    BY <2>3, <2>4, <2>5, <2>6, <2>7 DEF Local
<1>15. (\A s \in Requests : \A u \in Requests \ {s} : Distinct(s, u))'
  BY <1>2 DEF IInv, Distinct
<1>16. Shared'
  <2>1. (\A u \in Tokens : Granted(u))'
    BY <1>2, <1>11 DEF Granted, Authorised, Admitted, Events, IInv, Shared, admission
  <2>2. SpentOnce' /\ AtMostOneDispatch'
    BY <1>2 DEF IInv, Shared, SpentOnce, AtMostOneDispatch, admission
  <2>3. Anchored'
    <3>1. SUFFICES ASSUME NEW x \in Operations, NEW i \in 1 .. Len(records'[x])
                   PROVE  heads'[x] # NoHead /\ records'[x][i].proof_digest = heads'[x].proof_digest
      BY DEF Anchored
    <3>2. CASE x # o
      BY <1>4, <3>2 DEF IInv, Shared, Anchored
    <3>3. CASE x = o
      <4>1. heads'[o] # NoHead
        <5>1. [subject_digest |-> att.subject_digest, proof_digest |-> att.proof_digest,
               sequence |-> att.sequence, attestation_id |-> att.attestation_id]
                 \in Recorder!StoreHead
          BY <1>3 DEF Recorder!StoreHead
        <5> QED
          BY <1>2, <1>3, <5>1, NullAssumption DEF IInv, Recorder!TypeOK, Recorder!StoreTypeOK
      <4>2. CASE i \in 1 .. Len(records[o])
        BY <1>2, <1>3, <1>4, <1>5, <3>3, <4>1, <4>2 DEF IInv, Shared, Anchored
      <4>3. CASE i = Len(records[o]) + 1
        BY <1>4, <1>5, <3>3, <4>1, <4>3
      <4> QED
        BY <1>4, <1>5, <3>3, <4>2, <4>3
    <3> QED
      BY <3>2, <3>3
  <2>4. (\A d \in dispatches : Dispatched(d))'
    BY <1>2, <1>11 DEF IInv, Shared, Dispatched, Authorised, Admitted, Events, admission
  <2>5. Facts'
    <3>1. /\ pc[r] = "admission_created" => o \in reserved_operations
          /\ pc[r] = "admission_consumed" => consumptions[o] # 0
          /\ pc[r] = "upstream_dispatched" => Happened(o, Reached)
          /\ pc[r] = "upstream_completed" => Happened(o, {"complete"})
          /\ pc[r] = "upstream_failed" => Happened(o, {"aborted", "broken"})
      BY <1>1 DEF IInv, Local, Data, Stream_, PreDispatch, PostDispatch, Happened, Reached
    <3>2. UNCHANGED <<dispatches, network, reserved_operations, consumptions>>
      BY <1>2 DEF admission
    <3>3. SUFFICES ASSUME NEW x \in Operations
                   PROVE  /\ Claimed(x, "admission_created")' => x \in reserved_operations
                          /\ Claimed(x, "admission_consumed")' => consumptions[x] # 0
                          /\ Claimed(x, "upstream_dispatched")' => Happened(x, Reached)
                          /\ Claimed(x, "upstream_completed")' => Happened(x, {"complete"})
                          /\ Claimed(x, "upstream_failed")' => Happened(x, {"aborted", "broken"})
      BY <3>2 DEF Facts, Happened
    <3> QED
      BY <1>12, <3>1 DEF IInv, Shared, Facts, Events
  <2> QED
    BY <2>1, <2>2, <2>3, <2>4, <2>5 DEF Shared
<1> QED
  BY <1>9, <1>10, <1>13, <1>14, <1>15, <1>16 DEF IInv

-----------------------------------------------------------------------------
LEMMA Initial ==
  ASSUME Init
  PROVE  IInv
<1> USE DEF Init, Admission!Init, Recorder!Init, Recorder!StoreInit
<1>1. Admission!TypeOK
  BY DEF Admission!TypeOK
<1>2. Recorder!TypeOK
  BY DEF Recorder!TypeOK, Recorder!StoreTypeOK, Recorder!Idle, Recorder!CallStates
<1>3. HandlerTypeOK
  BY GatewayAssumption
  DEF HandlerTypeOK, Places, Input, Blank, Statuses, WireStates
<1>4. Shared
  BY DEF Shared, Granted, SpentOnce, Anchored, AtMostOneDispatch, Facts, Claimed
<1>5. ASSUME NEW r \in Requests PROVE Local(r)
  BY DEF Local, Data, Barrier, Call, Stream_, Answer_, Events, Holding, PreDispatch,
         PostDispatch, Refusals, Recorder!Idle
<1>6. ASSUME NEW r \in Requests, NEW s \in Requests \ {r} PROVE Distinct(r, s)
  BY DEF Distinct, PreDispatch
<1> QED
  BY <1>1, <1>2, <1>3, <1>4, <1>5, <1>6 DEF IInv

LEMMA FineKeeps ==
  ASSUME IInv, NEW r \in Requests, Fine(r)
  PROVE  IInv'
BY LocalStepKeeps DEF Fine

LEMMA HandlerStepKeeps ==
  ASSUME IInv, NEW r \in Requests, HandlerStep(r)
  PROVE  IInv'
<1>1. CASE Assess(r) \/ Admit(r) \/ ReserveRefused(r) \/ Check(r)
  BY <1>1, AssessFine, AdmitFine, ReserveRefusedFine, CheckFine, FineKeeps
<1>2. CASE Reserve(r)
  BY <1>2, ReserveKeeps
<1>3. CASE Consume(r)
  <2>1. CASE Admission!Consume(input[r].token)
    BY <1>3, <2>1, ConsumeKeeps
  <2>2. CASE ~ Admission!Consume(input[r].token)
    <3>1. /\ pc[r] = "consume" /\ (Answer(r, 401) \/ Answer(r, 500))
          /\ UNCHANGED <<admission, provenance, now, delivered, wire>>
      BY <1>3, <2>2 DEF Consume
    <3> QED
      BY <3>1, RefusedFine, FineKeeps
  <2> QED
    BY <2>1, <2>2
<1>4. CASE Dispatch(r)
  <2>1. CASE ~ UNCHANGED wire
    BY <1>4, <2>1, DispatchKeeps
  <2>2. CASE UNCHANGED wire
    <3>1. pc[r] = "dispatch" /\ UNCHANGED <<admission, provenance, now, delivered, wire>>
      BY <1>4, <2>2 DEF Dispatch
    <3>2. network[r] = "none" /\ network \in [Requests -> WireStates]
      BY <3>1, NotOnWire DEF IInv, HandlerTypeOK, Events, PostDispatch
    <3>3. network' # [network EXCEPT ![r] = "opening"]
      BY <2>2, <3>2 DEF wire
    <3>4. Answer(r, 401) \/ Answer(r, 503)
      BY <1>4, <3>3 DEF Dispatch
    <3> QED
      BY <3>1, <3>4, RefusedFine, FineKeeps
  <2> QED
    BY <2>1, <2>2
<1>5. CASE Stream(r) \/ Response(r)
  BY <1>5, WireFine, FineKeeps
<1>6. CASE StartRecording(r)
  BY <1>6, StartRecordingFine, FineKeeps
<1>7. CASE Recording(r)
  BY <1>7, AppendKeeps, RecordingFine, FineKeeps
<1>8. CASE RecordingFailed(r) \/ Respond(r)
  BY <1>8, RespondFine, FineKeeps
<1>9. CASE DeliverToken(r)
  BY <1>9, DeliverTokenKeeps
<1>10. CASE Proceed(r)
  BY <1>10, ProceedFine, FineKeeps
<1> QED
  BY <1>1, <1>2, <1>3, <1>4, <1>5, <1>6, <1>7, <1>8, <1>9, <1>10 DEF HandlerStep

LEMMA ClientStepKeeps ==
  ASSUME IInv, NEW r \in Requests, ClientStep(r)
  PROVE  IInv'
<1>1. CASE MalformedProof(r) \/ MalformedToken(r)
  BY <1>1, ClientMalformed, FineKeeps
<1>2. CASE \E p \in Proofs : PostAdmission(r, p)
  BY <1>2, ClientPosts, FineKeeps
<1>3. CASE \E t \in Tokens, g \in Targets : ProxyRequest(r, t, g)
  BY <1>3, ClientCalls, FineKeeps
<1>4. CASE ReadBody(r)
  BY <1>4, ReadBodyFine, FineKeeps
<1> QED
  BY <1>1, <1>2, <1>3, <1>4 DEF ClientStep

LEMMA Inductive ==
  IInv /\ [Next]_vars => IInv'
<1> SUFFICES ASSUME IInv, [Next]_vars
             PROVE  IInv'
  OBVIOUS
<1>1. CASE \E r \in Requests : HandlerStep(r) \/ ClientStep(r) \/ Abandon(r)
  BY <1>1, HandlerStepKeeps, ClientStepKeeps, AbandonFine, FineKeeps
<1>2. CASE Tick \/ UNCHANGED vars
  BY <1>2, TickKeeps
<1> QED
  BY <1>1, <1>2 DEF Next, AllDone

LEMMA Invariance ==
  Spec => []IInv
<1>1. Init => IInv
  BY Initial
<1> QED
  BY <1>1, Inductive, PTL DEF Spec

-----------------------------------------------------------------------------
(* The order of the chain.  What a request is about to record is not in the  *)
(* chain yet, and the events that must come before it are: Fresh adds to the *)
(* facts about a request what IInv does not say.                             *)
PreparedLater == {"admission_consumed", "check", "body"}

Fresh(r) ==
    LET o == held[r].operation_id IN
    /\ pc[r] \in Events \ {"proof_assessed"} /\ calls[r].pc \in {"idle", "append"} =>
         ~ Claimed(o, pc[r])
    /\ pc[r] \in PreparedLater => ~ Claimed(o, "upstream_dispatch_prepared")
    /\ pc[r] \in {"response", "upstream_completed"} => Claimed(o, "upstream_dispatched")

LInv == LifecyclePrefix /\ \A r \in Requests : Fresh(r)

(* A step that stores nothing and leaves the other requests where they are.  *)
Quietly(r) ==
    /\ UNCHANGED records
    /\ \A s \in Requests \ {r} : <<pc[s], held[s], calls[s]>>' = <<pc[s], held[s], calls[s]>>

LEMMA QuietKeepsOrder ==
  ASSUME LInv, NEW r \in Requests, Quietly(r), Fresh(r)'
  PROVE  LInv'
<1>1. LifecyclePrefix'
  BY DEF LInv, LifecyclePrefix, Past, Quietly
<1>2. ASSUME NEW s \in Requests \ {r} PROVE Fresh(s)'
  BY DEF LInv, Fresh, Claimed, Quietly
<1> QED
  BY <1>1, <1>2 DEF LInv

(* Places at which nothing about the chain has to be known.                  *)
Carefree == Places \ ((Events \ {"proof_assessed"}) \cup PreparedLater \cup {"response"})

LEMMA StaysFresh ==
  ASSUME NEW r \in Requests, Fresh(r), UNCHANGED records,
         \/ pc'[r] \in Carefree
         \/ /\ pc'[r] = pc[r] /\ held'[r] = held[r]
            /\ calls'[r].pc \in {"idle", "append"} => calls[r].pc \in {"idle", "append"}
  PROVE  Fresh(r)'
BY DEF Fresh, Carefree, Claimed, Events

LEMMA QuietAnswer ==
  ASSUME IInv, LInv, NEW r \in Requests, NEW status, Answer(r, status), UNCHANGED records,
         UNCHANGED calls \/ Returned(r)
  PROVE  LInv'
<1>1. pc'[r] = "done" /\ "done" \in Carefree
  BY DEF IInv, HandlerTypeOK, Answer, Carefree, Places, Events, PreparedLater
<1>2. Quietly(r)
  BY DEF IInv, HandlerTypeOK, Recorder!TypeOK, Answer, Quietly, Returned
<1>3. Fresh(r)'
  BY <1>1, StaysFresh DEF LInv
<1> QED
  BY <1>2, <1>3, QuietKeepsOrder

LEMMA QuietMove ==
  ASSUME IInv, LInv, NEW r \in Requests, NEW place, Goto(r, place),
         \A s \in Requests \ {r} : held'[s] = held[s],
         UNCHANGED records, UNCHANGED calls \/ Returned(r),
         place \in Carefree \/ Fresh(r)'
  PROVE  LInv'
<1>1. pc'[r] = place
  BY DEF IInv, HandlerTypeOK, Goto
<1>2. Quietly(r)
  BY DEF IInv, HandlerTypeOK, Recorder!TypeOK, Goto, Quietly, Returned
<1>3. Fresh(r)'
  BY <1>1, StaysFresh DEF LInv
<1> QED
  BY <1>2, <1>3, QuietKeepsOrder

(* The steps after which nothing new has to be known.                        *)
LEMMA CarefreeSteps ==
  ASSUME IInv, LInv, NEW r \in Requests,
         \/ MalformedProof(r) \/ MalformedToken(r) \/ Assess(r) \/ Admit(r)
         \/ ReserveRefused(r) \/ Dispatch(r) \/ DeliverToken(r) \/ Respond(r)
         \/ RecordingFailed(r) \/ Abandon(r)
         \/ \E p \in Proofs : PostAdmission(r, p)
         \/ \E t \in Tokens, g \in Targets : ProxyRequest(r, t, g)
  PROVE  LInv'
<1>1. UNCHANGED records /\ (UNCHANGED calls \/ Returned(r))
  BY DEF MalformedProof, MalformedToken, Assess, Admit, ReserveRefused, Dispatch, DeliverToken,
         Respond, RecordingFailed, Abandon, PostAdmission, ProxyRequest, Recorder!Return,
         Recorder!store, Returned, provenance
<1>2. \/ \E status \in Statuses : Answer(r, status)
      \/ /\ \E place \in {"assess", "admit", "proof_assessed", "consume", "stream"} :
              Goto(r, place)
         /\ \A s \in Requests \ {r} : held'[s] = held[s]
  BY DEF MalformedProof, MalformedToken, Assess, Admit, ReserveRefused, Dispatch, DeliverToken,
         Respond, RecordingFailed, Abandon, PostAdmission, ProxyRequest, FailureStatus, Statuses,
         Keep, IInv, HandlerTypeOK
<1>3. {"assess", "admit", "proof_assessed", "consume", "stream"} \subseteq Carefree
  BY DEF Carefree, Places, Events, PreparedLater
<1> QED
  BY <1>1, <1>2, <1>3, QuietAnswer, QuietMove

LEMMA ReserveOrder ==
  ASSUME IInv, LInv, NEW r \in Requests, Reserve(r)
  PROVE  LInv'
<1>1. UNCHANGED <<records, calls>> /\ pc[r] = "reserve"
  BY DEF Reserve, provenance
<1>2. PICK t \in Tokens :
        /\ Admission!Reserve(held[r], t)
        /\ \/ Goto(r, "admission_created") /\ UNCHANGED held
           \/ Answer(r, 503)
  BY DEF Reserve
<1>3. CASE Answer(r, 503)
  BY <1>1, <1>3, QuietAnswer
<1>4. CASE Goto(r, "admission_created") /\ UNCHANGED held
  <2>1. held[r].operation_id \in Operations /\ held[r].operation_id \notin reserved_operations
    BY <1>1, <1>2
    DEF Admission!Reserve, Admission!Replayed, IInv, Local, Data, Holding, Authorised,
        Admission!Record
  <2>2. ~ Claimed(held[r].operation_id, "admission_created")
    BY <2>1 DEF IInv, Shared, Facts
  <2>3. pc'[r] = "admission_created" /\ held'[r] = held[r]
    BY <1>4 DEF Goto, IInv, HandlerTypeOK
  <2>4. Fresh(r)'
    BY <1>1, <2>2, <2>3 DEF Fresh, Claimed, PreparedLater
  <2> QED
    BY <1>1, <1>4, <2>4, QuietMove
<1> QED
  BY <1>2, <1>3, <1>4

(* Preparation is claimed only after consumption.                            *)
LEMMA PreparedWasConsumed ==
  ASSUME Recorder!TypeOK, LifecyclePrefix, NEW o \in Operations,
         Claimed(o, "upstream_dispatch_prepared")
  PROVE  Claimed(o, "admission_consumed")
<1>1. PICK i \in 1 .. Len(records[o]) :
        records[o][i].artifact_type = "upstream_dispatch_prepared"
  BY DEF Claimed
<1>2. "admission_consumed" \in Past(o, i - 1)
  BY <1>1 DEF LifecyclePrefix, MayFollow
<1>3. PICK j \in 1 .. (i - 1) : records[o][j].artifact_type = "admission_consumed"
  BY <1>2 DEF Past
<1>4. Len(records[o]) \in Nat
  BY LenProperties DEF Recorder!TypeOK, Recorder!StoreTypeOK
<1>5. j \in 1 .. Len(records[o])
  BY <1>4
<1> QED
  BY <1>3, <1>5 DEF Claimed

LEMMA ConsumeOrder ==
  ASSUME IInv, LInv, NEW r \in Requests, Consume(r)
  PROVE  LInv'
<1>1. UNCHANGED <<records, calls>> /\ pc[r] = "consume"
  BY DEF Consume, provenance
<1>2. CASE \E status \in Statuses : Answer(r, status)
  BY <1>1, <1>2, QuietAnswer
<1>3. CASE /\ Admission!Consume(input[r].token)
           /\ held' = [held EXCEPT ![r] = tokens[input[r].token]]
           /\ Goto(r, "admission_consumed")
  <2>1. PICK o \in Operations :
          o = tokens[input[r].token].operation_id /\ consumptions[o] = 0
    <3>1. input[r].token \in Tokens
      BY <1>1 DEF IInv, HandlerTypeOK, Local, Data
    <3>2. tokens[input[r].token] # NoRecord
      BY <1>3 DEF Admission!Consume, Admission!Live
    <3> QED
      BY <3>1, <3>2 DEF IInv, Shared, Granted, Authorised, Admission!Record
  <2>2. ~ Claimed(o, "admission_consumed")
    BY <2>1 DEF IInv, Shared, Facts
  <2>3. ~ Claimed(o, "upstream_dispatch_prepared")
    BY <2>2, PreparedWasConsumed DEF IInv, LInv
  <2>4. /\ pc'[r] = "admission_consumed" /\ held'[r].operation_id = o
        /\ \A s \in Requests \ {r} : held'[s] = held[s]
    BY <1>3, <2>1 DEF Goto, IInv, HandlerTypeOK
  <2>5. Fresh(r)'
    BY <1>1, <2>2, <2>3, <2>4 DEF Fresh, Claimed
  <2> QED
    BY <1>1, <1>3, <2>4, <2>5, QuietMove
<1> QED
  BY <1>2, <1>3 DEF Consume, Statuses

LEMMA CheckOrder ==
  ASSUME IInv, LInv, NEW r \in Requests, Check(r) \/ ReadBody(r)
  PROVE  LInv'
<1>1. UNCHANGED <<records, calls>> /\ pc[r] \in {"check", "body"}
  BY DEF Check, ReadBody, provenance
<1>2. CASE \E status \in Statuses : Answer(r, status)
  BY <1>1, <1>2, QuietAnswer
<1>3. CASE \E place \in {"body", "upstream_dispatch_prepared"} : Goto(r, place) /\ UNCHANGED held
  <2>1. PICK place \in {"body", "upstream_dispatch_prepared"} : Goto(r, place) /\ UNCHANGED held
    BY <1>3
  <2>2. pc'[r] = place /\ held'[r] = held[r]
    BY <2>1 DEF Goto, IInv, HandlerTypeOK
  <2>3. ~ Claimed(held[r].operation_id, "upstream_dispatch_prepared")
    BY <1>1 DEF LInv, Fresh, PreparedLater
  <2>4. Fresh(r)'
    BY <1>1, <2>2, <2>3 DEF Fresh, Claimed, PreparedLater, Events
  <2> QED
    BY <1>1, <2>1, <2>4, QuietMove
<1> QED
  BY <1>2, <1>3 DEF Check, ReadBody, Statuses, Keep

(* The only stream of the operation of a request that has opened one.        *)
LEMMA OwnStream ==
  ASSUME IInv, NEW r \in Requests, pc[r] \in PostDispatch,
         NEW states, Happened(held[r].operation_id, states)
  PROVE  network[r] \in states
BY DEF IInv, Shared, AtMostOneDispatch, Local, Stream_, Happened

LEMMA WireOrder ==
  ASSUME IInv, LInv, NEW r \in Requests, Stream(r) \/ Response(r)
  PROVE  LInv'
<1>0. PICK o \in Operations : o = held[r].operation_id
  BY DEF Stream, Response, IInv, Local, Data, Holding, PostDispatch, Authorised, Admission!Record
<1>1. UNCHANGED <<records, calls>> /\ UNCHANGED held
  BY DEF Stream, Response, provenance, Keep
<1>2. /\ pc[r] \in PostDispatch
      /\ pc[r] = "stream" => network[r] = "opening"
      /\ pc[r] = "response" => network[r] = "entered"
  BY DEF Stream, Response, IInv, Local, Stream_, PostDispatch
<1>3. PICK place \in {"upstream_dispatched", "upstream_completed", "upstream_failed"} :
        /\ Goto(r, place)
        /\ place = "upstream_dispatched" => pc[r] = "stream"
        /\ place = "upstream_completed" => pc[r] = "response"
        /\ place = "upstream_failed" => pc[r] \in {"stream", "response"}
  BY DEF Stream, Response
<1>4. pc'[r] = place /\ held'[r] = held[r]
  BY <1>1, <1>3 DEF Goto, IInv, HandlerTypeOK
<1>5. ~ Claimed(o, place)
  <2>1. /\ ~ Claimed(o, "upstream_completed")
        /\ ~ Claimed(o, "upstream_failed")
        /\ pc[r] = "stream" => ~ Claimed(o, "upstream_dispatched")
    BY <1>0, <1>2, <1>3, OwnStream DEF IInv, Shared, Facts, Reached
  <2> QED
    BY <1>3, <2>1
<1>6. place = "upstream_completed" => Claimed(o, "upstream_dispatched")
  BY <1>0, <1>3 DEF LInv, Fresh
<1>7. Fresh(r)'
  BY <1>0, <1>1, <1>4, <1>5, <1>6 DEF Fresh, Claimed, PreparedLater
<1> QED
  BY <1>1, <1>3, <1>7, QuietMove

LEMMA ProceedOrder ==
  ASSUME IInv, LInv, NEW r \in Requests, Proceed(r)
  PROVE  LInv'
<1>1. /\ UNCHANGED <<records, held>> /\ Returned(r) /\ Goto(r, NextPlace(r))
      /\ pc[r] \in {"proof_assessed", "admission_consumed", "upstream_dispatch_prepared",
                    "upstream_dispatched"}
      /\ Entry(held[r], pc[r])
  BY DEF Proceed, Recorder!Return, Recorder!store, Returned, Keep, IInv, Local, Call, Events
<1>2. \/ pc[r] = "proof_assessed" /\ NextPlace(r) = "reserve"
      \/ pc[r] = "admission_consumed" /\ NextPlace(r) = "check"
      \/ pc[r] = "upstream_dispatch_prepared" /\ NextPlace(r) = "dispatch"
      \/ pc[r] = "upstream_dispatched" /\ NextPlace(r) = "response"
  BY <1>1 DEF NextPlace
<1>3. pc'[r] = NextPlace(r) /\ held'[r] = held[r]
  BY <1>1 DEF Goto, IInv, HandlerTypeOK
<1>4. NextPlace(r) \in Carefree \/ Fresh(r)'
  <2>1. CASE NextPlace(r) \in {"reserve", "dispatch"}
    BY <2>1 DEF Carefree, Places, Events, PreparedLater
  <2>2. CASE NextPlace(r) = "check"
    <3>1. ~ Claimed(held[r].operation_id, "upstream_dispatch_prepared")
      BY <1>2, <2>2 DEF LInv, Fresh, PreparedLater
    <3> QED
      BY <1>1, <1>3, <2>2, <3>1 DEF Fresh, Claimed, Events
  <2>3. CASE NextPlace(r) = "response"
    <3>1. Claimed(held[r].operation_id, "upstream_dispatched")
      BY <1>1, <1>2, <2>3 DEF Entry, Claimed
    <3> QED
      BY <1>1, <1>3, <2>3, <3>1 DEF Fresh, Claimed, Events, PreparedLater
  <2> QED
    BY <1>2, <2>1, <2>2, <2>3
<1> QED
  BY <1>1, <1>4, QuietMove

(* A call of the recorder starts, or goes on without storing anything.       *)
LEMMA CallOrder ==
  ASSUME IInv, LInv, NEW r \in Requests,
         StartRecording(r) \/ (Recording(r) /\ ~ Recorder!AppendEvent(r))
  PROVE  LInv'
<1>1. /\ UNCHANGED <<records, pc, held>>
      /\ \/ calls[r].pc = "idle"
         \/ Recorder!AppendRefused(r) \/ Recorder!ReadBack(r) \/ Recorder!ReadBackRefused(r)
  BY DEF StartRecording, Recorder!RecordEvent, Recorder!RecordRefused, Recording, Recorder!Step,
         Recorder!AppendRefused, Recorder!ReadBack, Recorder!ReadBackRefused, Recorder!store,
         handler
<1>2. \A s \in Requests \ {r} : calls'[s] = calls[s]
  BY DEF StartRecording, Recorder!RecordEvent, Recorder!RecordRefused, Recorder!Goto,
         Recording, Recorder!Step, Recorder!AppendRefused, Recorder!ReadBack,
         Recorder!ReadBackRefused, IInv, Recorder!TypeOK
<1>3. calls[r].pc # "idle" => calls'[r].pc \in {"ok", "failed"}
  <2>1. calls[r] \in [pc : Recorder!CallStates,
             att : Recorder!Attestation \cup {NoAttestation}, exported : BOOLEAN]
    BY DEF IInv, Recorder!TypeOK
  <2>2. CASE Recorder!AppendRefused(r) \/ Recorder!ReadBackRefused(r)
    BY <2>1, <2>2
    DEF Recorder!AppendRefused, Recorder!ReadBackRefused, Recorder!Goto, IInv, Recorder!TypeOK
  <2>3. CASE Recorder!ReadBack(r)
    BY <2>1, <2>3 DEF Recorder!ReadBack, IInv, Recorder!TypeOK
  <2> QED
    BY <1>1, <2>2, <2>3
<1>4. Quietly(r)
  BY <1>1, <1>2 DEF Quietly
<1>5. Fresh(r)'
  BY <1>1, <1>3, StaysFresh DEF LInv
<1> QED
  BY <1>4, <1>5, QuietKeepsOrder

(* What an append changes.                                                   *)
LEMMA Appended ==
  ASSUME IInv, NEW r \in Requests, Recording(r), Recorder!AppendEvent(r),
         NEW o, o = held[r].operation_id, NEW n, n = Len(records[o])
  PROVE  /\ o \in Operations /\ n \in Nat
         /\ calls[r].pc = "append" /\ pc[r] \in Events
         /\ \A x \in Operations \ {o} : records'[x] = records[x]
         /\ Len(records'[o]) = n + 1
         /\ \A i \in 1 .. n : records'[o][i] = records[o][i]
         /\ records'[o][n + 1].artifact_type = pc[r]
         /\ calls'[r].pc = "readback"
         /\ \A s \in Requests \ {r} : calls'[s] = calls[s]
         /\ UNCHANGED <<admission, now, pc, input, held, answer, delivered, network, dispatches>>
<1>0. PICK att : att = calls[r].att
  OBVIOUS
<1>1. /\ calls[r].pc = "append" /\ pc[r] \in Events
      /\ att \in Recorder!Attestation
      /\ o = att.operation_id /\ att.artifact_type = pc[r]
  BY <1>0 DEF Recorder!AppendEvent, IInv, Local, Call
<1>2. /\ records' = [records EXCEPT ![o] = Append(@, att)]
      /\ calls' = [calls EXCEPT ![r] = [calls[r] EXCEPT !.pc = "readback"]]
      /\ UNCHANGED <<admission, now, pc, input, held, answer, delivered, network, dispatches>>
  BY <1>0, <1>1 DEF Recording, Recorder!AppendEvent, Recorder!Persist, Recorder!Goto, handler, wire
<1>3. o \in Operations
  BY <1>1 DEF Recorder!Attestation
<1>4. /\ records \in [Operations -> Seq(Recorder!Attestation)]
      /\ calls \in [Requests -> [pc : Recorder!CallStates,
             att : Recorder!Attestation \cup {NoAttestation}, exported : BOOLEAN]]
  BY DEF IInv, Recorder!TypeOK, Recorder!StoreTypeOK
<1>5. records[o] \in Seq(Recorder!Attestation) /\ records'[o] = Append(records[o], att)
  BY <1>2, <1>3, <1>4
<1>6. n \in Nat
  BY <1>5, LenProperties
<1>7. /\ Len(records'[o]) = n + 1
      /\ \A i \in 1 .. n : records'[o][i] = records[o][i]
      /\ records'[o][n + 1] = att
  BY <1>1, <1>5, <1>6
<1>8. /\ calls'[r].pc = "readback"
      /\ \A s \in Requests \ {r} : calls'[s] = calls[s]
      /\ \A x \in Operations \ {o} : records'[x] = records[x]
  BY <1>2, <1>4
<1> QED
  BY <1>1, <1>2, <1>3, <1>6, <1>7, <1>8

(* The events that have to come before are there, those that exclude the new *)
(* one are not.                                                             *)
LEMMA InOrder ==
  ASSUME IInv, LInv, NEW r \in Requests, pc[r] \in Events, calls[r].pc = "append",
         NEW o \in Operations, o = held[r].operation_id,
         NEW past, \A e \in Events : e \in past <=> Claimed(o, e)
  PROVE  MayFollow(past, pc[r])
<1>1. pc[r] # "proof_assessed" => pc[r] \notin past
  BY DEF LInv, Fresh
<1>2. \A e \in Events : Entry(held[r], e) => e \in past
  BY DEF Entry, Claimed
<1>3. CASE pc[r] = "proof_assessed"
  BY <1>3 DEF MayFollow
<1>4. CASE pc[r] \in {"admission_created", "admission_consumed", "upstream_dispatch_prepared"}
  <2>1. /\ pc[r] = "admission_created" => Entry(held[r], "proof_assessed")
        /\ pc[r] = "admission_consumed" => Entry(held[r], "admission_created")
        /\ pc[r] = "upstream_dispatch_prepared" => Entry(held[r], "admission_consumed")
    BY DEF IInv, Local, Barrier, Admitted, PreDispatch
  <2> QED
    BY <1>1, <1>2, <1>4, <2>1 DEF MayFollow, Events
<1>5. CASE pc[r] \in {"upstream_dispatched", "upstream_completed", "upstream_failed"}
  <2>1. PICK d \in dispatches : d.request = r /\ d.record = held[r]
    BY <1>5 DEF IInv, Local, Stream_, PostDispatch
  <2>2. "upstream_dispatch_prepared" \in past
    BY <1>2, <2>1 DEF IInv, Shared, Dispatched, Events
  <2>3. /\ pc[r] = "upstream_completed" => "upstream_dispatched" \in past
        /\ pc[r] \in {"upstream_dispatched", "upstream_completed"} =>
             "upstream_failed" \notin past
        /\ pc[r] = "upstream_failed" => "upstream_completed" \notin past
    <3>1. /\ pc[r] = "upstream_dispatched" => network[r] = "entered"
          /\ pc[r] = "upstream_completed" => network[r] = "complete"
          /\ pc[r] = "upstream_failed" => network[r] \in {"aborted", "broken"}
      BY DEF IInv, Local, Stream_
    <3>2. /\ Claimed(o, "upstream_failed") => network[r] \in {"aborted", "broken"}
          /\ Claimed(o, "upstream_completed") => network[r] \in {"complete"}
      BY <1>5, OwnStream DEF IInv, Shared, Facts, PostDispatch
    <3>3. pc[r] = "upstream_completed" => Claimed(o, "upstream_dispatched")
      BY DEF LInv, Fresh
    <3> QED
      BY <3>1, <3>2, <3>3 DEF Events
  <2> QED
    BY <1>1, <1>5, <2>2, <2>3 DEF MayFollow
<1> QED
  BY <1>3, <1>4, <1>5 DEF Events

(* Nobody else is about to record the same event of the same operation.      *)
LEMMA SoleRecorder ==
  ASSUME IInv, NEW r \in Requests, NEW s \in Requests \ {r},
         pc[r] \in Events \ {"proof_assessed"},
         held[r].operation_id = held[s].operation_id
  PROVE  /\ pc[r] # pc[s]
         /\ pc[r] = "upstream_dispatch_prepared" => pc[s] \notin PreparedLater
<1>1. CASE pc[r] \in PreDispatch
  BY <1>1 DEF IInv, Distinct, PreDispatch, PreparedLater
<1>2. CASE pc[r] = "admission_created"
  <2>1. SUFFICES ASSUME pc[s] = "admission_created" PROVE FALSE
    BY <1>2
  <2>2. /\ input[r].token \in Tokens /\ input[s].token \in Tokens
        /\ input[r].token # input[s].token
        /\ tokens[input[r].token] = held[r] /\ tokens[input[s].token] = held[s]
        /\ held[r] # NoRecord /\ held[s] # NoRecord
    BY <1>2, <2>1, NullAssumption DEF IInv, Distinct, Local, Data, Holding, Authorised
  <2> QED
    BY <2>2 DEF IInv, Shared, Granted
<1>3. CASE pc[r] \in PostDispatch
  <2>1. SUFFICES ASSUME pc[s] \in PostDispatch PROVE FALSE
    BY <1>3 DEF PostDispatch
  <2>2. PICK d \in dispatches, e \in dispatches :
          d.request = r /\ d.record = held[r] /\ e.request = s /\ e.record = held[s]
    BY <1>3, <2>1 DEF IInv, Local, Stream_
  <2> QED
    BY <2>2 DEF IInv, Shared, AtMostOneDispatch
<1> QED
  BY <1>1, <1>2, <1>3 DEF Events, PreDispatch, PostDispatch

LEMMA AppendOrder ==
  ASSUME IInv, LInv, NEW r \in Requests, Recording(r), Recorder!AppendEvent(r)
  PROVE  LInv'
<1>0. PICK o, n : o = held[r].operation_id /\ n = Len(records[o])
  OBVIOUS
<1>1. /\ o \in Operations /\ n \in Nat
      /\ calls[r].pc = "append" /\ pc[r] \in Events
      /\ \A x \in Operations \ {o} : records'[x] = records[x]
      /\ Len(records'[o]) = n + 1
      /\ \A i \in 1 .. n : records'[o][i] = records[o][i]
      /\ records'[o][n + 1].artifact_type = pc[r]
      /\ calls'[r].pc = "readback"
      /\ \A s \in Requests \ {r} : calls'[s] = calls[s]
      /\ UNCHANGED <<pc, held>>
  BY <1>0, Appended, SMTT(60)
<1>2. ASSUME NEW x \in Operations, NEW e
      PROVE  /\ Claimed(x, e) => Claimed(x, e)'
             /\ Claimed(x, e)' => Claimed(x, e) \/ (x = o /\ e = pc[r])
  <2>1. CASE x # o
    BY <1>1, <2>1 DEF Claimed
  <2>2. CASE x = o
    <3>1. ASSUME NEW i \in 1 .. n PROVE i \in 1 .. (n + 1)
      BY <1>1
    <3>2. ASSUME NEW i \in 1 .. (n + 1) PROVE i \in 1 .. n \/ i = n + 1
      BY <1>1
    <3> QED
      BY <1>0, <1>1, <2>2, <3>1, <3>2 DEF Claimed
  <2> QED
    BY <2>1, <2>2
<1>3. LifecyclePrefix'
  <2>1. SUFFICES ASSUME NEW x \in Operations, NEW i \in 1 .. Len(records'[x])
                 PROVE  MayFollow(Past(x, i - 1)', records'[x][i].artifact_type)
    BY DEF LifecyclePrefix
  <2>2. CASE x # o
    <3>1. records'[x] = records[x]
      BY <1>1, <2>2
    <3>2. Past(x, i - 1)' = Past(x, i - 1)
      BY <3>1 DEF Past
    <3>3. MayFollow(Past(x, i - 1), records[x][i].artifact_type)
      BY <3>1 DEF LInv, LifecyclePrefix
    <3> QED
      BY <3>1, <3>2, <3>3
  <2>3. ASSUME x = o, NEW k \in 0 .. n PROVE Past(o, k)' = Past(o, k)
    <3>1. \A j \in 1 .. k : j \in 1 .. n
      BY <1>1
    <3> QED
      BY <1>1, <3>1 DEF Past
  <2>4. CASE x = o /\ i \in 1 .. n
    <3>1. i - 1 \in 0 .. n
      BY <1>1, <2>4
    <3> QED
      BY <1>0, <1>1, <2>3, <2>4, <3>1 DEF LInv, LifecyclePrefix
  <2>5. CASE x = o /\ i = n + 1
    <3>1. i - 1 = n /\ n \in 0 .. n
      BY <1>1, <2>5
    <3>2. \A e \in Events : e \in Past(o, n) <=> Claimed(o, e)
      BY <1>0 DEF Past, Claimed
    <3>3. MayFollow(Past(o, n), pc[r])
      BY <1>0, <1>1, <3>2, InOrder
    <3> QED
      BY <1>1, <2>3, <2>5, <3>1, <3>3
  <2> QED
    BY <1>1, <2>1, <2>2, <2>4, <2>5
<1>4. ASSUME NEW s \in Requests PROVE Fresh(s)'
  <2>1. held[s].operation_id \in Operations \/ pc[s] \notin Holding
    BY DEF IInv, Local, Data, Authorised, Admission!Record
  <2>2. pc[s] \in Events \cup PreparedLater \cup {"response"} => pc[s] \in Holding
    BY DEF Events, PreparedLater, Holding, PreDispatch, PostDispatch
  <2>3. CASE s = r
    <3>1. pc[r] \in PreparedLater => pc[r] # "upstream_dispatch_prepared"
      BY DEF PreparedLater
    <3> QED
      BY <1>0, <1>1, <1>2, <2>3, <3>1 DEF LInv, Fresh
  <2>4. CASE s # r /\ held[s].operation_id = o
    <3>1. pc[r] # "proof_assessed" =>
            /\ pc[r] # pc[s]
            /\ pc[r] = "upstream_dispatch_prepared" => pc[s] \notin PreparedLater
      BY <1>0, <1>1, <2>4, SoleRecorder
    <3> QED
      BY <1>1, <1>2, <2>4, <3>1 DEF LInv, Fresh
  <2>5. CASE s # r /\ held[s].operation_id # o
    BY <1>1, <1>2, <2>1, <2>2, <2>5 DEF LInv, Fresh, Events, PreparedLater
  <2> QED
    BY <2>3, <2>4, <2>5
<1> QED
  BY <1>3, <1>4 DEF LInv

LEMMA OrderInductive ==
  ASSUME IInv, LInv, [Next]_vars
  PROVE  LInv'
<1>1. ASSUME NEW r \in Requests, HandlerStep(r) \/ ClientStep(r) \/ Abandon(r)
      PROVE  LInv'
  BY <1>1, CarefreeSteps, ReserveOrder, ConsumeOrder, CheckOrder, WireOrder, ProceedOrder,
     CallOrder, AppendOrder DEF HandlerStep, ClientStep
<1>2. CASE Tick \/ UNCHANGED vars
  BY <1>2 DEF Tick, vars, LInv, LifecyclePrefix, Past, Fresh, Claimed, provenance, handler
<1> QED
  BY <1>1, <1>2 DEF Next, AllDone

LEMMA OrderInvariance ==
  Spec => [](IInv /\ LInv)
<1>1. Init => LInv
  BY DEF Init, LInv, LifecyclePrefix, Fresh, Recorder!Init, Recorder!StoreInit, Events,
         PreparedLater
<1> QED
  BY <1>1, Initial, Inductive, OrderInductive, PTL DEF Spec

-----------------------------------------------------------------------------
(* Refinement.  The stage of an operation depends on the replay history, on  *)
(* whether its token was consumed, and on its stream.                        *)
Wires(o) == {network[d.request] : d \in {x \in dispatches : x.record.operation_id = o}}

StageVars == <<reserved_operations, consumptions, network, dispatches>>

GovernedStep ==
    \/ \A o \in Operations : Stage(o)' = Stage(o)
    \/ Governed!Next

LEMMA MovesOn ==
  ASSUME NEW o \in Operations,
         \/ Stage(o) = "unknown" /\ Stage(o)' = "admitted"
         \/ Stage(o) = "admitted" /\ Stage(o)' = "spent"
         \/ Stage(o) = "spent" /\ Stage(o)' = "open"
         \/ Stage(o) = "open" /\ Stage(o)' \in {"completed", "failed"},
         \A x \in Operations \ {o} : Stage(x)' = Stage(x)
  PROVE  GovernedStep
<1>1. ASSUME NEW from, NEW to, Stage(o) = from, Stage(o)' = to
      PROVE  Governed!Move(o, from, to)
  BY <1>1 DEF Governed!Move
<1>2. Governed!Next
  BY <1>1 DEF Governed!Next
<1> QED
  BY <1>2 DEF GovernedStep

(* The stream of an operation that was dispatched.                           *)
LEMMA OneWire ==
  ASSUME IInv, NEW d \in dispatches, NEW o, o = d.record.operation_id
  PROVE  Wires(o) = {network[d.request]}
BY DEF IInv, Shared, AtMostOneDispatch, Wires

LEMMA StageOpened ==
  ASSUME IInv, NEW d \in dispatches, NEW o, o = d.record.operation_id
  PROVE  /\ network[d.request] \in {"opening", "entered"} => Stage(o) = "open"
         /\ network[d.request] = "complete" => Stage(o) = "completed"
         /\ network[d.request] \in {"aborted", "broken"} => Stage(o) = "failed"
<1>1. o \in reserved_operations /\ consumptions[o] # 0
  BY DEF IInv, Shared, Dispatched, SpentOnce, HandlerTypeOK, Admission!Record
<1>2. Wires(o) = {network[d.request]}
  BY OneWire
<1> QED
  BY <1>1, <1>2 DEF Stage, Wires

LEMMA StageUnopened ==
  ASSUME NEW o, \A d \in dispatches : d.record.operation_id # o
  PROVE  Stage(o) = IF o \notin reserved_operations THEN "unknown"
                    ELSE IF consumptions[o] = 0 THEN "admitted" ELSE "spent"
<1>1. Wires(o) = {}
  BY DEF Wires
<1> QED
  BY <1>1 DEF Stage, Wires

LEMMA ReserveStage ==
  ASSUME IInv, NEW r \in Requests, Reserve(r)
  PROVE  GovernedStep
<1>1. PICK o \in Operations : o = held[r].operation_id
  BY DEF Reserve, IInv, Local, Data, Holding, Authorised, Admission!Record
<1>2. /\ o \notin reserved_operations
      /\ reserved_operations' = reserved_operations \cup {o}
      /\ UNCHANGED <<consumptions, network, dispatches>>
  BY <1>1 DEF Reserve, Admission!Reserve, Admission!Replayed, wire
<1>3. consumptions[o] = 0
  BY <1>2 DEF IInv, Shared, SpentOnce
<1>4. Stage(o) = "unknown" /\ Stage(o)' = "admitted"
  BY <1>2, <1>3 DEF Stage
<1>5. ASSUME NEW x \in Operations \ {o} PROVE Stage(x)' = Stage(x)
  <2>1. Wires(x)' = Wires(x) /\ (x \in reserved_operations' <=> x \in reserved_operations)
    BY <1>2 DEF Wires
  <2> QED
    BY <1>2, <2>1 DEF Stage, Wires
<1> QED
  BY <1>4, <1>5, MovesOn

LEMMA ConsumeStage ==
  ASSUME IInv, NEW r \in Requests, Consume(r), Admission!Consume(input[r].token)
  PROVE  GovernedStep
<1>1. input[r].token \in Tokens /\ tokens[input[r].token] # NoRecord
  BY DEF Consume, Admission!Consume, Admission!Live, IInv, Local, Data, HandlerTypeOK
<1>2. PICK o \in Operations :
        o = tokens[input[r].token].operation_id
        /\ o \in reserved_operations /\ consumptions[o] = 0
  BY <1>1 DEF IInv, Shared, Granted, Authorised, Admission!Record
<1>3. /\ consumptions' = [consumptions EXCEPT ![o] = @ + 1]
      /\ UNCHANGED <<reserved_operations, network, dispatches>>
  BY <1>2 DEF Consume, Admission!Consume, wire
<1>4. /\ consumptions'[o] = 1
      /\ \A x \in Operations \ {o} : consumptions'[x] = consumptions[x]
  BY <1>2, <1>3 DEF IInv, Admission!TypeOK
<1>5. \A d \in dispatches : d.record.operation_id # o
  BY <1>2 DEF IInv, Shared, Dispatched
<1>6. Stage(o) = "admitted"
  BY <1>2 DEF Stage
<1>7. Stage(o)' = "spent"
  <2>1. Wires(o)' = {}
    BY <1>3, <1>5 DEF Wires
  <2> QED
    BY <1>2, <1>3, <1>4, <2>1 DEF Stage, Wires
<1>8. \A x \in Operations \ {o} : Stage(x)' = Stage(x)
  BY <1>3, <1>4 DEF Stage
<1> QED
  BY <1>6, <1>7, <1>8, MovesOn

LEMMA DispatchStage ==
  ASSUME IInv, NEW r \in Requests, Dispatch(r), ~ UNCHANGED wire
  PROVE  GovernedStep
<1>0. PICK d : d = [request |-> r, record |-> held[r], target |-> input[r].target, at |-> now]
  OBVIOUS
<1>1. /\ pc[r] = "dispatch"
      /\ network' = [network EXCEPT ![r] = "opening"]
      /\ dispatches' = dispatches \cup {d}
      /\ UNCHANGED <<reserved_operations, consumptions>>
  BY <1>0 DEF Dispatch, wire, admission
<1>2. PICK o \in Operations : o = held[r].operation_id
  BY <1>1 DEF IInv, Local, Data, Holding, PreDispatch, Authorised, Admission!Record
<1>3. /\ consumptions[o] # 0 /\ o \in reserved_operations
      /\ \A e \in dispatches : e.request # r /\ e.record.operation_id # o
  BY <1>1, <1>2 DEF IInv, Local, Data, Stream_, Shared, SpentOnce, PreDispatch, PostDispatch
<1>4. d.request = r /\ d.record.operation_id = o
  BY <1>0, <1>2
<1>5. /\ network'[r] = "opening"
      /\ \A s \in Requests \ {r} : network'[s] = network[s]
  BY <1>1 DEF IInv, HandlerTypeOK
<1>6. Stage(o) = "spent"
  BY <1>3, StageUnopened
<1>7. Stage(o)' = "open"
  <2>1. Wires(o)' = {"opening"}
    BY <1>1, <1>3, <1>4, <1>5 DEF Wires
  <2> QED
    BY <1>1, <1>3, <2>1 DEF Stage, Wires
<1>8. ASSUME NEW x \in Operations \ {o} PROVE Stage(x)' = Stage(x)
  <2>1. Wires(x)' = Wires(x)
    BY <1>1, <1>3, <1>4, <1>5 DEF Wires, IInv, HandlerTypeOK
  <2> QED
    BY <1>1, <2>1 DEF Stage, Wires
<1> QED
  BY <1>6, <1>7, <1>8, MovesOn

LEMMA WireStage ==
  ASSUME IInv, NEW r \in Requests, Stream(r) \/ Response(r)
  PROVE  GovernedStep
<1>1. PICK state \in {"entered", "aborted", "complete", "broken"} :
        network' = [network EXCEPT ![r] = state]
  BY DEF Stream, Response, Wire
<1>2. /\ UNCHANGED <<reserved_operations, consumptions, dispatches>>
      /\ pc[r] \in PostDispatch /\ network[r] \in {"opening", "entered"}
  BY DEF Stream, Response, Wire, admission, IInv, Local, Stream_, PostDispatch
<1>3. PICK d \in dispatches : d.request = r /\ d.record = held[r]
  BY <1>2 DEF IInv, Local, Stream_
<1>4. PICK o \in Operations : o = d.record.operation_id
  BY DEF IInv, HandlerTypeOK, Admission!Record
<1>5. \A e \in dispatches : e.request = r => e.record.operation_id = o
  BY <1>2, <1>3, <1>4 DEF IInv, Local, Stream_
<1>6. /\ network'[r] = state
      /\ \A s \in Requests \ {r} : network'[s] = network[s]
  BY <1>1 DEF IInv, HandlerTypeOK
<1>7. Stage(o) = "open" /\ consumptions[o] # 0 /\ o \in reserved_operations
  BY <1>2, <1>3, <1>4, StageOpened DEF IInv, Shared, Dispatched, SpentOnce
<1>8. Wires(o)' = {state}
  BY <1>2, <1>3, <1>4, <1>6 DEF IInv, Shared, AtMostOneDispatch, Wires
<1>9. Stage(o)' \in {"open", "completed", "failed"}
  BY <1>2, <1>7, <1>8 DEF Stage, Wires
<1>10. ASSUME NEW x \in Operations \ {o} PROVE Stage(x)' = Stage(x)
  <2>1. Wires(x)' = Wires(x)
    BY <1>2, <1>5, <1>6 DEF Wires, IInv, HandlerTypeOK
  <2> QED
    BY <1>2, <2>1 DEF Stage, Wires
<1> QED
  BY <1>7, <1>9, <1>10, MovesOn DEF GovernedStep

LEMMA StutteringStage ==
  ASSUME UNCHANGED StageVars
  PROVE  GovernedStep
BY DEF GovernedStep, StageVars, Stage

LEMMA StepsAreGoverned ==
  ASSUME IInv, [Next]_vars
  PROVE  GovernedStep
<1>1. ASSUME NEW r \in Requests,
             \/ MalformedProof(r) \/ MalformedToken(r) \/ Assess(r) \/ Admit(r)
             \/ ReserveRefused(r) \/ Check(r) \/ ReadBody(r) \/ StartRecording(r)
             \/ Recording(r) \/ RecordingFailed(r) \/ DeliverToken(r) \/ Respond(r)
             \/ Proceed(r) \/ Abandon(r)
             \/ \E p \in Proofs : PostAdmission(r, p)
             \/ \E t \in Tokens, g \in Targets : ProxyRequest(r, t, g)
      PROVE  UNCHANGED StageVars
  BY <1>1
  DEF MalformedProof, MalformedToken, Assess, Admit, ReserveRefused, Check, ReadBody,
      StartRecording, Recording, RecordingFailed, DeliverToken, Respond, Proceed, Abandon,
      PostAdmission, ProxyRequest, StageVars, admission, wire
<1>2. ASSUME NEW r \in Requests, Consume(r) PROVE GovernedStep
  <2>1. CASE Admission!Consume(input[r].token)
    BY <1>2, <2>1, ConsumeStage
  <2>2. CASE ~ Admission!Consume(input[r].token)
    BY <1>2, <2>2, StutteringStage DEF Consume, StageVars, admission, wire
  <2> QED
    BY <2>1, <2>2
<1>3. ASSUME NEW r \in Requests, Dispatch(r) PROVE GovernedStep
  <2>1. CASE UNCHANGED wire
    BY <1>3, <2>1, StutteringStage DEF Dispatch, StageVars, admission, wire
  <2> QED
    BY <1>3, <2>1, DispatchStage
<1>4. CASE Tick \/ UNCHANGED vars
  BY <1>4, StutteringStage DEF Tick, vars, StageVars, admission, wire
<1> QED
  BY <1>1, <1>2, <1>3, <1>4, ReserveStage, WireStage, StutteringStage
  DEF Next, AllDone, HandlerStep, ClientStep

-----------------------------------------------------------------------------
(* However proofs are posted again, tokens presented again and handlers      *)
(* interrupted: the upstream stream of an operation is opened at most once.  *)
THEOREM DispatchedOnce == Spec => []AtMostOneDispatch
<1>1. IInv => AtMostOneDispatch
  BY DEF IInv, Shared
<1> QED
  BY <1>1, Invariance, PTL

(* A stream is opened only for a trusted PRE/v2 proof, towards the target it *)
(* is bound to and while the admission and all its evidence are unexpired.   *)
THEOREM OnlyAuthorisedDispatched == Spec => []DispatchAuthorised
<1>1. IInv => DispatchAuthorised
  <2> SUFFICES ASSUME IInv, NEW d \in dispatches
               PROVE  /\ Doc[d.record.proof_digest].trusted
                      /\ Doc[d.record.proof_digest].pre_v2
                      /\ d.target = Doc[d.record.proof_digest].target_digest
                      /\ d.record.operation_id = Doc[d.record.proof_digest].operation_id
                      /\ \A x \in Doc[d.record.proof_digest].expiries : d.at < x
                      /\ d.at < d.record.issued_at + TTL
    BY DEF DispatchAuthorised
  <2>1. Dispatched(d) /\ d.record \in Admission!Record /\ d.at \in Nat
    BY GatewayAssumption DEF IInv, Shared, HandlerTypeOK
  <2>2. /\ d.record.expires_at \in Nat /\ d.record.issued_at \in Nat
        /\ d.record.proof_digest \in Proofs
    BY <2>1, GatewayAssumption DEF Admission!Record
  <2>3. Doc[d.record.proof_digest].expiries \subseteq Nat
    BY <2>2, GatewayAssumption DEF Document
  <2>4. Authorised(d.record) /\ d.at < d.record.expires_at
        /\ d.target = d.record.target_digest
    BY <2>1 DEF Dispatched
  <2>5. \A x \in Doc[d.record.proof_digest].expiries : d.at < x
    BY <2>1, <2>2, <2>3, <2>4 DEF Authorised
  <2>6. d.at < d.record.issued_at + TTL
    BY <2>1, <2>2, <2>4, GatewayAssumption DEF Authorised
  <2> QED
    BY <2>4, <2>5, <2>6 DEF Authorised
<1> QED
  BY <1>1, Invariance, PTL

(* The barrier: creation, consumption and preparation are in the chain,      *)
(* under the proof that was admitted, before the stream is opened.           *)
THEOREM BarrierHolds == Spec => []DispatchFollowsBarrier
<1>1. IInv => DispatchFollowsBarrier
  <2> SUFFICES ASSUME IInv, NEW d \in dispatches
               PROVE  /\ \A e \in {"proof_assessed", "admission_created",
                                   "admission_consumed", "upstream_dispatch_prepared"} :
                           Claimed(d.record.operation_id, e)
                      /\ \A i \in 1 .. Len(records[d.record.operation_id]) :
                           records[d.record.operation_id][i].proof_digest
                             = d.record.proof_digest
    BY DEF DispatchFollowsBarrier
  <2>1. Dispatched(d) /\ d.record.operation_id \in Operations
    BY DEF IInv, Shared, HandlerTypeOK, Admission!Record
  <2>2. \A e \in Events : Entry(d.record, e) => Claimed(d.record.operation_id, e)
    BY DEF Entry, Claimed
  <2>3. /\ Entry(d.record, "proof_assessed") /\ Entry(d.record, "admission_created")
        /\ Entry(d.record, "admission_consumed")
        /\ Entry(d.record, "upstream_dispatch_prepared")
    BY <2>1 DEF Dispatched, Admitted
  <2>4. ASSUME NEW i \in 1 .. Len(records[d.record.operation_id])
        PROVE  records[d.record.operation_id][i].proof_digest = d.record.proof_digest
    <3>1. PICK j \in 1 .. Len(records[d.record.operation_id]) :
            records[d.record.operation_id][j].proof_digest = d.record.proof_digest
      BY <2>3 DEF Entry
    <3> QED
      BY <2>1, <3>1 DEF IInv, Shared, Anchored
  <2> QED
    BY <2>2, <2>3, <2>4 DEF Events
<1> QED
  BY <1>1, Invariance, PTL

(* Every event in a chain is true of the stores or of the wire.              *)
THEOREM NoFalseClaim == Spec => []ClaimsFollowFacts
<1>1. IInv => ClaimsFollowFacts
  BY DEF IInv, Shared, Facts, SpentOnce, Happened, Reached, ClaimsFollowFacts
<1> QED
  BY <1>1, Invariance, PTL

(* A response of the upstream reaches the client only when its completion is *)
(* in the chain.                                                            *)
THEOREM NoUnattestedSuccess == Spec => []SuccessIsAttested
<1>1. IInv => SuccessIsAttested
  BY DEF IInv, HandlerTypeOK, Local, Answer_, SuccessIsAttested
<1> QED
  BY <1>1, Invariance, PTL

(* A request the gateway refused with an error below 500, or with 503, had   *)
(* no effect upstream.                                                      *)
THEOREM RefusalsAreSafe == Spec => []RefusalHadNoEffect
<1>1. IInv => RefusalHadNoEffect
  BY DEF IInv, Local, Answer_, Refusals, RefusalHadNoEffect
<1> QED
  BY <1>1, Invariance, PTL

(* Type correctness of the composition.                                     *)
THEOREM TypeCorrect == Spec => []TypeOK
<1>1. IInv => TypeOK
  BY DEF IInv, HandlerTypeOK, TypeOK
<1> QED
  BY <1>1, Invariance, PTL

(* After admission the events of an operation are recorded in the documented *)
(* order, each once, with one outcome, whatever fails and whoever is at work.*)
THEOREM DocumentedOrder == Spec => []LifecyclePrefix
<1>1. LInv => LifecyclePrefix
  BY DEF LInv
<1> QED
  BY <1>1, OrderInvariance, PTL

(* Every operation goes through the stages of GovernedOperation one by one,  *)
(* whatever the requests, the faults and the clock do.                       *)
THEOREM Governance == Spec => ImplementsGoverned
<1> DEFINE stage == [o \in Operations |-> Stage(o)]
<1>1. Init => Governed!Init
  BY DEF Init, Admission!Init, Governed!Init, Stage
<1>2. IInv /\ [Next]_vars => [Governed!Next]_stage
  BY StepsAreGoverned DEF GovernedStep
<1> QED
  BY <1>1, <1>2, Invariance, PTL DEF Spec, ImplementsGoverned, Governed!Spec
===============================================================================
