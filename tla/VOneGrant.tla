------------------------------ MODULE VOneGrant ------------------------------
(***************************************************************************)
(* The V-One authorization provider (adapters/vone.py) under the trust     *)
(* registry: VOneExecutionGrantAdapter.adapt and the verifier made by      *)
(* make_vone_execution_grant_trust_verifier.  A grant may be used once.    *)
(* Before execution a verification asks the live authority whether it is   *)
(* still unused; inside a FINAL proof it asks for the authentic witness of *)
(* its consumption.  Which of the two is decided by the stage that         *)
(* TrustStage keeps, never by the proof.                                   *)
(*                                                                         *)
(* Verifications run concurrently with each other and with V-One, which is *)
(* external: it issues grants, consumes each at most once, and moves its   *)
(* revocation epoch.  It is trusted for what it answers and for nothing    *)
(* else: it may consume late, for another execution or in another epoch.   *)
(* The resolvers are trusted for nothing.                                  *)
(*                                                                         *)
(* A grant stands for its document digest and for all fields its digest    *)
(* covers; "wellformed" for its fields, protocol, permission, use          *)
(* semantics and native digest.  An envelope is "faithful" when it is the  *)
(* one _evidence_from_grant makes of its grant.                            *)
(***************************************************************************)
EXTENDS TrustStage, Naturals

CONSTANTS
    Operations, Grants,
    Calls,                  \* what the verifier is called with
    MaxTTL, MaxAge,         \* _MAX_GRANT_TTL_SECONDS, _MAX_PRECONDITION_TO_GRANT_SECONDS
    MaxTime, MaxEpoch,      \* bounds of the clock and of the revocation epoch
    NoCall, NoWitness

Times == 0..MaxTime
Epochs == 0..MaxEpoch

Grant == [id : Nat, execution_id : Operations, checked_at : Nat, issued_at : Nat,
          expires_at : Nat, epoch : Epochs, wellformed : BOOLEAN]

(* operation_id and pre are the registry's context: the operation of the    *)
(* proof, and whether the phases and the digest are those of a PRE proof.   *)
Call == [operation_id : Operations, pre : BOOLEAN, grant : Grants,
         envelope_operation_id : Operations, faithful : BOOLEAN]

Witness == [grant : Grants, execution_id : Operations, epoch : Epochs, consumed_at : Times,
            wellformed : BOOLEAN]

ASSUME VOneAssumption ==
    /\ Grants \subseteq Grant /\ Calls \subseteq Call
    /\ MaxTTL \in Nat /\ MaxAge \in Nat /\ MaxTime \in Nat /\ MaxEpoch \in Nat
    /\ NoCall \notin Call /\ NoWitness \notin Witness

VARIABLES
    now, epoch, issued, witnesses,  \* the clock, and V-One's state
    pc, call, registered,           \* a verification: place, arguments, called by the registry?
    stage, at, held,                \* its locals: the stage and the clock it read, the witness
    verdict

vone == <<epoch, issued, witnesses>>
locals == <<call, registered, stage, at, held>>
vars == <<stageVars, now, vone, pc, locals, verdict>>

Places == {"idle", "stage", "resolve", "live", "witness", "authenticate", "done"}
Running(r) == pc[r] \notin {"idle", "done"}

TypeOK ==
    /\ StageTypeOK
    /\ now \in Times /\ epoch \in Epochs
    /\ issued \in SUBSET Grants /\ witnesses \in SUBSET Witness
    /\ pc \in [Runs -> Places]
    /\ call \in [Runs -> Call \cup {NoCall}]
    /\ registered \in [Runs -> BOOLEAN]
    /\ stage \in [Runs -> Stages]
    /\ at \in [Runs -> Times]
    /\ held \in [Runs -> Witness \cup {NoWitness}]
    /\ verdict \in [Runs -> BOOLEAN]

Init ==
    /\ StageInit
    /\ now = 0 /\ epoch = 0 /\ issued = {} /\ witnesses = {}
    /\ pc = [r \in Runs |-> "idle"]
    /\ call = [r \in Runs |-> NoCall]
    /\ registered = [r \in Runs |-> FALSE]
    /\ stage = [r \in Runs |-> DIRECT]
    /\ at = [r \in Runs |-> 0]
    /\ held = [r \in Runs |-> NoWitness]
    /\ verdict = [r \in Runs |-> FALSE]

-------------------------------------------------------------------------------
(* V-One and the clock                                                      *)

Issue(g) ==
    /\ g \in Grants \ issued
    /\ g.wellformed /\ g.issued_at = now /\ g.epoch = epoch
    /\ issued' = issued \cup {g}
    /\ UNCHANGED <<stageVars, now, epoch, witnesses, pc, locals, verdict>>

Used(g) == \E w \in witnesses : w.grant = g

ConsumeGrant(g, o) ==
    /\ g \in issued /\ ~Used(g)
    /\ witnesses' = witnesses \cup
         {[grant |-> g, execution_id |-> o, epoch |-> epoch, consumed_at |-> now,
           wellformed |-> TRUE]}
    /\ UNCHANGED <<stageVars, now, epoch, issued, pc, locals, verdict>>

Revoke ==
    /\ epoch < MaxEpoch
    /\ epoch' = epoch + 1
    /\ UNCHANGED <<stageVars, now, issued, witnesses, pc, locals, verdict>>

Tick ==
    /\ now < MaxTime
    /\ now' = now + 1
    /\ UNCHANGED <<stageVars, vone, pc, locals, verdict>>

-------------------------------------------------------------------------------
(* _validate_grant and _validate_consumption_witness                        *)

GrantValid(g, o, t) ==
    /\ g.wellformed
    /\ g.execution_id = o
    /\ g.checked_at <= g.issued_at /\ g.issued_at <= g.checked_at + MaxAge
    /\ g.issued_at < g.expires_at /\ g.expires_at <= g.issued_at + MaxTTL
    /\ g.issued_at <= t /\ t < g.expires_at

(* Faulty variant: the witness of any consumption will do.                  *)
WitnessUnbound(w, g, o) == w.execution_id = o

(* The bindings between witness and grant, all of them under its digest.    *)
WitnessBound(w, g, o) == w.grant = g /\ w.execution_id = o

(* Faulty variant: the end of the lifetime is not looked at.                *)
WitnessOpenEnded(w, g, t) == g.issued_at <= w.consumed_at

WitnessInTime(w, g, t) ==
    /\ g.issued_at <= w.consumed_at /\ w.consumed_at < g.expires_at
    /\ w.consumed_at <= t

WitnessValid(w, g, o, t) ==
    /\ w.wellformed
    /\ w.epoch = g.epoch
    /\ WitnessBound(w, g, o)
    /\ WitnessInTime(w, g, t)

-------------------------------------------------------------------------------
(* The verifier                                                             *)

(* A refused call leaves nothing behind.                                    *)
Finish(r, result) ==
    /\ pc' = [pc EXCEPT ![r] = "done"]
    /\ verdict' = [verdict EXCEPT ![r] = result]
    /\ IF registered[r] THEN Leave(r) ELSE UNCHANGED stageVars
    /\ UNCHANGED registered

Refuse(r) ==
    /\ Finish(r, FALSE)
    /\ call' = [call EXCEPT ![r] = NoCall]
    /\ stage' = [stage EXCEPT ![r] = DIRECT]
    /\ at' = [at EXCEPT ![r] = 0]
    /\ held' = [held EXCEPT ![r] = NoWitness]

Accept(r) == Finish(r, TRUE) /\ UNCHANGED <<call, stage, at, held>>

(* Somebody starts a thread or task from inside a verifier call.            *)
StartInside(r, q) ==
    /\ pc[r] = "idle" /\ context[r] = NoRun /\ Running(q)
    /\ Inherit(r, q)
    /\ UNCHANGED <<now, vone, pc, locals, verdict>>

(* _verify_evidence_trust: the registry calls the verifier.                 *)
CallThroughRegistry(r, c, s) ==
    /\ pc[r] = "idle"
    /\ Enter(r, s)
    /\ pc' = [pc EXCEPT ![r] = "stage"]
    /\ call' = [call EXCEPT ![r] = c]
    /\ registered' = [registered EXCEPT ![r] = TRUE]
    /\ UNCHANGED <<now, vone, stage, at, held, verdict>>

(* The verifier is a callable: it can be called without the registry.       *)
CallDirectly(r, c) ==
    /\ pc[r] = "idle"
    /\ pc' = [pc EXCEPT ![r] = "stage"]
    /\ call' = [call EXCEPT ![r] = c]
    /\ UNCHANGED <<stageVars, now, vone, registered, stage, at, held, verdict>>

(* adapt(): the grant is validated and then shown to the live authority.    *)
(* The envelope it returns is the faithful one.                             *)
Adapt(r, c) ==
    /\ pc[r] = "idle"
    /\ c.faithful /\ c.pre /\ c.envelope_operation_id = c.operation_id
    /\ GrantValid(c.grant, c.operation_id, now)
    /\ pc' = [pc EXCEPT ![r] = "live"]
    /\ call' = [call EXCEPT ![r] = c]
    /\ at' = [at EXCEPT ![r] = now]
    /\ UNCHANGED <<stageVars, now, vone, registered, stage, held, verdict>>

(* The registry's context and the envelope fit, and the stage is read.      *)
ReadStage(r) ==
    /\ pc[r] = "stage"
    /\ call[r].pre /\ call[r].envelope_operation_id = call[r].operation_id
    /\ stage' = [stage EXCEPT ![r] = CurrentStage(r)]
    /\ pc' = [pc EXCEPT ![r] = "resolve"]
    /\ UNCHANGED <<stageVars, now, vone, call, registered, at, held, verdict>>

(* Faulty variant: the stages are mixed up.                                 *)
CheckForSwapped(s) == IF s = EMBEDDED THEN "live" ELSE "witness"

CheckFor(s) == IF s = DIRECT THEN "live" ELSE "witness"

(* The grant is resolved by its document digest, then the clock is read and *)
(* the grant validated.                                                     *)
Resolve(r) ==
    /\ pc[r] = "resolve"
    /\ GrantValid(call[r].grant, call[r].operation_id, now)
    /\ at' = [at EXCEPT ![r] = now]
    /\ pc' = [pc EXCEPT ![r] = CheckFor(stage[r])]
    /\ UNCHANGED <<stageVars, now, vone, call, registered, stage, held, verdict>>

(* The envelope is the one _evidence_from_grant makes of the grant.         *)
Faithful(r) == call[r].faithful

(* grant_verifier, which the deployment has to make say no unless the grant *)
(* is authentic, unused and not revoked.                                    *)
LiveAuthority(g) == g \in issued /\ ~Used(g) /\ g.epoch = epoch

AskLiveAuthority(r) ==
    /\ pc[r] = "live"
    /\ LiveAuthority(call[r].grant)
    /\ Faithful(r)
    /\ Accept(r)
    /\ UNCHANGED <<now, vone>>

(* consumption_resolver returns something, which is validated.              *)
ResolveWitness(r) ==
    /\ pc[r] = "witness"
    /\ \E w \in Witness :
         /\ WitnessValid(w, call[r].grant, call[r].operation_id, at[r])
         /\ held' = [held EXCEPT ![r] = w]
    /\ pc' = [pc EXCEPT ![r] = "authenticate"]
    /\ UNCHANGED <<stageVars, now, vone, call, registered, stage, at, verdict>>

(* consumption_verifier: V-One has written this very witness.               *)
Authenticate(r) ==
    /\ pc[r] = "authenticate"
    /\ held[r] \in witnesses
    /\ Faithful(r)
    /\ Accept(r)
    /\ UNCHANGED <<now, vone>>

(* Any test fails, or any callback raises, returns nothing or says no.      *)
RefuseCall(r) ==
    /\ Running(r)
    /\ Refuse(r)
    /\ UNCHANGED <<now, vone>>

Verify(r) ==
    \/ ReadStage(r) \/ Resolve(r) \/ AskLiveAuthority(r)
    \/ ResolveWitness(r) \/ Authenticate(r) \/ RefuseCall(r)

Start(r) ==
    \/ \E q \in Runs : StartInside(r, q)
    \/ \E c \in Calls :
         \/ \E s \in Stages : CallThroughRegistry(r, c, s)
         \/ CallDirectly(r, c) \/ Adapt(r, c)

Authority ==
    \/ \E g \in Grants : Issue(g) \/ \E o \in Operations : ConsumeGrant(g, o)
    \/ Revoke \/ Tick

Next == Authority \/ \E r \in Runs : Start(r) \/ Verify(r)

Spec == Init /\ [][Next]_vars

-------------------------------------------------------------------------------
Accepted(r) == pc[r] = "done" /\ verdict[r]

(* Whatever the resolvers return: the grant behind accepted evidence was    *)
(* issued by V-One to this operation and was unexpired when the verifier    *)
(* read its clock.  At the stage of an embedded PRE nobody asks V-One about *)
(* the grant itself; the witness alone has to establish it.                 *)
AcceptedWasIssued ==
    \A r \in Runs : Accepted(r) =>
        LET g == call[r].grant IN
        /\ g \in issued
        /\ g.execution_id = call[r].operation_id
        /\ g.issued_at <= at[r] /\ at[r] < g.expires_at

(* ONE_TIME: evidence accepted for admission, by the registry or by adapt,  *)
(* is of a grant that had not been consumed before the verifier read its    *)
(* clock; a consumed grant never authorises a second execution.             *)
DirectMeansUnused ==
    \A r \in Runs : Accepted(r) /\ stage[r] = DIRECT =>
        \A w \in witnesses : w.grant = call[r].grant => w.consumed_at >= at[r]

(* Evidence accepted inside a FINAL proof is of a grant that V-One did      *)
(* consume, for this execution, in its lifetime and before its revocation.  *)
EmbeddedMeansConsumed ==
    \A r \in Runs : Accepted(r) /\ stage[r] = EMBEDDED =>
        \E w \in witnesses :
            /\ w.grant = call[r].grant
            /\ w.execution_id = call[r].operation_id
            /\ w.epoch = call[r].grant.epoch
            /\ w.consumed_at <= at[r] /\ w.consumed_at < call[r].grant.expires_at

(* verify_proof_trust: the marker prevents "proof-controlled or child-task  *)
(* stage laundering".  A call of the registry is judged at the stage the    *)
(* registry asked for, also inside another call; any other call is judged   *)
(* at the embedded stage only while the registry is in such a call.         *)
NoStageLaundering ==
    [][\A r \in Runs :
         pc[r] = "stage" /\ pc'[r] = "resolve" =>
            IF registered[r] THEN stage'[r] = invocation[r].stage
            ELSE stage'[r] = EMBEDDED =>
                   \E q \in Runs : /\ Running(q) /\ registered[q]
                                   /\ invocation[q].stage = EMBEDDED]_vars
===============================================================================
