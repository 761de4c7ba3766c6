---------------------------- MODULE VOneGrantProofs ----------------------------
(***************************************************************************)
(* Proofs about VOneGrant, for any grants, calls, runs and bounds.         *)
(***************************************************************************)
EXTENDS VOneGrant, TLAPS

(* A witness V-One has written is of a grant it issued, and not of the      *)
(* future.                                                                  *)
WitnessesGenuine == \A w \in witnesses : w.grant \in issued /\ w.consumed_at <= now

(* The invocation object of a run is active exactly while the registry is   *)
(* inside the call, and the run's own context then refers to it.            *)
InvocationsScoped ==
    \A r \in Runs :
        /\ invocation[r].active <=> Running(r) /\ registered[r]
        /\ Running(r) /\ registered[r] => context[r] = r
        /\ pc[r] = "idle" => ~registered[r]

(* The grant of run r has been validated at the instant at[r].              *)
Validated(r) ==
    /\ call[r] # NoCall
    /\ GrantValid(call[r].grant, call[r].operation_id, at[r])
    /\ at[r] <= now

(* What a verification has established when it arrives at each place.       *)
ProgressSound ==
    \A r \in Runs :
        /\ pc[r] \in {"idle", "stage"} => stage[r] = DIRECT
        /\ pc[r] \in {"stage", "resolve"} => call[r] # NoCall
        /\ pc[r] = "live" => Validated(r) /\ stage[r] = DIRECT
        /\ pc[r] \in {"witness", "authenticate"} => Validated(r) /\ stage[r] = EMBEDDED
        /\ pc[r] = "authenticate" =>
             WitnessValid(held[r], call[r].grant, call[r].operation_id, at[r])
        /\ Accepted(r) => Validated(r)

IInv == TypeOK /\ WitnessesGenuine /\ InvocationsScoped /\ ProgressSound
        /\ AcceptedWasIssued /\ DirectMeansUnused /\ EmbeddedMeansConsumed

-------------------------------------------------------------------------------
LEMMA InitInv == Init => IInv
<1> SUFFICES ASSUME Init PROVE IInv
  OBVIOUS
<1>1. TypeOK
  BY VOneAssumption DEF Init, StageInit, TypeOK, StageTypeOK, Stages, DIRECT, Times, Epochs, Places
<1>2. WitnessesGenuine /\ InvocationsScoped
  BY DEF Init, StageInit, WitnessesGenuine, InvocationsScoped, Running
<1>3. ProgressSound /\ AcceptedWasIssued /\ DirectMeansUnused /\ EmbeddedMeansConsumed
  BY DEF Init, StageInit, ProgressSound, AcceptedWasIssued, DirectMeansUnused,
         EmbeddedMeansConsumed, Accepted
<1>4. QED
  BY <1>1, <1>2, <1>3 DEF IInv

(* V-One and the clock touch no verification, and only add to the past.     *)
LEMMA AuthorityInv == IInv /\ Authority => IInv'
<1> SUFFICES ASSUME IInv, Authority PROVE IInv'
  OBVIOUS
<1> USE DEF IInv
<1>0. now \in Nat /\ now \in 0..MaxTime /\ epoch \in 0..MaxEpoch /\ MaxTime \in Nat /\ MaxEpoch \in Nat
  BY VOneAssumption DEF TypeOK, Times, Epochs
<1> DEFINE Effect ==
       /\ UNCHANGED <<stageVars, pc, locals, verdict>>
       /\ now' \in Times /\ now <= now' /\ epoch' \in Epochs
       /\ issued \subseteq issued' /\ issued' \in SUBSET Grants
       /\ witnesses \subseteq witnesses'
       /\ \A w \in witnesses' \ witnesses :
            w \in Witness /\ w.grant \in issued /\ w.consumed_at = now
<1>e. Effect
  <2>1. ASSUME NEW g \in Grants, Issue(g) PROVE Effect
    BY <1>0, <2>1 DEF TypeOK, Issue, Times, Epochs
  <2>2. ASSUME NEW g \in Grants, NEW o \in Operations, ConsumeGrant(g, o) PROVE Effect
    <3> DEFINE new == [grant |-> g, execution_id |-> o, epoch |-> epoch,
                       consumed_at |-> now, wellformed |-> TRUE]
    <3>1. new \in Witness /\ new.grant \in issued /\ new.consumed_at = now
      BY <1>0, <2>2 DEF TypeOK, ConsumeGrant, Witness
    <3>2. witnesses' = witnesses \cup {new}
      BY <2>2 DEF ConsumeGrant
    <3> HIDE DEF new
    <3>3. now' = now /\ epoch' = epoch /\ issued' = issued
      BY <2>2 DEF ConsumeGrant
    <3>4. UNCHANGED <<stageVars, pc, locals, verdict>>
      BY <2>2 DEF ConsumeGrant
    <3>5. QED
      BY <1>0, <3>1, <3>2, <3>3, <3>4 DEF TypeOK, Times, Epochs
  <2>3. CASE Revoke
    BY <1>0, <2>3 DEF TypeOK, Revoke, Times, Epochs
  <2>4. CASE Tick
    BY <1>0, <2>4 DEF TypeOK, Tick, Times, Epochs, vone
  <2>5. QED
    BY <2>1, <2>2, <2>3, <2>4 DEF Authority
<1>1. UNCHANGED <<stageVars, pc, locals, verdict>>
  BY <1>e
<1>2. now \in Nat /\ now' \in Times /\ now <= now' /\ epoch' \in Epochs
  BY <1>0, <1>e
<1>3. issued \subseteq issued' /\ issued' \in SUBSET Grants
  BY <1>e
<1>4. witnesses \subseteq witnesses'
      /\ \A w \in witnesses' \ witnesses :
           w \in Witness /\ w.grant \in issued /\ w.consumed_at = now
  BY <1>e
<1> HIDE DEF Effect
<1>5. TypeOK'
  <2>1. witnesses' \in SUBSET Witness
    BY <1>4 DEF TypeOK
  <2>2. QED
    BY <1>1, <1>2, <1>3, <2>1 DEF TypeOK, StageTypeOK, stageVars, locals
<1>6. WitnessesGenuine'
  <2> SUFFICES ASSUME NEW w \in witnesses' PROVE w.grant \in issued' /\ w.consumed_at <= now'
    BY DEF WitnessesGenuine
  <2>1. CASE w \in witnesses
    <3>1. w.grant \in issued /\ w.consumed_at <= now /\ w.consumed_at \in Nat
      BY <2>1 DEF WitnessesGenuine, TypeOK, Witness, Times
    <3>2. QED
      BY <3>1, <1>2, <1>3 DEF Times
  <2>2. CASE w \notin witnesses
    BY <2>2, <1>2, <1>3, <1>4
  <2>3. QED
    BY <2>1, <2>2
<1>7. InvocationsScoped'
  BY <1>1 DEF InvocationsScoped, Running, stageVars, locals
<1>8. ASSUME NEW r \in Runs PROVE Validated(r) => Validated(r)'
  <2>1. at[r] \in Nat
    BY DEF TypeOK, Times
  <2>2. QED
    BY <1>1, <1>2, <2>1 DEF Validated, locals, Times
<1>9. ProgressSound'
  BY <1>1, <1>8 DEF ProgressSound, Accepted, locals
<1>10. AcceptedWasIssued'
  BY <1>1, <1>3 DEF AcceptedWasIssued, Accepted, locals
<1>11. DirectMeansUnused'
  <2> SUFFICES ASSUME NEW r \in Runs, Accepted(r), stage[r] = DIRECT,
                      NEW w \in witnesses', w.grant = call[r].grant
               PROVE  w.consumed_at >= at[r]
    BY <1>1 DEF DirectMeansUnused, Accepted, locals
  <2>1. CASE w \in witnesses
    BY <2>1 DEF DirectMeansUnused
  <2>2. CASE w \notin witnesses
    BY <2>2, <1>4 DEF ProgressSound, Validated, TypeOK, Times
  <2>3. QED
    BY <2>1, <2>2
<1>12. EmbeddedMeansConsumed'
  BY <1>1, <1>4 DEF EmbeddedMeansConsumed, Accepted, locals
<1>13. QED
  BY <1>5, <1>6, <1>7, <1>9, <1>10, <1>11, <1>12

(* What is said of other runs survives a step of run r.                     *)
LEMMA OthersKept ==
    ASSUME IInv, NEW r \in Runs, UNCHANGED <<now, vone>>, TypeOK', InvocationsScoped',
           \A q \in Runs \ {r} :
             /\ pc'[q] = pc[q] /\ call'[q] = call[q] /\ stage'[q] = stage[q]
             /\ at'[q] = at[q] /\ held'[q] = held[q] /\ verdict'[q] = verdict[q],
           pc'[r] \in {"idle", "stage"} => stage'[r] = DIRECT,
           pc'[r] \in {"stage", "resolve"} => call'[r] # NoCall,
           pc'[r] = "live" => Validated(r)' /\ stage'[r] = DIRECT,
           pc'[r] \in {"witness", "authenticate"} => Validated(r)' /\ stage'[r] = EMBEDDED,
           pc'[r] = "authenticate" =>
             WitnessValid(held'[r], call'[r].grant, call'[r].operation_id, at'[r]),
           pc'[r] = "done" /\ verdict'[r] =>
             /\ Validated(r)' /\ call'[r].grant \in issued
             /\ stage'[r] = DIRECT =>
                  \A w \in witnesses : w.grant = call'[r].grant => w.consumed_at >= at'[r]
             /\ stage'[r] = EMBEDDED =>
                  \E w \in witnesses :
                    /\ w.grant = call'[r].grant
                    /\ w.execution_id = call'[r].operation_id
                    /\ w.epoch = call'[r].grant.epoch
                    /\ w.consumed_at <= at'[r] /\ w.consumed_at < call'[r].grant.expires_at
    PROVE  IInv'
<1> USE DEF IInv
<1>1. WitnessesGenuine'
  BY DEF WitnessesGenuine, vone
<1>2. ProgressSound'
  <2> SUFFICES ASSUME NEW q \in Runs
               PROVE  /\ pc'[q] \in {"idle", "stage"} => stage'[q] = DIRECT
                      /\ pc'[q] \in {"stage", "resolve"} => call'[q] # NoCall
                      /\ pc'[q] = "live" => Validated(q)' /\ stage'[q] = DIRECT
                      /\ pc'[q] \in {"witness", "authenticate"} =>
                           Validated(q)' /\ stage'[q] = EMBEDDED
                      /\ pc'[q] = "authenticate" =>
                           WitnessValid(held'[q], call'[q].grant, call'[q].operation_id, at'[q])
                      /\ pc'[q] = "done" /\ verdict'[q] => Validated(q)'
    BY DEF ProgressSound, Accepted
  <2>1. CASE q = r
    BY <2>1
  <2>2. CASE q # r
    <3>1. Validated(q) => Validated(q)'
      BY <2>2 DEF Validated
    <3>2. QED
      BY <2>2, <3>1 DEF ProgressSound, Accepted
  <2>3. QED
    BY <2>1, <2>2
<1>3. AcceptedWasIssued'
  <2> SUFFICES ASSUME NEW q \in Runs, pc'[q] = "done", verdict'[q]
               PROVE  /\ call'[q].grant \in issued
                      /\ call'[q].grant.execution_id = call'[q].operation_id
                      /\ call'[q].grant.issued_at <= at'[q]
                      /\ at'[q] < call'[q].grant.expires_at
    BY DEF AcceptedWasIssued, Accepted, vone
  <2>1. CASE q = r
    BY <2>1 DEF Validated, GrantValid
  <2>2. CASE q # r
    BY <2>2 DEF AcceptedWasIssued, Accepted
  <2>3. QED
    BY <2>1, <2>2
<1>4. DirectMeansUnused'
  <2> SUFFICES ASSUME NEW q \in Runs, pc'[q] = "done", verdict'[q], stage'[q] = DIRECT,
                      NEW w \in witnesses, w.grant = call'[q].grant
               PROVE  w.consumed_at >= at'[q]
    BY DEF DirectMeansUnused, Accepted, vone
  <2>1. CASE q = r
    BY <2>1
  <2>2. CASE q # r
    BY <2>2 DEF DirectMeansUnused, Accepted
  <2>3. QED
    BY <2>1, <2>2
<1>5. EmbeddedMeansConsumed'
  <2> SUFFICES ASSUME NEW q \in Runs, pc'[q] = "done", verdict'[q], stage'[q] = EMBEDDED
               PROVE  \E w \in witnesses :
                        /\ w.grant = call'[q].grant
                        /\ w.execution_id = call'[q].operation_id
                        /\ w.epoch = call'[q].grant.epoch
                        /\ w.consumed_at <= at'[q]
                        /\ w.consumed_at < call'[q].grant.expires_at
    BY DEF EmbeddedMeansConsumed, Accepted, vone
  <2>1. CASE q = r
    BY <2>1
  <2>2. CASE q # r
    BY <2>2 DEF EmbeddedMeansConsumed, Accepted
  <2>3. QED
    BY <2>1, <2>2
<1>6. QED
  BY <1>1, <1>2, <1>3, <1>4, <1>5

(* A run leaves its call: its invocation is over, its context restored.     *)
LEMMA FinishScoped ==
    ASSUME IInv, NEW r \in Runs, NEW v \in BOOLEAN, Running(r), Finish(r, v)
    PROVE  StageTypeOK' /\ InvocationsScoped'
<1> USE DEF IInv
<1>1. StageTypeOK'
  <2>1. CASE registered[r]
    <3>1. /\ context' = [context EXCEPT ![r] = token[r]]
          /\ invocation' = [invocation EXCEPT ![r].active = FALSE]
          /\ token' = token
      BY <2>1 DEF Finish, Leave
    <3>2. /\ context \in [Runs -> Runs \cup {NoRun}]
          /\ invocation \in [Runs -> [stage : Stages, active : BOOLEAN]]
          /\ token \in [Runs -> Runs \cup {NoRun}]
      BY DEF TypeOK, StageTypeOK
    <3>3. context' \in [Runs -> Runs \cup {NoRun}]
      BY <3>1, <3>2
    <3>4. invocation' \in [Runs -> [stage : Stages, active : BOOLEAN]]
      BY <3>1, <3>2
    <3>5. QED
      BY <3>1, <3>2, <3>3, <3>4 DEF StageTypeOK
  <2>2. CASE ~registered[r]
    BY <2>2 DEF TypeOK, StageTypeOK, Finish, stageVars
  <2>3. QED
    BY <2>1, <2>2
<1>2. pc'[r] = "done" /\ registered' = registered
      /\ \A q \in Runs \ {r} : pc'[q] = pc[q]
  BY DEF Finish, TypeOK
<1>3. InvocationsScoped'
  <2> SUFFICES ASSUME NEW q \in Runs
               PROVE  /\ invocation'[q].active <=> Running(q)' /\ registered[q]
                      /\ Running(q)' /\ registered[q] => context'[q] = q
                      /\ pc'[q] = "idle" => ~registered[q]
    BY <1>2 DEF InvocationsScoped
  <2>1. CASE q = r
    <3>1. ~Running(r)' /\ pc'[r] # "idle"
      BY <1>2 DEF Running
    <3>2. ~invocation'[r].active
      <4>1. CASE registered[r]
        BY <4>1 DEF Finish, Leave, TypeOK, StageTypeOK
      <4>2. CASE ~registered[r]
        BY <4>2 DEF Finish, InvocationsScoped, stageVars
      <4>3. QED
        BY <4>1, <4>2
    <3>3. QED
      BY <2>1, <3>1, <3>2
  <2>2. CASE q # r
    <3>1. Running(q)' <=> Running(q)
      BY <1>2, <2>2 DEF Running
    <3>2. invocation'[q] = invocation[q] /\ context'[q] = context[q]
      BY <2>2 DEF Finish, Leave, TypeOK, StageTypeOK, stageVars
    <3>3. QED
      BY <1>2, <2>2, <3>1, <3>2 DEF InvocationsScoped
  <2>3. QED
    BY <2>1, <2>2
<1>4. QED
  BY <1>1, <1>3

LEMMA RefuseInv == ASSUME IInv, NEW r \in Runs, RefuseCall(r) PROVE IInv'
<1> USE DEF IInv
<1>1. Finish(r, FALSE) /\ Running(r) /\ UNCHANGED <<now, vone>>
  BY DEF RefuseCall, Refuse
<1>2. StageTypeOK' /\ InvocationsScoped'
  BY <1>1, FinishScoped
<1>3. TypeOK'
  <2>1. 0 \in Times
    BY VOneAssumption DEF Times
  <2>2. QED
    BY <1>1, <1>2, <2>1 DEF TypeOK, RefuseCall, Refuse, Finish, Places, Stages, vone
<1>4. pc'[r] = "done" /\ ~verdict'[r]
  BY <1>1 DEF Finish, TypeOK
<1>5. \A q \in Runs \ {r} :
        /\ pc'[q] = pc[q] /\ call'[q] = call[q] /\ stage'[q] = stage[q]
        /\ at'[q] = at[q] /\ held'[q] = held[q] /\ verdict'[q] = verdict[q]
  BY DEF TypeOK, RefuseCall, Refuse, Finish
<1>6. QED
  BY <1>1, <1>2, <1>3, <1>4, <1>5, OthersKept

(* Accepting: everything is in place.                                       *)
LEMMA AcceptInv ==
    ASSUME IInv, NEW r \in Runs, Running(r), Accept(r), UNCHANGED <<now, vone>>,
           Validated(r), call[r].grant \in issued,
           stage[r] = DIRECT =>
             \A w \in witnesses : w.grant = call[r].grant => w.consumed_at >= at[r],
           stage[r] = EMBEDDED =>
             \E w \in witnesses :
               /\ w.grant = call[r].grant
               /\ w.execution_id = call[r].operation_id
               /\ w.epoch = call[r].grant.epoch
               /\ w.consumed_at <= at[r] /\ w.consumed_at < call[r].grant.expires_at
    PROVE  IInv'
<1> USE DEF IInv
<1>1. Finish(r, TRUE) /\ UNCHANGED <<call, stage, at, held>>
  BY DEF Accept
<1>2. StageTypeOK' /\ InvocationsScoped'
  BY <1>1, FinishScoped
<1>3. TypeOK'
  BY <1>1, <1>2 DEF TypeOK, Finish, Places, vone
<1>4. pc'[r] = "done"
  BY <1>1 DEF Finish, TypeOK
<1>5. \A q \in Runs \ {r} : pc'[q] = pc[q] /\ verdict'[q] = verdict[q]
  BY <1>1 DEF TypeOK, Finish
<1>6. Validated(r)'
  BY <1>1 DEF Validated
<1>7. QED
  BY <1>1, <1>2, <1>3, <1>4, <1>5, <1>6, OthersKept

LEMMA AskLiveInv == ASSUME IInv, NEW r \in Runs, AskLiveAuthority(r) PROVE IInv'
<1>1. Running(r) /\ Accept(r) /\ UNCHANGED <<now, vone>> /\ LiveAuthority(call[r].grant)
  BY DEF AskLiveAuthority, Running
<1>2. Validated(r) /\ stage[r] = DIRECT
  BY DEF IInv, ProgressSound, AskLiveAuthority
<1>3. QED
  BY <1>1, <1>2, AcceptInv DEF LiveAuthority, Used, DIRECT, EMBEDDED

LEMMA AuthenticateInv == ASSUME IInv, NEW r \in Runs, Authenticate(r) PROVE IInv'
<1>1. Running(r) /\ Accept(r) /\ UNCHANGED <<now, vone>> /\ held[r] \in witnesses
  BY DEF Authenticate, Running
<1>2. Validated(r) /\ stage[r] = EMBEDDED
      /\ WitnessValid(held[r], call[r].grant, call[r].operation_id, at[r])
  BY DEF IInv, ProgressSound, Authenticate
<1>3. held[r].grant = call[r].grant /\ call[r].grant \in issued
  BY <1>1, <1>2 DEF IInv, WitnessesGenuine, WitnessValid, WitnessBound
<1>4. QED
  BY <1>1, <1>2, <1>3, AcceptInv DEF WitnessValid, WitnessBound, WitnessInTime, DIRECT, EMBEDDED

LEMMA ResolveInv == ASSUME IInv, NEW r \in Runs, Resolve(r) PROVE IInv'
<1> USE DEF IInv
<1>1. UNCHANGED <<stageVars, now, vone, call, registered, stage, held, verdict>>
      /\ at'[r] = now /\ pc'[r] = CheckFor(stage[r]) /\ pc[r] = "resolve"
  BY DEF Resolve, TypeOK
<1>2. CheckFor(stage[r]) = IF stage[r] = DIRECT THEN "live" ELSE "witness"
  BY DEF CheckFor
<1>3. TypeOK'
  BY <1>1, <1>2 DEF Resolve, TypeOK, StageTypeOK, Places, stageVars, vone
<1>4. InvocationsScoped'
  BY <1>1, <1>2 DEF Resolve, TypeOK, InvocationsScoped, Running, stageVars
<1>5. \A q \in Runs \ {r} : pc'[q] = pc[q] /\ at'[q] = at[q]
  BY DEF Resolve, TypeOK
<1>6. Validated(r)'
  <2>1. now <= now
    BY DEF TypeOK, Times
  <2>2. call[r] # NoCall /\ GrantValid(call[r].grant, call[r].operation_id, now)
    BY DEF Resolve, ProgressSound
  <2>3. QED
    BY <1>1, <2>1, <2>2 DEF Validated
<1>7. stage[r] = DIRECT \/ stage[r] = EMBEDDED
  BY DEF TypeOK, Stages
<1>8. QED
  BY <1>1, <1>2, <1>3, <1>4, <1>5, <1>6, <1>7, OthersKept

LEMMA ResolveWitnessInv == ASSUME IInv, NEW r \in Runs, ResolveWitness(r) PROVE IInv'
<1> USE DEF IInv
<1>1. PICK w \in Witness :
        /\ WitnessValid(w, call[r].grant, call[r].operation_id, at[r])
        /\ held' = [held EXCEPT ![r] = w]
  BY DEF ResolveWitness
<1>2. UNCHANGED <<stageVars, now, vone, call, registered, stage, at, verdict>>
      /\ pc' = [pc EXCEPT ![r] = "authenticate"] /\ pc[r] = "witness"
  BY DEF ResolveWitness
<1>3. TypeOK'
  BY <1>1, <1>2 DEF TypeOK, StageTypeOK, Places, stageVars, vone
<1>4. InvocationsScoped'
  BY <1>2 DEF TypeOK, InvocationsScoped, Running, stageVars
<1>5. pc'[r] = "authenticate" /\ held'[r] = w
      /\ \A q \in Runs \ {r} : pc'[q] = pc[q] /\ held'[q] = held[q]
  BY <1>1, <1>2 DEF TypeOK
<1>6. Validated(r)' /\ stage'[r] = EMBEDDED
  BY <1>2 DEF ProgressSound, Validated
<1>7. QED
  BY <1>1, <1>2, <1>3, <1>4, <1>5, <1>6, OthersKept

LEMMA ReadStageInv == ASSUME IInv, NEW r \in Runs, ReadStage(r) PROVE IInv'
<1> USE DEF IInv
<1>1. UNCHANGED <<stageVars, now, vone, call, registered, at, held, verdict>>
      /\ pc[r] = "stage" /\ pc'[r] = "resolve"
      /\ \A q \in Runs \ {r} : pc'[q] = pc[q] /\ stage'[q] = stage[q]
  BY DEF ReadStage, TypeOK
<1>2. CurrentStage(r) \in Stages
  BY DEF CurrentStage, TypeOK, StageTypeOK, Stages
<1>3. TypeOK'
  BY <1>1, <1>2 DEF ReadStage, TypeOK, StageTypeOK, Places, stageVars, vone
<1>4. InvocationsScoped'
  BY <1>1 DEF InvocationsScoped, Running, stageVars
<1>5. call[r] # NoCall
  BY <1>1 DEF ProgressSound
<1>6. QED
  BY <1>1, <1>3, <1>4, <1>5, OthersKept

(* The ways in which a call starts.                                         *)
LEMMA StartInv == ASSUME IInv, NEW r \in Runs, Start(r) PROVE IInv'
<1> USE DEF IInv
<1>1. pc[r] = "idle" /\ stage[r] = DIRECT /\ ~registered[r] /\ ~invocation[r].active
  BY DEF Start, StartInside, CallThroughRegistry, CallDirectly, Adapt, ProgressSound,
         InvocationsScoped, Running
<1>2. NoCall \notin Calls /\ Calls \subseteq Call
  BY VOneAssumption
<1>3. ASSUME NEW q \in Runs, StartInside(r, q) PROVE IInv'
  <2>1. /\ UNCHANGED <<now, vone, pc, locals, verdict>>
        /\ \A x \in Runs : invocation'[x] = invocation[x]
        /\ \A x \in Runs \ {r} : context'[x] = context[x]
    BY <1>3 DEF StartInside, Inherit, TypeOK, StageTypeOK
  <2>2. TypeOK'
    BY <1>3, <2>1 DEF StartInside, Inherit, TypeOK, StageTypeOK, vone, locals
  <2>3. InvocationsScoped'
    BY <1>1, <2>1 DEF InvocationsScoped, Running, locals
  <2>4. QED
    BY <1>1, <2>1, <2>2, <2>3, OthersKept DEF locals
<1>4. ASSUME NEW c \in Calls, NEW s \in Stages, CallThroughRegistry(r, c, s) PROVE IInv'
  <2>1. UNCHANGED <<now, vone, stage, at, held, verdict>>
        /\ pc'[r] = "stage" /\ call'[r] = c /\ registered'[r]
        /\ \A q \in Runs \ {r} : /\ pc'[q] = pc[q] /\ call'[q] = call[q]
                                /\ registered'[q] = registered[q]
    BY <1>4 DEF CallThroughRegistry, TypeOK
  <2>2. TypeOK'
    BY <1>2, <1>4 DEF CallThroughRegistry, Enter, TypeOK, StageTypeOK, Places, vone
  <2>3. context'[r] = r /\ invocation'[r].active
        /\ \A q \in Runs \ {r} : context'[q] = context[q] /\ invocation'[q] = invocation[q]
    BY <1>4 DEF CallThroughRegistry, Enter, TypeOK, StageTypeOK
  <2>4. InvocationsScoped'
    <3> SUFFICES ASSUME NEW q \in Runs
                 PROVE  /\ invocation'[q].active <=> Running(q)' /\ registered'[q]
                        /\ Running(q)' /\ registered'[q] => context'[q] = q
                        /\ pc'[q] = "idle" => ~registered'[q]
      BY DEF InvocationsScoped
    <3>1. CASE q = r
      BY <2>1, <2>3, <3>1 DEF Running
    <3>2. CASE q # r
      BY <2>1, <2>3, <3>2 DEF InvocationsScoped, Running
    <3>3. QED
      BY <3>1, <3>2
  <2>5. QED
    BY <1>1, <1>2, <2>1, <2>2, <2>4, OthersKept
<1>5. ASSUME NEW c \in Calls, CallDirectly(r, c) PROVE IInv'
  <2>1. UNCHANGED <<stageVars, now, vone, registered, stage, at, held, verdict>>
        /\ pc'[r] = "stage" /\ call'[r] = c
        /\ \A q \in Runs \ {r} : pc'[q] = pc[q] /\ call'[q] = call[q]
    BY <1>5 DEF CallDirectly, TypeOK
  <2>2. TypeOK'
    BY <1>2, <1>5 DEF CallDirectly, TypeOK, StageTypeOK, Places, stageVars, vone
  <2>3. InvocationsScoped'
    BY <1>1, <2>1 DEF InvocationsScoped, Running, stageVars
  <2>4. QED
    BY <1>1, <1>2, <2>1, <2>2, <2>3, OthersKept
<1>6. ASSUME NEW c \in Calls, Adapt(r, c) PROVE IInv'
  <2>1. UNCHANGED <<stageVars, now, vone, registered, stage, held, verdict>>
        /\ pc'[r] = "live" /\ call'[r] = c /\ at'[r] = now
        /\ \A q \in Runs \ {r} : pc'[q] = pc[q] /\ call'[q] = call[q] /\ at'[q] = at[q]
    BY <1>6 DEF Adapt, TypeOK
  <2>2. TypeOK'
    BY <1>2, <1>6 DEF Adapt, TypeOK, StageTypeOK, Places, stageVars, vone
  <2>3. InvocationsScoped'
    BY <1>1, <2>1 DEF InvocationsScoped, Running, stageVars
  <2>4. now <= now
    BY DEF TypeOK, Times
  <2>5. GrantValid(c.grant, c.operation_id, now)
    BY <1>6 DEF Adapt
  <2>6. c # NoCall
    BY <1>2
  <2>7. Validated(r)'
    BY <2>1, <2>4, <2>5, <2>6 DEF Validated
  <2>8. QED
    BY <1>1, <2>1, <2>2, <2>3, <2>7, OthersKept
<1>7. QED
  BY <1>3, <1>4, <1>5, <1>6 DEF Start

LEMMA NextInv == IInv /\ [Next]_vars => IInv'
<1> SUFFICES ASSUME IInv, [Next]_vars PROVE IInv'
  OBVIOUS
<1>1. CASE Authority
  BY <1>1, AuthorityInv
<1>2. ASSUME NEW r \in Runs, Start(r) PROVE IInv'
  BY <1>2, StartInv
<1>3. ASSUME NEW r \in Runs, Verify(r) PROVE IInv'
  BY <1>3, ReadStageInv, ResolveInv, AskLiveInv, ResolveWitnessInv, AuthenticateInv, RefuseInv
     DEF Verify
<1>4. CASE UNCHANGED vars
  BY <1>4 DEF vars, stageVars, vone, locals, IInv, TypeOK, StageTypeOK, WitnessesGenuine,
              InvocationsScoped, Running, ProgressSound, Validated, Accepted, AcceptedWasIssued,
              DirectMeansUnused, EmbeddedMeansConsumed
<1>5. QED
  BY <1>1, <1>2, <1>3, <1>4 DEF Next

-------------------------------------------------------------------------------
(* The inductive invariant holds of every reachable state.                  *)
THEOREM Invariance == Spec => []IInv
  BY InitInv, NextInv, PTL DEF Spec

(* Stages, calls and V-One's state stay in their types.                     *)
THEOREM TypeCorrect == Spec => []TypeOK
<1>1. IInv => TypeOK
  BY DEF IInv
<1>2. QED
  BY <1>1, Invariance, PTL

(* Accepted evidence is of a grant V-One issued to the operation, also when *)
(* only a witness was authenticated.                                        *)
THEOREM AcceptedIssued == Spec => []AcceptedWasIssued
<1>1. IInv => AcceptedWasIssued
  BY DEF IInv
<1>2. QED
  BY <1>1, Invariance, PTL

(* Evidence of a consumed grant is never accepted for admission.            *)
THEOREM AdmissionUnused == Spec => []DirectMeansUnused
<1>1. IInv => DirectMeansUnused
  BY DEF IInv
<1>2. QED
  BY <1>1, Invariance, PTL

(* Evidence accepted inside a FINAL proof is of a grant that was consumed   *)
(* for this execution.                                                      *)
THEOREM FinalConsumed == Spec => []EmbeddedMeansConsumed
<1>1. IInv => EmbeddedMeansConsumed
  BY DEF IInv
<1>2. QED
  BY <1>1, Invariance, PTL

(* No thread or task obtains a stage the registry is not in.                *)
THEOREM StagesScoped == Spec => NoStageLaundering
<1> DEFINE Scoped(r) ==
      pc[r] = "stage" /\ pc'[r] = "resolve" =>
         IF registered[r] THEN stage'[r] = invocation[r].stage
         ELSE stage'[r] = EMBEDDED =>
                \E q \in Runs : /\ Running(q) /\ registered[q]
                                /\ invocation[q].stage = EMBEDDED
<1>1. ASSUME IInv, NEW r \in Runs, ReadStage(r) PROVE Scoped(r)
  <2>1. stage'[r] = CurrentStage(r) /\ Running(r)
    BY <1>1 DEF IInv, TypeOK, ReadStage, Running
  <2>2. CASE registered[r]
    <3>1. context[r] = r /\ invocation[r].active /\ r # NoRun
      BY <1>1, <2>1, <2>2, NoRunAssumption DEF IInv, InvocationsScoped
    <3>2. QED
      BY <2>1, <2>2, <3>1 DEF CurrentStage
  <2>3. CASE ~registered[r]
    <3>1. SUFFICES ASSUME CurrentStage(r) = EMBEDDED
                   PROVE  \E q \in Runs : /\ Running(q) /\ registered[q]
                                           /\ invocation[q].stage = EMBEDDED
      BY <2>1, <2>3
    <3>2. context[r] \in Runs /\ invocation[context[r]].active
          /\ invocation[context[r]].stage = EMBEDDED
      BY <1>1, <3>1 DEF CurrentStage, DIRECT, EMBEDDED, IInv, TypeOK, StageTypeOK
    <3>3. QED
      BY <1>1, <3>2 DEF IInv, InvocationsScoped
  <2>4. QED
    BY <2>2, <2>3
<1>2. ASSUME IInv, [Next]_vars, NEW r \in Runs, pc[r] = "stage", pc'[r] = "resolve"
      PROVE  ReadStage(r)
  <2>1. CASE Authority
    BY <1>2, <2>1 DEF Authority, Issue, ConsumeGrant, Revoke, Tick
  <2>2. ASSUME NEW q \in Runs, Start(q) PROVE ReadStage(r)
    BY <1>2, <2>2 DEF Start, StartInside, CallThroughRegistry, CallDirectly, Adapt, IInv, TypeOK
  <2>3. ASSUME NEW q \in Runs, Verify(q) PROVE ReadStage(r)
    <3>1. CASE ReadStage(q)
      BY <1>2, <3>1 DEF ReadStage, IInv, TypeOK
    <3>2. CASE Resolve(q)
      BY <1>2, <3>2 DEF Resolve, CheckFor, IInv, TypeOK
    <3>3. CASE AskLiveAuthority(q) \/ Authenticate(q) \/ RefuseCall(q)
      BY <1>2, <3>3 DEF AskLiveAuthority, Authenticate, RefuseCall, Refuse, Accept, Finish,
                        IInv, TypeOK
    <3>4. CASE ResolveWitness(q)
      BY <1>2, <3>4 DEF ResolveWitness, IInv, TypeOK
    <3>5. QED
      BY <2>3, <3>1, <3>2, <3>3, <3>4 DEF Verify
  <2>4. CASE UNCHANGED vars
    BY <1>2, <2>4 DEF vars
  <2>5. QED
    BY <1>2, <2>1, <2>2, <2>3, <2>4 DEF Next
<1>3. IInv /\ [Next]_vars => [\A r \in Runs : Scoped(r)]_vars
  BY <1>1, <1>2
<1>4. QED
  BY <1>3, Invariance, PTL DEF Spec, NoStageLaundering
===============================================================================
