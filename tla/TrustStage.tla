------------------------------ MODULE TrustStage ------------------------------
(***************************************************************************)
(* The verification stage of trust.py.  _verify_evidence_trust points the  *)
(* context variable _VERIFICATION_INVOCATION to a new invocation object    *)
(* for the time of one provider-verifier call, and marks the object        *)
(* inactive when the call is over.  Each thread or task has a context of   *)
(* its own; a child task starts with a copy of its parent's, that is with  *)
(* a reference to the same object.                                         *)
(*                                                                         *)
(* A run is one verifier call, in one context; the invocation object of a  *)
(* run has the name of the run.                                            *)
(***************************************************************************)
CONSTANTS Runs, NoRun

DIRECT == "DIRECT"
EMBEDDED == "EMBEDDED_PRE_OF_FINAL"
Stages == {DIRECT, EMBEDDED}

ASSUME NoRunAssumption == NoRun \notin Runs

VARIABLES
    context,        \* the invocation the context variable of a run refers to
    invocation,     \* the invocation objects
    token           \* what ContextVar.set returned: the reference to restore

stageVars == <<context, invocation, token>>

StageTypeOK ==
    /\ context \in [Runs -> Runs \cup {NoRun}]
    /\ invocation \in [Runs -> [stage : Stages, active : BOOLEAN]]
    /\ token \in [Runs -> Runs \cup {NoRun}]

StageInit ==
    /\ context = [r \in Runs |-> NoRun]
    /\ invocation = [r \in Runs |-> [stage |-> DIRECT, active |-> FALSE]]
    /\ token = [r \in Runs |-> NoRun]

(* _current_verification_stage in the context of run r                      *)
CurrentStage(r) ==
    IF context[r] # NoRun /\ invocation[context[r]].active
    THEN invocation[context[r]].stage ELSE DIRECT

(* The registry is about to call the verifier.                              *)
Enter(r, s) ==
    /\ context' = [context EXCEPT ![r] = r]
    /\ invocation' = [invocation EXCEPT ![r] = [stage |-> s, active |-> TRUE]]
    /\ token' = [token EXCEPT ![r] = context[r]]

(* Faulty variant: the variable is reset, the object stays active.          *)
LeaveActive(r) ==
    /\ context' = [context EXCEPT ![r] = token[r]]
    /\ UNCHANGED <<invocation, token>>

(* The verifier has returned or raised: the finally clause.                 *)
Leave(r) ==
    /\ invocation' = [invocation EXCEPT ![r].active = FALSE]
    /\ context' = [context EXCEPT ![r] = token[r]]
    /\ UNCHANGED token

(* Run r is a task or thread that was started inside the call of run q.     *)
Inherit(r, q) ==
    /\ context' = [context EXCEPT ![r] = context[q]]
    /\ UNCHANGED <<invocation, token>>
===============================================================================
