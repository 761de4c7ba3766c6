------------------------------ MODULE MCAdapters ------------------------------
(* The two adapters share no variable, so that a reachable state of the pair   *)
(* is a pair of reachable states, and each property reads one of them: a        *)
(* behaviour runs one adapter and leaves the other at rest.                     *)
(*                                                                             *)
(* Caser: a complete V3 report about a mutation and about a read, and reports   *)
(* that each lack one premise of what they claim.                               *)
(* Howedo: two operations with a snapshot each, two decisions and one binding   *)
(* in the life of the system, and windows that are open, empty or reversed.     *)
EXTENDS Adapters, TLC

CONSTANTS i1, p1, p2, p3, s1, s2, o1, o2

MCOperation == [p \in Pres |-> "op"]

Full ==
    [strength |-> "V3", scope |-> "OUTCOME_AND_POST_STATE", class |-> "PROVIDER_OBSERVATION",
     independent |-> TRUE, status |-> "PASS", integrityClaim |-> TRUE, outcomeClaim |-> TRUE,
     postClaim |-> TRUE, executionOutcome |-> "SUCCEEDED", outcomeCheck |-> "SUCCEEDED",
     readOnlyCheck |-> "ABSENT", effectCheck |-> "MUTATING", postCheck |-> "VERIFIED"]

ReadOnly ==
    [Full EXCEPT !.scope = "OUTCOME", !.postClaim = FALSE, !.readOnlyCheck = "READ_ONLY",
                 !.effectCheck = "ABSENT", !.postCheck = "ABSENT"]

MCVerifications ==
    {Full, ReadOnly,
     [ReadOnly EXCEPT !.strength = "V2"],
     [ReadOnly EXCEPT !.strength = "V2", !.scope = "INTEGRITY", !.outcomeClaim = FALSE],
     [ReadOnly EXCEPT !.independent = FALSE],
     [Full EXCEPT !.class = "CODE_PATH"],
     [ReadOnly EXCEPT !.executionOutcome = "FAILED", !.outcomeCheck = "FAILED"]}

\* A binding nobody attested, of a complete report to the other proof.
MCForged ==
    LET r == [instance |-> i1, operation |-> "op", genuine |-> TRUE]
    IN  {[pre |-> p2, receipt |-> r,
          verification |-> [instance |-> i1, operation |-> "op", content |-> Full, verifiedAt |-> 0],
          issued |-> 0, expires |-> MaxClock + 1]}

-----------------------------------------------------------------------------
MCAbout == s1 :> o1 @@ s2 :> o2

VARIABLE adapter

allVars == <<adapter, vars, howedo>>

\* What happened in Caser's executions does not matter to a behaviour of the other.
MCInit ==
    /\ adapter \in {"caser", "howedo"}
    /\ Init /\ Howedo!Init
    /\ adapter = "howedo" => fact = CHOOSE f \in [Instances -> Facts] : TRUE

MCNext ==
    /\ UNCHANGED adapter
    /\ \/ adapter = "caser" /\ Next /\ UNCHANGED howedo
       \/ adapter = "howedo" /\ Howedo!Next /\ UNCHANGED vars

MCSpec == MCInit /\ [][MCNext]_allVars
=============================================================================
