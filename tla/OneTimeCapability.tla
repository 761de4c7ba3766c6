-------------------------- MODULE OneTimeCapability --------------------------
(***************************************************************************)
(* What the admission boundary of the gateway promises, and nothing else.  *)
(* An operation is granted a capability at most once, and that capability  *)
(* is redeemed at most once.  There is no way back: a granted operation    *)
(* never becomes grantable again, a spent one never becomes redeemable.    *)
(***************************************************************************)
CONSTANT Operations

VARIABLE phase

Phases == {"unknown", "granted", "spent"}

Init == phase = [o \in Operations |-> "unknown"]

Grant(o) ==
    /\ phase[o] = "unknown"
    /\ phase' = [phase EXCEPT ![o] = "granted"]

Redeem(o) ==
    /\ phase[o] = "granted"
    /\ phase' = [phase EXCEPT ![o] = "spent"]

Next == \E o \in Operations : Grant(o) \/ Redeem(o)

Spec == Init /\ [][Next]_phase
==============================================================================
