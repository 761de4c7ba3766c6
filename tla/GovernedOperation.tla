-------------------------- MODULE GovernedOperation --------------------------
(***************************************************************************)
(* What the gateway as a whole promises about one operation: it is admitted *)
(* at most once, its capability is spent at most once, a request for it is *)
(* opened towards the upstream only after that and at most once, and the   *)
(* outcome of that request is settled at most once.  An operation may stop *)
(* at any stage; it never goes back and never skips one.                   *)
(***************************************************************************)
CONSTANT Operations

VARIABLE stage

Stages == {"unknown", "admitted", "spent", "open", "completed", "failed"}

Init == stage = [o \in Operations |-> "unknown"]

Move(o, from, to) == stage[o] = from /\ stage' = [stage EXCEPT ![o] = to]

Next ==
    \E o \in Operations :
        \/ Move(o, "unknown", "admitted")
        \/ Move(o, "admitted", "spent")
        \/ Move(o, "spent", "open")
        \/ Move(o, "open", "completed")
        \/ Move(o, "open", "failed")

Spec == Init /\ [][Next]_stage
==============================================================================
