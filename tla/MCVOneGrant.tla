----------------------------- MODULE MCVOneGrant -----------------------------
(* g1 and g2 are grants of one operation with different lifetimes.  Calls   *)
(* present faithful evidence of each, altered evidence, and evidence of one *)
(* operation for another.  A grant V-One has not issued is a forged one.    *)
EXTENDS VOneGrant, TLC

CONSTANTS o1, o2

MCGrant(id, checked, from, to) ==
    [id |-> id, execution_id |-> o1, checked_at |-> checked, issued_at |-> from,
     expires_at |-> to, epoch |-> 0, wellformed |-> TRUE]

g1 == MCGrant(1, 0, 0, 2)
g2 == MCGrant(2, 1, 1, 3)
MCGrants == {g1, g2}

MCCall(g, o, faithful) ==
    [operation_id |-> o1, pre |-> TRUE, grant |-> g, envelope_operation_id |-> o,
     faithful |-> faithful]
MCCalls ==
    {MCCall(g1, o1, TRUE), MCCall(g2, o1, TRUE),
     MCCall(g1, o1, FALSE), MCCall(g1, o2, TRUE)}

Symmetry == Permutations(Runs)
===============================================================================
