------------------------ MODULE MCExecutionProvenance ------------------------
(* A good receipt and a good FINAL proof of one operation, and documents that  *)
(* differ from them in one respect each.                                       *)
EXTENDS ExecutionProvenance, TLC

CONSTANTS o1, o2, s1, s2, p1, p2

Good ==
    Receipt([operation |-> o1, pre |-> p1, issued |-> 0, expires |-> NoExpiry,
             effect |-> "MUTATING", outcome |-> "SUCCEEDED", outcomeVerified |-> TRUE], TRUE, TRUE)

MCReceipts ==
    {Good,
     [Good EXCEPT !.fields.pre = p2, !.fields.expires = 1],
     [Good EXCEPT !.fields.operation = o2],
     [Good EXCEPT !.fields.outcomeVerified = FALSE]}

Composed == [phase |-> "FINAL", operation |-> o1, subject |-> s1, pre |-> p1, until |-> MaxTime + 1]

MCFinals ==
    {Composed, [Composed EXCEPT !.phase = "PRE"], [Composed EXCEPT !.until = 1]}

MCEvents ==
    {[type |-> "execution_receipt_verified", artifact |-> x, at |-> t] :
        x \in MCReceipts, t \in 0 .. MaxTime}
    \cup {[type |-> "final_proof_composed", artifact |-> f, at |-> t] :
        f \in MCFinals, t \in 0 .. MaxTime}
    \cup {Lifecycle}

Symmetry == Permutations(Ids) \cup Permutations(Recorders)
===============================================================================
