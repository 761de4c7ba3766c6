--------------------------- MODULE MCSubjectBinding ---------------------------
(* Two envelopes of one operation, issued at different instants, two          *)
(* canonical subjects of it, bindings that overlap in time.                   *)
EXTENDS SubjectBinding, TLC

CONSTANTS b1, b2, n1, s1, s2

MCIssuedAt == [b \in Bodies |-> IF b = b1 THEN 0 ELSE 1]

MCOperationOf == [x \in Bodies \cup Subjects |-> "op"]

MCWindows ==
    {[issued |-> 0, expires |-> 1], [issued |-> 0, expires |-> 3], [issued |-> 1, expires |-> 2]}

SubjectSymmetry == Permutations(Subjects)
=============================================================================
