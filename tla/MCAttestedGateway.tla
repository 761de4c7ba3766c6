-------------------------- MODULE MCAttestedGateway --------------------------
(* The proofs of the gateway runs.  p1 and p2 are a proof and its re-issue  *)
(* for the same operation, p1 with evidence that expires before the end of  *)
(* the time to live.  p3 is for a second operation; p4 is not a PRE/v2      *)
(* proof, p5 has no trusted provider.                                       *)
EXTENDS AttestedGateway, TLC

CONSTANTS o1, o2, s1, s2, p1, p2, p3, p4, p5, g1, g2

Proof(o, s, g, expiries, trusted, pre_v2) ==
    [operation_id |-> o, subject_digest |-> s, target_digest |-> g,
     expiries |-> expiries, trusted |-> trusted, pre_v2 |-> pre_v2]

AllDocs ==
    (p1 :> Proof(o1, s1, g1, {2, 9}, TRUE, TRUE)) @@
    (p2 :> Proof(o1, s1, g1, {9}, TRUE, TRUE)) @@
    (p3 :> Proof(o2, s2, g2, {9}, TRUE, TRUE)) @@
    (p4 :> Proof(o2, s2, g2, {9}, TRUE, FALSE)) @@
    (p5 :> Proof(o2, s2, g2, {9}, FALSE, TRUE))

MCDoc == [p \in Proofs |-> AllDocs[p]]

(* Requests are interchangeable; nothing else is.                           *)
Symmetry == Permutations(Requests)
===============================================================================
