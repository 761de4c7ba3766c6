--------------------------- MODULE MCProofVerifier ---------------------------
(* Two PRE layers stand for the seven of the code.  Evidence lists are the  *)
(* complete one and every list that is one defect away from it: a missing,  *)
(* duplicated or foreign layer, another operation or subject, a verdict     *)
(* that is not PASS, an expiry that comes early, evidence with another      *)
(* answer.  In one list the second envelope expires and the first never.    *)
(* The verifiers always vouch for "plain"; "staged" evidence they vouch for *)
(* either in a proof assessed itself (an authority still live) or inside a  *)
(* FINAL proof (a witness that exists after consumption), and this changes  *)
(* at any time, back and forth.                                             *)
EXTENDS ProofVerifier

CONSTANTS l1, l2, o1, o2, s1, s2, plain, staged

MCSubjectOperation == [s \in Subjects |-> IF s = s1 THEN o1 ELSE o2]

MCAnswers ==
    {({plain} \X Stages) \cup {<<staged, x>>} : x \in Stages}

Good(l) == [layer |-> l, operation_id |-> o1, verdict |-> "PASS", subject_digest |-> s1,
            issued_at |-> 0, expires_at |-> 2, wellformed |-> TRUE, native |-> plain]

Defects(e) ==
    {[e EXCEPT !.operation_id = o2], [e EXCEPT !.subject_digest = s2],
     [e EXCEPT !.verdict = "FAIL"], [e EXCEPT !.expires_at = 1],
     [e EXCEPT !.expires_at = 0], [e EXCEPT !.wellformed = FALSE],
     [e EXCEPT !.native = staged]}

MCCollections ==
    {<<Good(l1), Good(l2)>>, <<Good(l1)>>, <<Good(l1), Good(l2), Good(l1)>>,
     <<Good(l1), Good(l2), Good(EXECUTION)>>,
     <<[Good(l1) EXCEPT !.expires_at = NoExpiry], [Good(l2) EXCEPT !.expires_at = 1]>>}
    \cup {<<Good(l1), e>> : e \in Defects(Good(l2))}

MCExecutions ==
    {Good(EXECUTION), Good(l1), [Good(EXECUTION) EXCEPT !.verdict = "UNKNOWN"],
     [Good(EXECUTION) EXCEPT !.subject_digest = s2], [Good(EXECUTION) EXCEPT !.expires_at = NoExpiry],
     [Good(EXECUTION) EXCEPT !.native = staged]}
===============================================================================
