----------------------------- MODULE SidecarProofs -----------------------------
(* Proofs about the body loop and about the sidecar around it, for every limit, *)
(* every body and every way to cut it.                                          *)
EXTENDS Sidecar, SequenceTheorems, TLAPS

(* What the place in the loop says about the bytes taken so far.                *)
Held ==
    /\ place = "start" => sent = 0 /\ body = 0
    /\ place = "INVALID_CONTENT_LENGTH" => ~ ValidLengths /\ sent = 0 /\ body = 0
    /\ place = "TOO_LARGE" =>
         ValidLengths /\ body <= Limit /\ (DeclaredTooLarge \/ total > Limit)
    /\ place \in {"reading", "read", "READ_FAILED", "CONTENT_LENGTH_MISMATCH"} =>
         ValidLengths /\ ~ DeclaredTooLarge /\ body = sent /\ body <= Limit
    /\ place = "read" => sent = total /\ Matches
    /\ place = "CONTENT_LENGTH_MISMATCH" => sent = total /\ ~ Matches

BodyIInv == BodyTypeOK /\ Held

(* What the two verifications of a document found stays true of it: one that is *)
(* VERIFIED and was found invalid does not become valid, and one that was found  *)
(* valid was so since its body arrived.                                         *)
AssessmentInv ==
    /\ place = "read" => arrived <= clock
    /\ integrity # "unknown" => place = "read"
    /\ integrity = "invalid" /\ document.decision = "VERIFIED" => clock \notin document.valid
    /\ verifiedAt # -1 =>
         /\ integrity = "valid" /\ document.decision = "VERIFIED"
         /\ arrived <= verifiedAt /\ verifiedAt \in document.valid

(* Only a document that passed both is called trusted.                          *)
AnswerInv ==
    answer.trusted \/ answer.accepted =>
        answer.trusted /\ answer.accepted /\ answer.integrity_valid /\ verifiedAt # -1

IInv == TypeOK /\ Held /\ AssessmentInv /\ AnswerInv

LEMMA BodyInitial == BodyInit => BodyIInv
<1> SUFFICES ASSUME BodyInit PROVE BodyIInv
  OBVIOUS
<1>1. lengths \in Seq(Nat \cup {-1})
  <2>1. PICK n \in 0 .. MaxHeaders : lengths \in [1 .. n -> -1 .. MaxTotal]
    BY DEF BodyInit
  <2>2. n \in Nat /\ -1 .. MaxTotal \subseteq Nat \cup {-1}
    BY BoundsAssumption
  <2>3. lengths \in [1 .. n -> Nat \cup {-1}]
    BY <2>1, <2>2
  <2> QED
    BY <2>2, <2>3, SeqDef
<1>2. total \in Nat /\ sent \in 0 .. total /\ body \in 0 .. total
  BY BoundsAssumption DEF BodyInit
<1> QED
  BY <1>1, <1>2 DEF BodyInit, BodyIInv, BodyTypeOK, Held

LEMMA BodyStep == BodyIInv /\ [ReadStep]_bodyVars => BodyIInv'
<1> SUFFICES ASSUME BodyIInv, [ReadStep]_bodyVars PROVE BodyIInv'
  OBVIOUS
<1> USE LimitAssumption, BoundsAssumption
<1>1. lengths # <<>> => lengths[1] \in Int
  BY DEF BodyIInv, BodyTypeOK
<1>2. CASE Start
  BY <1>1, <1>2 DEF Start, BodyIInv, BodyTypeOK, Held, ValidLengths, DeclaredTooLarge, Reasons, Matches
<1>3. ASSUME NEW n \in 0 .. MaxChunk, Chunk(n) PROVE BodyIInv'
  <2>1. n \in Nat /\ sent' \in 0 .. total /\ total' = total /\ lengths' = lengths /\ reader' = reader
    BY <1>3 DEF Chunk, BodyIInv, BodyTypeOK
  <2>2. CASE Fits(n)
    BY <1>3, <2>1, <2>2
    DEF Chunk, Fits, BodyIInv, BodyTypeOK, Held, ValidLengths, DeclaredTooLarge, Reasons, Matches
  <2>3. CASE ~ Fits(n)
    BY <1>3, <2>1, <2>3
    DEF Chunk, Fits, BodyIInv, BodyTypeOK, Held, ValidLengths, DeclaredTooLarge, Reasons, Matches
  <2> QED
    BY <2>2, <2>3
<1>4. CASE EndOfStream
  BY <1>1, <1>4
  DEF EndOfStream, BodyIInv, BodyTypeOK, Held, ValidLengths, DeclaredTooLarge, Reasons, Matches
<1>5. CASE Broken
  BY <1>5
  DEF Broken, BodyIInv, BodyTypeOK, Held, ValidLengths, DeclaredTooLarge, Reasons, Matches
<1>6. CASE UNCHANGED bodyVars
  BY <1>6
  DEF bodyVars, BodyIInv, BodyTypeOK, Held, ValidLengths, DeclaredTooLarge, Reasons, Matches
<1> QED
  BY <1>2, <1>3, <1>4, <1>5, <1>6 DEF ReadStep

LEMMA BodyConsequences == BodyIInv => NeverOverLimit /\ ChunkingIrrelevant
<1> SUFFICES ASSUME BodyIInv PROVE NeverOverLimit /\ ChunkingIrrelevant
  OBVIOUS
<1>1. lengths # <<>> => lengths[1] \in Int
  BY DEF BodyIInv, BodyTypeOK
<1>2. NeverOverLimit
  BY LimitAssumption DEF BodyIInv, BodyTypeOK, Held, NeverOverLimit, Reasons
<1>3. ChunkingIrrelevant
  BY <1>1, LimitAssumption
  DEF BodyIInv, BodyTypeOK, Held, ChunkingIrrelevant, Decided, Deserved, Matches, Reasons
<1> QED
  BY <1>2, <1>3

(* However large the stream and whatever was declared, no reader ever holds more *)
(* than Limit bytes.                                                            *)
THEOREM BodyBounded == BodySpec => []NeverOverLimit
<1>1. BodyInit => BodyIInv
  BY BodyInitial
<1>2. BodyIInv /\ [ReadStep]_bodyVars => BodyIInv'
  BY BodyStep
<1>3. BodyIInv => NeverOverLimit
  BY BodyConsequences
<1> QED
  BY <1>1, <1>2, <1>3, PTL DEF BodySpec

(* The outcome of reading is a function of the whole stream, for every way to    *)
(* cut it into chunks.                                                          *)
THEOREM ChunksIrrelevant == BodySpec => []ChunkingIrrelevant
<1>1. BodyInit => BodyIInv
  BY BodyInitial
<1>2. BodyIInv /\ [ReadStep]_bodyVars => BodyIInv'
  BY BodyStep
<1>3. BodyIInv => ChunkingIrrelevant
  BY BodyConsequences
<1> QED
  BY <1>1, <1>2, <1>3, PTL DEF BodySpec

-----------------------------------------------------------------------------
(* A VERIFIED document that is valid was valid before.                          *)
LEMMA ValidBefore ==
    ASSUME TypeOK, document.decision = "VERIFIED", NEW u \in document.valid, NEW t \in Nat, t <= u
    PROVE  t \in document.valid
<1>1. document \in Documents /\ document \in Document
  BY DocumentsAssumption DEF TypeOK
<1>2. document.valid \subseteq Nat
  BY <1>1 DEF Document
<1>3. 0 .. u \subseteq document.valid
  BY <1>1, DocumentsAssumption
<1>4. t \in 0 .. u
  BY <1>2
<1> QED
  BY <1>3, <1>4

LEMMA Initial == Init => IInv
<1> SUFFICES ASSUME Init PROVE IInv
  OBVIOUS
<1>1. BodyIInv
  BY BodyInitial DEF Init
<1>2. TypeOK
  BY <1>1, DocumentsAssumption DEF Init, TypeOK, BodyIInv, NoAnswer, Answer, Responses
<1>3. place = "start"
  BY DEF Init, BodyInit
<1> QED
  BY <1>1, <1>2, <1>3 DEF Init, IInv, BodyIInv, AssessmentInv, AnswerInv, NoAnswer, Answer

(* What answers say of trust.                                                   *)
LEMMA AnswersRefuse ==
    ASSUME NEW x \in {0, 200, 400, 413, 415, 500, 503}
    PROVE  Answer(x) \in Responses /\ ~ Answer(x).trusted /\ ~ Answer(x).accepted
BY DEF Answer, Responses

LEMMA ReportRefuses ==
    Report(FALSE) \in Responses /\ ~ Report(FALSE).trusted /\ ~ Report(FALSE).accepted
<1>1. ASSUME NEW v \in BOOLEAN, NEW r,
             r = [status |-> 200, integrity_valid |-> v, trusted |-> FALSE, accepted |-> FALSE]
      PROVE  r \in Responses /\ ~ r.trusted /\ ~ r.accepted
  BY <1>1 DEF Responses
<1>2. PICK v \in BOOLEAN : v = (integrity = "valid")
  OBVIOUS
<1>3. (integrity = "valid" /\ document.decision = "VERIFIED" /\ FALSE) = FALSE
  BY Zenon
<1>4. Report(FALSE) = [status |-> 200, integrity_valid |-> v, trusted |-> FALSE, accepted |-> FALSE]
  BY <1>2, <1>3, Zenon DEF Report
<1> QED
  BY <1>1, <1>4, Zenon

LEMMA ReportAccepts ==
    ASSUME integrity = "valid", document.decision = "VERIFIED"
    PROVE  /\ Report(TRUE) \in Responses
           /\ Report(TRUE).trusted /\ Report(TRUE).accepted /\ Report(TRUE).integrity_valid
<1>1. ASSUME NEW r,
             r = [status |-> 200, integrity_valid |-> TRUE, trusted |-> TRUE, accepted |-> TRUE]
      PROVE  r \in Responses /\ r.trusted /\ r.accepted /\ r.integrity_valid
  BY <1>1 DEF Responses
<1>2. /\ (integrity = "valid") = TRUE
      /\ (integrity = "valid" /\ document.decision = "VERIFIED" /\ TRUE) = TRUE
  BY Zenon
<1>3. Report(TRUE) = [status |-> 200, integrity_valid |-> TRUE, trusted |-> TRUE, accepted |-> TRUE]
  BY <1>2, Zenon DEF Report
<1> QED
  BY <1>1, <1>3, Zenon

(* A step that answers without calling the document trusted keeps everything.   *)
LEMMA RefusalKeeps ==
    ASSUME IInv, UNCHANGED <<bodyVars, request, clock, arrived, assessment>>,
           ~ answer'.trusted, ~ answer'.accepted,
           answer' \in Responses
    PROVE  IInv'
<1>1. BodyIInv'
  BY BodyStep DEF IInv, BodyIInv, TypeOK
<1>2. TypeOK'
  BY <1>1 DEF IInv, BodyIInv, TypeOK, request, assessment
<1>3. AssessmentInv'
  BY DEF IInv, AssessmentInv, bodyVars, request, assessment
<1> QED
  BY <1>1, <1>2, <1>3 DEF IInv, BodyIInv, AnswerInv

(* What the first verification finds.                                           *)
LEMMA VerifiedOnce == IInv /\ VerifyIntegrity => IInv'
<1> SUFFICES ASSUME IInv, VerifyIntegrity PROVE IInv'
  OBVIOUS
<1>1. /\ integrity = "unknown" /\ place = "read" /\ answer = NoAnswer
      /\ UNCHANGED <<bodyVars, request, clock, arrived, verifiedAt, answer>>
      /\ integrity' = IF clock \in document.valid THEN "valid" ELSE "invalid"
  BY DEF VerifyIntegrity, Assessing
<1>2. BodyIInv'
  BY <1>1, BodyStep DEF IInv, BodyIInv, TypeOK
<1>3. TypeOK'
  BY <1>1, <1>2 DEF IInv, BodyIInv, TypeOK, request
<1>4. AssessmentInv'
  BY <1>1 DEF IInv, AssessmentInv, bodyVars, request
<1>5. AnswerInv'
  BY <1>1 DEF IInv, AnswerInv
<1> QED
  BY <1>2, <1>3, <1>4, <1>5 DEF IInv, BodyIInv

(* The second verification passes only what the first one found valid: were it  *)
(* invalid then, it would be now.                                               *)
LEMMA VerifiedTwice == IInv /\ VerifyAgain => IInv'
<1> SUFFICES ASSUME IInv, VerifyAgain PROVE IInv'
  OBVIOUS
<1>1. /\ integrity \in {"valid", "invalid"} /\ place = "read" /\ answer = NoAnswer
      /\ UNCHANGED <<bodyVars, request, clock, arrived, integrity>>
  BY DEF VerifyAgain, Assessing, IInv, TypeOK
<1>2. CASE MayBeTrusted
  <2>1. verifiedAt' = clock /\ answer' = answer
    BY <1>2 DEF VerifyAgain
  <2>2. clock \in document.valid /\ document.decision = "VERIFIED" /\ integrity = "valid"
    BY <1>1, <1>2 DEF MayBeTrusted, IInv, AssessmentInv
  <2>3. BodyIInv'
    BY <1>1, BodyStep DEF IInv, BodyIInv, TypeOK
  <2>4. TypeOK'
    BY <1>1, <2>1, <2>3, DocumentsAssumption DEF IInv, BodyIInv, TypeOK, request
  <2>5. AssessmentInv'
    BY <1>1, <2>1, <2>2 DEF IInv, AssessmentInv, bodyVars, request
  <2>6. AnswerInv'
    BY <1>1, <2>1, AnswersRefuse DEF AnswerInv, NoAnswer
  <2> QED
    BY <2>3, <2>4, <2>5, <2>6 DEF IInv, BodyIInv
<1>3. CASE ~ MayBeTrusted
  <2>1. answer' = Report(FALSE) /\ UNCHANGED <<bodyVars, request, clock, arrived, assessment>>
    BY <1>1, <1>3 DEF VerifyAgain, assessment
  <2>2. /\ ~ answer'.trusted /\ ~ answer'.accepted
        /\ answer' \in Responses
    BY <2>1, ReportRefuses
  <2> QED
    BY <2>1, <2>2, RefusalKeeps
<1> QED
  BY <1>2, <1>3

(* The verifiers are asked about a document that passed both verifications.     *)
LEMMA VerifiersAnswered == IInv /\ AskVerifiers => IInv'
<1> SUFFICES ASSUME IInv, AskVerifiers PROVE IInv'
  OBVIOUS
<1>1. PICK trusted \in BOOLEAN : answer' = Report(trusted)
  BY DEF AskVerifiers
<1>2. verifiedAt # -1 /\ UNCHANGED <<bodyVars, request, clock, arrived, assessment>>
  BY DEF AskVerifiers
<1>3. integrity = "valid" /\ document.decision = "VERIFIED"
  BY <1>2 DEF IInv, AssessmentInv
<1>4. /\ answer' \in Responses
      /\ answer'.trusted \/ answer'.accepted =>
           answer'.trusted /\ answer'.accepted /\ answer'.integrity_valid
  <2>1. CASE trusted = TRUE
    BY <1>1, <1>3, <2>1, ReportAccepts
  <2>2. CASE trusted = FALSE
    BY <1>1, <2>2, ReportRefuses
  <2> QED
    BY <2>1, <2>2
<1>5. BodyIInv'
  BY <1>2, BodyStep DEF IInv, BodyIInv, TypeOK
<1>6. TypeOK'
  BY <1>2, <1>4, <1>5 DEF IInv, BodyIInv, TypeOK, request, assessment
<1>7. AssessmentInv'
  BY <1>2 DEF IInv, AssessmentInv, bodyVars, request, assessment
<1>8. AnswerInv'
  <2>1. verifiedAt' # -1
    BY <1>2 DEF assessment
  <2> QED
    BY <1>4, <2>1, Zenon DEF AnswerInv
<1> QED
  BY <1>5, <1>6, <1>7, <1>8 DEF IInv, BodyIInv

(* What was found stays true while the clock goes on.                           *)
LEMMA TimePasses == IInv /\ Tick => IInv'
<1> SUFFICES ASSUME IInv, Tick PROVE IInv'
  OBVIOUS
<1>1. /\ clock \in Nat /\ clock' = clock + 1 /\ clock < MaxClock
      /\ arrived \in Nat /\ MaxClock \in Nat
      /\ UNCHANGED <<bodyVars, request, arrived, assessment, answer>>
  BY DocumentsAssumption DEF Tick, IInv, TypeOK
<1>2. BodyIInv'
  BY <1>1, BodyStep DEF IInv, BodyIInv, TypeOK
<1>3. TypeOK'
  BY <1>1, <1>2 DEF IInv, BodyIInv, TypeOK, request, assessment
<1>4. integrity = "invalid" /\ document.decision = "VERIFIED" => clock' \notin document.valid
  BY <1>1, ValidBefore DEF IInv, AssessmentInv
<1>5. AssessmentInv'
  BY <1>1, <1>4 DEF IInv, AssessmentInv, bodyVars, request, assessment
<1>6. AnswerInv'
  BY <1>1 DEF IInv, AnswerInv, assessment
<1> QED
  BY <1>2, <1>3, <1>5, <1>6 DEF IInv, BodyIInv

(* The body is read before anything is found.                                   *)
LEMMA BodyRead == IInv /\ Read => IInv'
<1> SUFFICES ASSUME IInv, Read PROVE IInv'
  OBVIOUS
<1>1. /\ ReadStep /\ answer = NoAnswer
      /\ arrived' = (IF place' = "read" THEN clock ELSE arrived)
      /\ UNCHANGED <<request, clock, assessment, answer>>
  BY DEF Read
<1>2. BodyIInv'
  BY <1>1, BodyStep DEF IInv, BodyIInv, TypeOK
<1>3. TypeOK'
  BY <1>1, <1>2 DEF IInv, BodyIInv, TypeOK, request, assessment
<1>4. place # "read"
  BY <1>1 DEF ReadStep, Start, Chunk, EndOfStream, Broken
<1>5. integrity = "unknown" /\ verifiedAt = -1
  BY <1>4 DEF IInv, AssessmentInv
<1>6. AssessmentInv'
  BY <1>1, <1>3, <1>5, DocumentsAssumption DEF AssessmentInv, TypeOK, assessment
<1>7. AnswerInv'
  BY <1>1, AnswersRefuse DEF AnswerInv, NoAnswer
<1> QED
  BY <1>2, <1>3, <1>6, <1>7 DEF IInv, BodyIInv

LEMMA Inductive == IInv /\ [Next]_vars => IInv'
<1> SUFFICES ASSUME IInv, [Next]_vars PROVE IInv'
  OBVIOUS
<1>1. ASSUME Refuse \/ RefuseBody \/ RefuseDocument \/ ReportShape \/ ReportIntegrityOnly \/ Fail
      PROVE  IInv'
  <2>1. UNCHANGED <<bodyVars, request, clock, arrived, assessment>>
    BY <1>1 DEF Refuse, RefuseBody, RefuseDocument, ReportShape, ReportIntegrityOnly, Fail
  <2> DEFINE Plain == \E x \in {200, 400, 413, 415, 500, 503} : answer' = Answer(x)
  <2>2. Plain \/ answer' = Report(FALSE)
    <3>1. Refuse => Plain
      BY DEF Refuse
    <3>2. RefuseBody => Plain
      BY DEF RefuseBody
    <3>3. RefuseDocument => Plain
      BY DEF RefuseDocument
    <3>4. ReportShape => Plain
      BY DEF ReportShape
    <3>5. ReportIntegrityOnly => answer' = Report(FALSE)
      BY DEF ReportIntegrityOnly
    <3>6. Fail => Plain
      BY DEF Fail
    <3> HIDE DEF Plain
    <3> QED
      BY <1>1, <3>1, <3>2, <3>3, <3>4, <3>5, <3>6
  <2>3. /\ ~ answer'.trusted /\ ~ answer'.accepted
        /\ answer' \in Responses
    <3>1. CASE Plain
      <4>1. PICK x \in {200, 400, 413, 415, 500, 503} : answer' = Answer(x)
        BY <3>1
      <4> QED
        BY <4>1, AnswersRefuse
    <3>2. CASE answer' = Report(FALSE)
      BY <3>2, ReportRefuses
    <3> QED
      BY <2>2, <3>1, <3>2
  <2> QED
    BY <2>1, <2>3, RefusalKeeps
<1>2. CASE UNCHANGED vars
  <2>1. BodyIInv'
    BY <1>2, BodyStep DEF vars, IInv, BodyIInv, TypeOK
  <2>2. TypeOK'
    BY <1>2, <2>1 DEF vars, IInv, BodyIInv, TypeOK
  <2> QED
    BY <1>2, <2>1, <2>2 DEF vars, bodyVars, IInv, BodyIInv, AssessmentInv, AnswerInv
<1> QED
  BY <1>1, <1>2, BodyRead, VerifiedOnce, VerifiedTwice, VerifiersAnswered, TimePasses
  DEF Next, Assess

(* The sidecar and its body loop stay in their types.                           *)
THEOREM TypeCorrect == Spec => []TypeOK
<1>1. IInv => TypeOK
  BY DEF IInv
<1> QED
  BY Initial, Inductive, <1>1, PTL DEF Spec

(* Whatever the documents, the mode, the bytes and the time they take: a report   *)
(* is coherent although it rests on two verifications with time in between, and   *)
(* what it accepts was valid from the arrival of the body to the second one.      *)
THEOREM ReportsCohere == Spec => []ReportCoherent
<1>1. IInv => ReportCoherent
  <2> SUFFICES ASSUME IInv PROVE ReportCoherent
    OBVIOUS
  <2>1. answer.trusted => answer.integrity_valid /\ answer.accepted
    BY Zenon DEF IInv, AnswerInv
  <2>2. ASSUME answer.accepted
        PROVE  arrived <= verifiedAt /\ arrived .. verifiedAt \subseteq document.valid
    <3>1. verifiedAt # -1
      BY <2>2, Zenon DEF IInv, AnswerInv
    <3>2. /\ document.decision = "VERIFIED" /\ arrived <= verifiedAt
          /\ verifiedAt \in document.valid
      BY <3>1 DEF IInv, AssessmentInv
    <3>3. arrived \in Nat /\ verifiedAt \in Int /\ TypeOK
      BY DocumentsAssumption DEF IInv, TypeOK
    <3>4. ASSUME NEW t \in arrived .. verifiedAt PROVE t \in document.valid
      BY <3>2, <3>3, ValidBefore
    <3> QED
      BY <3>2, <3>4
  <2> QED
    BY <2>1, <2>2 DEF ReportCoherent
<1> QED
  BY Initial, Inductive, <1>1, PTL DEF Spec
===============================================================================
