---------------------------- MODULE AdmissionExpiry ----------------------------
(***************************************************************************)
(* How long an admission lives: _proof_expiry picks the earliest expiry of  *)
(* the evidence or the end of the time to live, the latter written in       *)
(* milliseconds, and _record_is_expired compares the stored text with the   *)
(* clock whenever the record is used.                                       *)
(***************************************************************************)
EXTENDS Timestamps

CONSTANTS
    Millis,      \* digits isoformat keeps of a fraction; three in the code
    TTL,         \* admission_ttl_seconds
    Texts,       \* expiries that evidence may carry
    MaxEvidence, \* bound: expiries per proof
    MaxNow       \* bound: last instant of the clock

ASSUME MillisAssumption == Millis \in 0 .. Micros
ASSUME TextsAssumption == \A x \in Texts : x = Malformed \/ x \in Text
ASSUME MaxEvidenceAssumption == MaxEvidence \in Nat
ASSUME TTLAssumption == TTL \in Nat \ {0}

VARIABLES
    now,       \* POSIX microseconds
    evidence,  \* texts of the proof that was presented
    issued,    \* instant at which it was
    outcome,   \* "none", "admitted" or "refused"
    expiresAt  \* text the record keeps, as in Timestamps

expiryVars == <<now, evidence, issued, outcome, expiresAt>>

None == [base |-> 0, sixty |-> FALSE, fraction |-> <<>>]

ExpiryInit ==
    /\ now = 0
    /\ evidence = {}
    /\ issued = 0
    /\ outcome = "none"
    /\ expiresAt = None

-----------------------------------------------------------------------------
(* (now + timedelta(seconds=ttl)).isoformat(timespec="milliseconds"), after    *)
(* two faulty variants: rounded up, and in whole seconds.                     *)
TtlTextRoundedUp(t) ==
    LET step == Power[Micros - Millis]
        up   == ((t + step - 1) \div step) * step
    IN  [base |-> up \div PerSecond + TTL, sixty |-> FALSE,
         fraction |-> SubSeq(Digits(up % PerSecond), 1, Millis)]

TtlTextSeconds(t) ==
    [base |-> t \div PerSecond + TTL, sixty |-> FALSE, fraction |-> <<>>]

TtlText(t) ==
    [base |-> t \div PerSecond + TTL, sixty |-> FALSE,
     fraction |-> SubSeq(Digits(t % PerSecond), 1, Millis)]

EarliestPosix(texts) ==
    CHOOSE e \in texts :
        \A f \in texts :
            \/ f.base > e.base
            \/ f.base = e.base /\ ~ StringLess(f.fraction, e.fraction)

Earliest(texts) ==
    CHOOSE e \in texts :
        \A f \in texts : ~ TupleLess(ParseRfc3339(f), ParseRfc3339(e))

Chosen(texts, t) ==
    IF NotAfter(ParseRfc3339(Earliest(texts)), ParseRfc3339(TtlText(t)))
    THEN Earliest(texts)
    ELSE TtlText(t)

ReadsEvidence(texts) == texts # {} /\ \A e \in texts : Readable(e)

AlreadyExpired(texts, t) ==
    NotAfter(ParseRfc3339(Chosen(texts, t)), TimestampFromDatetime(t))

ProofExpiry(texts) ==
    /\ outcome = "none"
    /\ evidence' = texts
    /\ issued' = now
    /\ IF ReadsEvidence(texts) /\ ~ AlreadyExpired(texts, now)
       THEN outcome' = "admitted" /\ expiresAt' = Chosen(texts, now)
       ELSE outcome' = "refused" /\ UNCHANGED expiresAt
    /\ UNCHANGED now

RecordIsExpiredLate ==
    \/ ~ Readable(expiresAt)
    \/ Before(ParseRfc3339(expiresAt), TimestampFromDatetime(now))

RecordIsExpired ==
    \/ ~ Readable(expiresAt)
    \/ NotAfter(ParseRfc3339(expiresAt), TimestampFromDatetime(now))

ClockTick ==
    /\ now < MaxNow
    /\ now' = now + 1
    /\ UNCHANGED <<evidence, issued, outcome, expiresAt>>

Offered == {{}} \cup {{given[i] : i \in 1 .. MaxEvidence} : given \in [1 .. MaxEvidence -> Texts]}

ExpiryNext == ClockTick \/ \E texts \in Offered : ProofExpiry(texts)

ExpirySpec == ExpiryInit /\ [][ExpiryNext]_expiryVars

-----------------------------------------------------------------------------
Usable == outcome = "admitted" /\ ~ RecordIsExpired

(* The order of rfc3339.py is the order of the instants the texts stand for, *)
(* through leap seconds and fractions of any length: compare_timestamps      *)
(* orders every two expiries, and an expiry and the clock, exactly.          *)
OrderIsExact ==
    \A e, f \in {x \in evidence : Readable(x)} \cup {ClockText(now)} :
        Before(ParseRfc3339(e), ParseRfc3339(f)) <=> ExactlyBefore(e, f)

(* However the expiry was chosen and written, while the gateway treats the   *)
(* record as unexpired every piece of evidence is valid and the time to live *)
(* is not over: cutting to milliseconds and picking by string never extends. *)
NeverOutlives ==
    Usable =>
        /\ \A e \in evidence : ExactlyBefore(ClockText(now), e)
        /\ now < issued + TTL * PerSecond

(* The cut costs an admission less than one millisecond: it is refused or    *)
(* expires only when some evidence has, or in the last millisecond of its    *)
(* time to live.                                                             *)
ExpiryHasReason ==
    outcome # "none" /\ (\A e \in evidence : Readable(e)) /\ evidence # {} /\ ~ Usable =>
        \/ \E e \in evidence : ~ ExactlyBefore(ClockText(now), e)
        \/ now > issued + TTL * PerSecond - Power[Micros - Millis]
=============================================================================
