------------------------------ MODULE Timestamps ------------------------------
(***************************************************************************)
(* Instants as rfc3339.py reads and orders them.  A text is a second on     *)
(* the POSIX scale (calendar and offset already applied), whether it was    *)
(* written as second 60, and the digits of its fraction.  Parsing puts      *)
(* every known leap second on the scale of whole seconds.                   *)
(***************************************************************************)
EXTENDS Integers, FiniteSets, SequencesExt

CONSTANTS
    Base,             \* digits are 0 .. Base - 1; ten in the code
    Micros,           \* digits of the clock's fraction; six in the code
    LeapBoundaries    \* POSIX seconds that begin right after a leap second

ASSUME BaseAssumption == Base \in Nat \ {0, 1}
ASSUME MicrosAssumption == Micros \in Nat \ {0}
ASSUME LeapAssumption == LeapBoundaries \subseteq Nat /\ IsFiniteSet(LeapBoundaries)

Text == [base : Int, sixty : BOOLEAN, fraction : Seq(0 .. Base - 1)]

\* What the parser refuses for its form.
Malformed == [base |-> 0, sixty |-> FALSE, fraction |-> <<-1>>]

Readable(text) ==
    /\ text # Malformed
    /\ text.sixty => text.base + 1 \in LeapBoundaries

LeapsUpTo(posix) == Cardinality({b \in LeapBoundaries : b <= posix})

ParsePosix(text) ==
    [whole |-> text.base + (IF text.sixty THEN 1 ELSE 0), fraction |-> text.fraction]

ParseRfc3339(text) ==
    [whole |-> text.base + LeapsUpTo(text.base) + (IF text.sixty THEN 1 ELSE 0),
     fraction |-> text.fraction]

\* The clock counts POSIX microseconds; its text has trailing zeros stripped.
Power[n \in Nat] == IF n = 0 THEN 1 ELSE Base * Power[n - 1]

PerSecond == Power[Micros]

Digits(micro) == [i \in 1 .. Micros |-> (micro \div Power[Micros - i]) % Base]

Stripped(ds) ==
    CHOOSE s \in {SubSeq(ds, 1, n) : n \in 0 .. Len(ds)} :
        /\ \A i \in Len(s) + 1 .. Len(ds) : ds[i] = 0
        /\ s # <<>> => Last(s) # 0

TimestampFromDatetime(now) ==
    ParseRfc3339([base |-> now \div PerSecond, sixty |-> FALSE,
                  fraction |-> Stripped(Digits(now % PerSecond))])

StringLess(s, t) ==
    \/ Len(s) < Len(t) /\ IsPrefix(s, t)
    \/ \E i \in DOMAIN s \cap DOMAIN t :
          /\ SubSeq(s, 1, i - 1) = SubSeq(t, 1, i - 1)
          /\ s[i] < t[i]

HasDigit(s) == \E i \in DOMAIN s : s[i] # 0

FractionLessNoTail(s, t) ==
    LET common == IF Len(s) < Len(t) THEN Len(s) ELSE Len(t)
    IN  StringLess(SubSeq(s, 1, common), SubSeq(t, 1, common))

FractionLess(s, t) ==
    LET common == IF Len(s) < Len(t) THEN Len(s) ELSE Len(t)
        left   == SubSeq(s, 1, common)
        right  == SubSeq(t, 1, common)
    IN  \/ StringLess(left, right)
        \/ left = right /\ HasDigit(SubSeq(t, common + 1, Len(t)))

\* compare_timestamps(l, r) < 0; the other two outcomes are Before(r, l) and neither.
Before(l, r) ==
    \/ l.whole < r.whole
    \/ l.whole = r.whole /\ FractionLess(l.fraction, r.fraction)

NotAfter(l, r) == ~ Before(r, l)

\* Order of the pairs as Python orders tuples, by which min() picks.
TupleLess(l, r) ==
    \/ l.whole < r.whole
    \/ l.whole = r.whole /\ StringLess(l.fraction, r.fraction)

-----------------------------------------------------------------------------
(* What the order of instants is, without the table and without parsing: a  *)
(* leap second comes after second 59 of its minute and before the next one, *)
(* and a fraction is a number; two of them are compared with equally many   *)
(* digits.                                                                  *)

DigitAt(s, i) == IF i <= Len(s) THEN s[i] ELSE 0

Fraction(s, n) ==
    LET number[i \in Nat] == IF i = 0 THEN 0 ELSE Base * number[i - 1] + DigitAt(s, i)
    IN  number[n]

ExactlyBefore(a, b) ==
    \/ a.base < b.base
    \/ a.base = b.base /\ ~ a.sixty /\ b.sixty
    \/ /\ a.base = b.base
       /\ a.sixty = b.sixty
       /\ LET n == Len(a.fraction) + Len(b.fraction)
          IN  Fraction(a.fraction, n) < Fraction(b.fraction, n)

ClockText(now) ==
    [base |-> now \div PerSecond, sixty |-> FALSE, fraction |-> Digits(now % PerSecond)]
=============================================================================
