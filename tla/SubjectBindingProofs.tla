-------------------------- MODULE SubjectBindingProofs --------------------------
(***************************************************************************)
(* Proofs about SubjectBinding.  What the calls in progress carry is the     *)
(* heart of the invariant: a binder holds a binding of exactly its native    *)
(* envelope and subject, a verifier an envelope it has taken apart, a native *)
(* envelope that was verified once it is past "native", and a binding that    *)
(* was inside its validity during the call once it is past "resolve".        *)
(***************************************************************************)
EXTENDS SubjectBinding, TLAPS

BinderKnows(c) ==
    /\ c.binding.native = c.native
    /\ c.binding.canonical = c.subject
    /\ OperationOf[c.native.body] = OperationOf[c.subject]

WindowMet(b, from, to) ==
    \E now \in from .. to : b.window.issued <= now /\ now < b.window.expires

VerifierKnows(c) ==
    /\ Reassembled(c.envelope)
    /\ c.native = Reconstructed(c.envelope)
    /\ c.binding = c.envelope.marker.binding
    /\ c.began <= clock
    /\ c.place \in {"resolve", "authority"} => c.native \in genuine
    /\ c.place = "authority" =>
          /\ c.binding.native = c.native
          /\ c.binding.canonical = c.envelope.subject
          /\ WindowMet(c.binding, c.began, clock)

IInv ==
    /\ TypeOK
    /\ \A b \in attested : about[b.native] = b.canonical
    /\ \A c \in binder : BinderKnows(c)
    /\ \A c \in verifier : VerifierKnows(c)
    /\ TrustedIsCorrelated
    /\ BoundIsReversible

LEMMA InitIInv == Init => IInv
BY ClockAssumption DEF Init, IInv, TypeOK, TrustedIsCorrelated, BoundIsReversible

LEMMA AttestIInv ==
    ASSUME IInv, NEW b \in Bindings, Attest(b)
    PROVE  IInv'
<1>1. TypeOK'
    BY DEF IInv, TypeOK, Attest
<1>2. (\A x \in attested : about[x.native] = x.canonical)'
    BY DEF IInv, Attest
<1>3. (\A c \in binder : BinderKnows(c))'
    BY DEF IInv, Attest, BinderKnows
<1>4. (\A c \in verifier : VerifierKnows(c))'
    BY DEF IInv, Attest, VerifierKnows
<1>5. TrustedIsCorrelated' /\ BoundIsReversible'
    BY DEF IInv, Attest, TrustedIsCorrelated, BoundIsReversible
<1> QED BY <1>1, <1>2, <1>3, <1>4, <1>5 DEF IInv

LEMMA TickIInv == ASSUME IInv, Tick PROVE IInv'
<1>1. clock' = clock + 1 /\ clock \in Nat /\ clock' \in 0 .. MaxClock
    BY ClockAssumption DEF IInv, TypeOK, Tick
<1>2. TypeOK'
    BY <1>1 DEF IInv, TypeOK, Tick, authority
<1>3. (\A c \in verifier : VerifierKnows(c))'
    <2> SUFFICES ASSUME NEW c \in verifier PROVE VerifierKnows(c)'
        BY DEF Tick
    <2>1. VerifierKnows(c) /\ c.began \in Nat
        BY DEF IInv, TypeOK, Verifiers
    <2>2. c.began <= clock'
        BY <1>1, <2>1 DEF VerifierKnows
    <2>3. WindowMet(c.binding, c.began, clock) => WindowMet(c.binding, c.began, clock')
        BY <1>1, <2>1 DEF WindowMet
    <2>4. genuine' = genuine
        BY DEF Tick, authority
    <2> QED BY <2>1, <2>2, <2>3, <2>4 DEF VerifierKnows, WindowMet
<1>4. (\A x \in attested : about[x.native] = x.canonical)'
    BY DEF IInv, Tick, authority
<1>5. (\A c \in binder : BinderKnows(c))'
    BY DEF IInv, Tick, BinderKnows
<1>6. TrustedIsCorrelated' /\ BoundIsReversible'
    BY DEF IInv, Tick, authority, TrustedIsCorrelated, BoundIsReversible
<1> QED BY <1>2, <1>3, <1>4, <1>5, <1>6 DEF IInv

(* Steps that only start, alter or end a call of the binder.                 *)
LEMMA BinderIInv ==
    ASSUME IInv, UNCHANGED <<clock, authority, verifier, bound, trusted>>,
           binder' \subseteq Binders, \A c \in binder' : BinderKnows(c)
    PROVE  IInv'
<1>1. TypeOK'
    BY DEF IInv, TypeOK, authority
<1>2. (\A x \in attested : about[x.native] = x.canonical)'
    BY DEF IInv, authority
<1>3. (\A c \in binder : BinderKnows(c))'
    BY DEF BinderKnows
<1>4. (\A c \in verifier : VerifierKnows(c))'
    BY DEF IInv, VerifierKnows, authority
<1>5. TrustedIsCorrelated' /\ BoundIsReversible'
    BY DEF IInv, authority, TrustedIsCorrelated, BoundIsReversible
<1> QED BY <1>1, <1>2, <1>3, <1>4, <1>5 DEF IInv

(* The same for the verifier.                                                *)
LEMMA VerifierIInv ==
    ASSUME IInv, UNCHANGED <<clock, authority, binder, bound, trusted>>,
           verifier' \subseteq Verifiers, \A c \in verifier' : VerifierKnows(c)
    PROVE  IInv'
<1>1. TypeOK'
    BY DEF IInv, TypeOK, authority
<1>2. (\A x \in attested : about[x.native] = x.canonical)'
    BY DEF IInv, authority
<1>3. (\A c \in binder : BinderKnows(c))'
    BY DEF IInv, BinderKnows
<1>4. (\A c \in verifier : VerifierKnows(c))'
    BY DEF VerifierKnows, authority
<1>5. TrustedIsCorrelated' /\ BoundIsReversible'
    BY DEF IInv, authority, TrustedIsCorrelated, BoundIsReversible
<1> QED BY <1>1, <1>2, <1>3, <1>4, <1>5 DEF IInv

LEMMA BindIInv ==
    ASSUME IInv, NEW n \in Natives, NEW m \in BOOLEAN, NEW s \in Subjects, NEW b \in Bindings,
           Bind(n, m, s, b)
    PROVE  IInv'
<1> DEFINE c == [native |-> n, live |-> n.body, marked |-> m, subject |-> s, binding |-> b]
<1>1. binder' = {c}
    BY DEF Bind
<1>2. c \in Binders
    BY DEF Binders, Natives
<1>3. BinderKnows(c)
    BY DEF Bind, ValidBinding, BinderKnows
<1> HIDE DEF c
<1> QED BY <1>1, <1>2, <1>3, BinderIInv DEF Bind

LEMMA AlterIInv ==
    ASSUME IInv, NEW body \in Bodies, Alter(body)
    PROVE  IInv'
<1> PICK c \in binder : binder' = {[c EXCEPT !.live = body]}
    BY DEF Alter
<1>1. c \in Binders /\ BinderKnows(c)
    BY DEF IInv, TypeOK
<1> DEFINE d == [c EXCEPT !.live = body]
<1>2. d \in Binders /\ d.native = c.native /\ d.subject = c.subject /\ d.binding = c.binding
    BY <1>1 DEF Binders
<1>3. BinderKnows(d)
    BY <1>1, <1>2 DEF BinderKnows
<1> HIDE DEF d
<1> QED BY <1>2, <1>3, BinderIInv DEF Alter, d

LEMMA BindReturnsIInv ==
    ASSUME IInv, NEW c \in binder, BindReturns(c)
    PROVE  IInv'
<1> DEFINE e == BoundEnvelope(c)
<1>1. c \in Binders /\ BinderKnows(c)
    BY DEF IInv, TypeOK
<1>2. c.native \in Natives /\ c.subject \in Subjects /\ c.binding \in Bindings
    BY <1>1 DEF Binders
<1>3. c.native = [body |-> c.native.body, subject |-> c.native.subject]
      /\ c.native.body \in Bodies /\ c.native.subject \in NativeSubjects
    BY <1>2 DEF Natives
<1>4. e.marker = [binding |-> c.binding, native |-> c.native, nativeSubject |-> c.native.subject]
      /\ e.body = c.native.body /\ e.subject = c.subject
    BY DEF BoundEnvelope, SnapshotBody
<1>5. e.marker \in Markers
    BY <1>2, <1>3, <1>4 DEF Markers
<1>6. e \in Envelopes
    BY <1>2, <1>3, <1>4, <1>5 DEF Envelopes, BoundEnvelope, SnapshotBody
<1>7. Reconstructed(e) = c.native
    BY <1>3, <1>4 DEF Reconstructed
<1>8. e.marker # NoMarker
    BY <1>5, NoMarkerAssumption
<1>9. Reassembled(e)
    BY <1>2, <1>4, <1>7, <1>8 DEF Reassembled
<1>10. about[c.native] = c.subject
    BY <1>1, <1>2 DEF BindReturns, Vouched, BinderKnows, IInv
<1>11. /\ e.marker.binding.native = Reconstructed(e)
       /\ e.marker.binding.canonical = e.subject
       /\ OperationOf[e.body] = OperationOf[e.subject]
       /\ about[Reconstructed(e)] = e.subject
    BY <1>1, <1>4, <1>7, <1>10 DEF BinderKnows
<1>12. bound' = bound \cup {e} /\ binder' = {}
    BY DEF BindReturns
<1> HIDE DEF e
<1>13. TypeOK'
    BY <1>6, <1>12 DEF IInv, TypeOK, BindReturns, authority
<1>14. BoundIsReversible'
    BY <1>9, <1>11, <1>12 DEF IInv, BoundIsReversible, BindReturns, authority
<1>15. (\A c0 \in verifier : VerifierKnows(c0))'
    BY DEF IInv, VerifierKnows, BindReturns, authority
<1>16. TrustedIsCorrelated' /\ (\A x \in attested : about[x.native] = x.canonical)'
    BY DEF IInv, TrustedIsCorrelated, BindReturns, authority
<1>17. (\A c0 \in binder : BinderKnows(c0))'
    BY <1>12
<1> QED BY <1>13, <1>14, <1>15, <1>16, <1>17 DEF IInv

LEMMA VerifyIInv ==
    ASSUME IInv, NEW e \in Envelopes, Verify(e)
    PROVE  IInv'
<1> DEFINE c == [place |-> "native", envelope |-> e, native |-> Reconstructed(e),
                 binding |-> e.marker.binding, began |-> clock]
<1>1. e.marker \in Markers
    BY DEF Verify, Reassembled, Envelopes
<1>2. e.marker.binding \in Bindings /\ Reconstructed(e) \in Natives
    BY <1>1 DEF Markers, Natives, Reconstructed, Envelopes
<1>3. clock \in 0 .. MaxClock /\ clock \in Int
    BY ClockAssumption DEF IInv, TypeOK
<1>4. c \in Verifiers
    BY <1>2, <1>3 DEF Verifiers
<1>5. VerifierKnows(c)
    BY <1>3 DEF Verify, VerifierKnows
<1>6. verifier' = {c}
    BY DEF Verify
<1> HIDE DEF c
<1> QED BY <1>4, <1>5, <1>6, VerifierIInv DEF Verify

LEMMA VerifyNativeIInv ==
    ASSUME IInv, NEW c \in verifier, VerifyNative(c)
    PROVE  IInv'
<1> DEFINE d == [c EXCEPT !.place = "resolve"]
<1>1. c \in Verifiers /\ VerifierKnows(c)
    BY DEF IInv, TypeOK
<1>2. /\ d \in Verifiers /\ d.envelope = c.envelope /\ d.native = c.native
      /\ d.binding = c.binding /\ d.began = c.began /\ d.place = "resolve"
    BY <1>1 DEF Verifiers
<1>3. VerifierKnows(d)
    BY <1>1, <1>2 DEF VerifierKnows, VerifyNative, NativeVerified
<1>4. verifier' = {d}
    BY DEF VerifyNative
<1> HIDE DEF d
<1> QED BY <1>2, <1>3, <1>4, VerifierIInv DEF VerifyNative

LEMMA ResolveIInv ==
    ASSUME IInv, NEW c \in verifier, NEW b \in Bindings, Resolve(c, b)
    PROVE  IInv'
<1> DEFINE d == [c EXCEPT !.place = "authority", !.binding = b]
<1>1. c \in Verifiers /\ VerifierKnows(c)
    BY DEF IInv, TypeOK
<1>2. /\ d \in Verifiers /\ d.envelope = c.envelope /\ d.native = c.native
      /\ d.binding = b /\ d.began = c.began /\ d.place = "authority"
    BY <1>1 DEF Verifiers
<1>3. c.began \in Int /\ clock \in Int /\ c.began <= clock
    BY <1>1, ClockAssumption DEF IInv, TypeOK, Verifiers, VerifierKnows
<1>4. InWindow(b, c.native, clock) /\ b.native = c.native /\ b.canonical = c.envelope.subject
    BY DEF Resolve, ValidBinding
<1>5. b.window.issued \in Int /\ b.window.expires \in Int
    BY WindowsAssumption DEF Bindings
<1>6. b.window.issued <= clock /\ clock < b.window.expires
    BY <1>3, <1>4, <1>5 DEF InWindow
<1>7. clock \in c.began .. clock
    BY <1>3
<1>8. WindowMet(b, c.began, clock)
    BY <1>6, <1>7 DEF WindowMet
<1>9. VerifierKnows(d)
    BY <1>1, <1>2, <1>4, <1>8 DEF VerifierKnows, Resolve
<1>10. verifier' = {d}
    BY DEF Resolve
<1> HIDE DEF d
<1> QED BY <1>2, <1>9, <1>10, VerifierIInv DEF Resolve

LEMMA VerifyReturnsIInv ==
    ASSUME IInv, NEW c \in verifier, VerifyReturns(c)
    PROVE  IInv'
<1> DEFINE t == [envelope |-> c.envelope, native |-> c.native, binding |-> c.binding,
                 began |-> c.began]
<1>1. c \in Verifiers /\ VerifierKnows(c) /\ c.place = "authority"
    BY DEF IInv, TypeOK, VerifyReturns
<1>2. t \in Trusted
    BY <1>1 DEF Verifiers, Trusted
<1>3. c.native \in genuine /\ c.native.body = c.envelope.body
    BY <1>1 DEF VerifierKnows, Reconstructed
<1>4. about[c.native] = c.envelope.subject
    BY <1>1 DEF VerifyReturns, Vouched, VerifierKnows, IInv
<1>5. trusted' = trusted \cup {t} /\ verifier' = {}
    BY DEF VerifyReturns
<1>6. t.native \in genuine /\ t.native.body = t.envelope.body /\ about[t.native] = t.envelope.subject
    BY <1>3, <1>4
<1> HIDE DEF t
<1>7. TypeOK'
    BY <1>2, <1>5 DEF IInv, TypeOK, VerifyReturns, authority
<1>8. TrustedIsCorrelated'
    BY <1>5, <1>6 DEF IInv, TrustedIsCorrelated, VerifyReturns, authority
<1>9. BoundIsReversible' /\ (\A x \in attested : about[x.native] = x.canonical)'
    BY DEF IInv, BoundIsReversible, VerifyReturns, authority
<1>10. (\A c0 \in binder : BinderKnows(c0))' /\ (\A c0 \in verifier : VerifierKnows(c0))'
    BY <1>5 DEF IInv, BinderKnows, VerifyReturns
<1> QED BY <1>7, <1>8, <1>9, <1>10 DEF IInv

LEMMA NextIInv == IInv /\ [Next]_vars => IInv'
<1> SUFFICES ASSUME IInv, [Next]_vars PROVE IInv'
    OBVIOUS
<1>1. CASE \E b \in Bindings : Attest(b)
    BY <1>1, AttestIInv
<1>2. CASE \E b \in attested : Withdraw(b)
    <2>1. PICK b \in attested : Withdraw(b)
        BY <1>2
    <2>2. TypeOK'
        BY <2>1 DEF IInv, TypeOK, Withdraw
    <2>3. (\A c \in verifier : VerifierKnows(c))' /\ (\A c \in binder : BinderKnows(c))'
        BY <2>1 DEF IInv, VerifierKnows, BinderKnows, Withdraw
    <2>4. TrustedIsCorrelated' /\ BoundIsReversible'
          /\ (\A x \in attested : about[x.native] = x.canonical)'
        BY <2>1 DEF IInv, TrustedIsCorrelated, BoundIsReversible, Withdraw
    <2> QED BY <2>2, <2>3, <2>4 DEF IInv
<1>3. CASE Tick
    BY <1>3, TickIInv
<1>4. CASE \E n \in Natives, m \in BOOLEAN, s \in Subjects, b \in Bindings : Bind(n, m, s, b)
    BY <1>4, BindIInv
<1>5. CASE \E body \in Bodies : Alter(body)
    BY <1>5, AlterIInv
<1>6. CASE \E c \in binder : BindReturns(c)
    BY <1>6, BindReturnsIInv
<1>7. CASE BindFails
    <2>1. binder' = {}
        BY <1>7 DEF BindFails
    <2> QED BY <1>7, <2>1, BinderIInv DEF BindFails
<1>8. CASE \E e \in Envelopes : Verify(e)
    BY <1>8, VerifyIInv
<1>9. CASE \E c \in verifier :
              VerifyNative(c) \/ VerifyReturns(c) \/ \E b \in Bindings : Resolve(c, b)
    BY <1>9, VerifyNativeIInv, VerifyReturnsIInv, ResolveIInv
<1>10. CASE VerifyFails
    <2>1. verifier' = {}
        BY <1>10 DEF VerifyFails
    <2> QED BY <1>10, <2>1, VerifierIInv DEF VerifyFails
<1>11. CASE UNCHANGED vars
    BY <1>11 DEF IInv, TypeOK, vars, BinderKnows, VerifierKnows, TrustedIsCorrelated,
                 BoundIsReversible
<1> QED BY <1>1, <1>2, <1>3, <1>4, <1>5, <1>6, <1>7, <1>8, <1>9, <1>10, <1>11 DEF Next

THEOREM Invariance == Spec => []IInv
BY InitIInv, NextIInv, PTL DEF Spec

(* State is well typed.                                                      *)
THEOREM TypeCorrect == Spec => []TypeOK
<1>1. IInv => TypeOK
    BY DEF IInv
<1> QED BY <1>1, Invariance, PTL

(* What the trust verifier accepts is genuine and about the subject it names. *)
THEOREM TrustedCorrelated == Spec => []TrustedIsCorrelated
<1>1. IInv => TrustedIsCorrelated
    BY DEF IInv
<1> QED BY <1>1, Invariance, PTL

(* What the binder returns can be taken apart into what was bound.           *)
THEOREM BoundReversible == Spec => []BoundIsReversible
<1>1. IInv => BoundIsReversible
    BY DEF IInv
<1> QED BY <1>1, Invariance, PTL

(* An acceptance rests on a binding vouched for, valid during the call.      *)
THEOREM AcceptanceCurrent == Spec => AcceptanceIsCurrent
<1>1. IInv /\ [Next]_vars =>
        [\A t \in trusted' \ trusted :
            /\ t.binding \in attested \ withdrawn
            /\ t.binding = t.envelope.marker.binding
            /\ \E now \in t.began .. clock :
                  t.binding.window.issued <= now /\ now < t.binding.window.expires]_vars
    <2> SUFFICES ASSUME IInv, Next, NEW t \in trusted' \ trusted
                 PROVE  /\ t.binding \in attested \ withdrawn
                        /\ t.binding = t.envelope.marker.binding
                        /\ WindowMet(t.binding, t.began, clock)
        BY DEF WindowMet
    <2>1. PICK c \in verifier : VerifyReturns(c)
        BY DEF Next, Attest, Withdraw, Tick, Bind, Alter, BindReturns, BindFails, Verify,
               VerifyNative, Resolve, VerifyFails
    <2>2. t = [envelope |-> c.envelope, native |-> c.native, binding |-> c.binding,
               began |-> c.began]
        BY <2>1 DEF VerifyReturns
    <2>3. VerifierKnows(c) /\ c.place = "authority"
        BY <2>1 DEF IInv, VerifyReturns
    <2> QED BY <2>1, <2>2, <2>3 DEF VerifyReturns, Vouched, VerifierKnows
<1> QED BY <1>1, Invariance, PTL DEF Spec, AcceptanceIsCurrent
=============================================================================
