---------------------------- MODULE SubjectBinding ----------------------------
(***************************************************************************)
(* subject_binding.py: native evidence is about a native subject; a binding  *)
(* that an authority vouches for lets it stand for a canonical one.          *)
(* bind_evidence_to_subject writes the bound evidence, the verifier made by   *)
(* make_subject_bound_trust_verifier takes it apart again, and both call out  *)
(* (to the native verifier, the resolver, the authority) in between.         *)
(*                                                                           *)
(* A digest of an object is the object.  A body is everything of an envelope  *)
(* but its subject digest and the marker in its metadata.                    *)
(***************************************************************************)
EXTENDS Integers, FiniteSets

CONSTANTS
    Bodies,          \* what native envelopes say
    IssuedAt,        \* [Bodies -> instants]
    OperationOf,     \* [Bodies \cup Subjects -> operations]
    NativeSubjects,  \* subject digests of providers
    Subjects,        \* canonical subjects
    Windows,         \* issue and expiry instants of bindings
    NoMarker,        \* metadata without operationproof_subject_binding
    MaxClock,        \* bound: last instant
    MaxAttested,     \* bound: bindings the authority attests
    MaxCalls,        \* bound: calls at a time, of the binder and the verifier
    MaxResults       \* bound: results kept

ASSUME ClockAssumption == MaxClock \in Nat
ASSUME WindowsAssumption == Windows \subseteq [issued : Nat, expires : Nat]

Natives == [body : Bodies, subject : NativeSubjects]

\* operation_id, layer, provider and native_subject_digest repeat the native envelope's.
Bindings == [native : Natives, canonical : Subjects, window : Windows]

Markers == [binding : Bindings, native : Natives, nativeSubject : NativeSubjects]

Envelopes ==
    [body : Bodies, subject : NativeSubjects \cup Subjects, marker : Markers \cup {NoMarker}]

ASSUME NoMarkerAssumption == NoMarker \notin Markers

VARIABLES
    clock,
    about,      \* [Natives -> Subjects \cup {"nothing"}]: what native evidence really is about
    genuine,    \* native envelopes their provider issued
    attested,   \* bindings the authority has attested
    withdrawn,  \* those it has withdrawn since
    binder,     \* call of bind_evidence_to_subject, a set of at most one
    verifier,   \* call of the trust verifier, a set of at most one
    bound,      \* evidence the binder has returned
    trusted     \* evidence the verifier has accepted, and for which binding

vars == <<clock, about, genuine, attested, withdrawn, binder, verifier, bound, trusted>>

authority == <<about, genuine, attested, withdrawn>>

Binders ==
    [native : Natives, live : Bodies, marked : BOOLEAN, subject : Subjects, binding : Bindings]

Verifiers ==
    [place : {"native", "resolve", "authority"}, envelope : Envelopes, native : Natives,
     binding : Bindings, began : 0 .. MaxClock]

Trusted == [envelope : Envelopes, native : Natives, binding : Bindings, began : 0 .. MaxClock]

TypeOK ==
    /\ clock \in 0 .. MaxClock
    /\ about \in [Natives -> Subjects \cup {"nothing"}]
    /\ genuine \subseteq Natives
    /\ attested \subseteq Bindings
    /\ withdrawn \subseteq attested
    /\ binder \subseteq Binders
    /\ verifier \subseteq Verifiers
    /\ bound \subseteq Envelopes
    /\ trusted \subseteq Trusted

Init ==
    /\ clock = 0
    /\ about \in [Natives -> Subjects \cup {"nothing"}]
    /\ genuine \in SUBSET Natives
    /\ attested = {}
    /\ withdrawn = {}
    /\ binder = {}
    /\ verifier = {}
    /\ bound = {}
    /\ trusted = {}

-----------------------------------------------------------------------------
(* The authority attests only correlations that are so, and may withdraw one. *)
Attest(b) ==
    /\ Cardinality(attested) < MaxAttested
    /\ about[b.native] = b.canonical
    /\ attested' = attested \cup {b}
    /\ UNCHANGED <<clock, about, genuine, withdrawn, binder, verifier, bound, trusted>>

Withdraw(b) ==
    /\ withdrawn' = withdrawn \cup {b}
    /\ UNCHANGED <<clock, about, genuine, attested, binder, verifier, bound, trusted>>

Tick ==
    /\ clock < MaxClock
    /\ clock' = clock + 1
    /\ UNCHANGED <<authority, binder, verifier, bound, trusted>>

HasRoom == Cardinality(binder) + Cardinality(verifier) < MaxCalls

Keeps == Cardinality(bound) + Cardinality(trusted) < MaxResults

EverVouched(b) == b \in attested

Vouched(b) == b \in attested \ withdrawn

-----------------------------------------------------------------------------
(* _validate_binding                                                          *)
InWindow(b, native, now) ==
    /\ b.window.issued >= IssuedAt[native.body]
    /\ b.window.expires > b.window.issued
    /\ b.window.issued <= now
    /\ b.window.expires > now

ValidForNative(b, native, canonical, now) ==
    b.native = native /\ InWindow(b, native, now)

ValidWithoutTime(b, native, canonical, now) ==
    b.native = native /\ b.canonical = canonical

ValidBinding(b, native, canonical, now) ==
    /\ b.native = native
    /\ b.canonical = canonical
    /\ InWindow(b, native, now)

\* bind_evidence_to_subject up to the authority; a refusal changes nothing.  An
\* envelope that carries a marker already is refused only after the authority's answer.
Bind(native, marked, subject, b) ==
    /\ binder = {} /\ HasRoom
    /\ OperationOf[native.body] = OperationOf[subject]
    /\ ValidBinding(b, native, subject, clock)
    /\ binder' = {[native |-> native, live |-> native.body, marked |-> marked,
                   subject |-> subject, binding |-> b]}
    /\ UNCHANGED <<clock, authority, verifier, bound, trusted>>

\* The caller's envelope is frozen, but not what its metadata refers to.
Alter(body) ==
    /\ \E c \in binder : binder' = {[c EXCEPT !.live = body]}
    /\ UNCHANGED <<clock, authority, verifier, bound, trusted>>

LiveBody(c) == c.live

SnapshotBody(c) == c.native.body

BoundEnvelope(c) ==
    [body    |-> SnapshotBody(c),
     subject |-> c.subject,
     marker  |-> [binding |-> c.binding, native |-> c.native,
                  nativeSubject |-> c.native.subject]]

BindReturns(c) ==
    /\ Vouched(c.binding)
    /\ ~ c.marked
    /\ Keeps
    /\ bound' = bound \cup {BoundEnvelope(c)}
    /\ binder' = {}
    /\ UNCHANGED <<clock, authority, verifier, trusted>>

BindFails ==
    /\ binder # {}
    /\ binder' = {}
    /\ UNCHANGED <<clock, authority, verifier, bound, trusted>>

-----------------------------------------------------------------------------
(* The trust verifier: the native envelope is put together again from what    *)
(* the bound one carries.                                                     *)
Reconstructed(e) == [body |-> e.body, subject |-> e.marker.nativeSubject]

Reassembled(e) ==
    /\ e.marker # NoMarker
    /\ e.marker.native = Reconstructed(e)

Verify(e) ==
    /\ verifier = {} /\ HasRoom
    /\ Reassembled(e)
    /\ verifier' = {[place |-> "native", envelope |-> e, native |-> Reconstructed(e),
                     binding |-> e.marker.binding, began |-> clock]}
    /\ UNCHANGED <<clock, authority, binder, bound, trusted>>

NativeSkipped(c) == TRUE

NativeVerified(c) == c.native \in genuine

\* The native verifier says True; it may also refuse what is genuine (VerifyFails).
VerifyNative(c) ==
    /\ c.place = "native"
    /\ NativeVerified(c)
    /\ verifier' = {[c EXCEPT !.place = "resolve"]}
    /\ UNCHANGED <<clock, authority, binder, bound, trusted>>

\* The resolver may return any binding for the digest it is asked for.
Resolve(c, b) ==
    /\ c.place = "resolve"
    /\ ValidBinding(b, c.native, c.envelope.subject, clock)
    /\ b = c.envelope.marker.binding
    /\ verifier' = {[c EXCEPT !.place = "authority", !.binding = b]}
    /\ UNCHANGED <<clock, authority, binder, bound, trusted>>

VerifyReturns(c) ==
    /\ c.place = "authority"
    /\ Vouched(c.binding)
    /\ Keeps
    /\ trusted' = trusted \cup {[envelope |-> c.envelope, native |-> c.native,
                                 binding |-> c.binding, began |-> c.began]}
    /\ verifier' = {}
    /\ UNCHANGED <<clock, authority, binder, bound>>

\* Any other answer, at any place, and any exception is False.
VerifyFails ==
    /\ verifier # {}
    /\ verifier' = {}
    /\ UNCHANGED <<clock, authority, binder, bound, trusted>>

Next ==
    \/ \E b \in Bindings : Attest(b)
    \/ \E b \in attested : Withdraw(b)
    \/ Tick
    \/ \E n \in Natives, m \in BOOLEAN, s \in Subjects, b \in Bindings : Bind(n, m, s, b)
    \/ \E body \in Bodies : Alter(body)
    \/ \E c \in binder : BindReturns(c)
    \/ BindFails
    \/ \E e \in Envelopes : Verify(e)
    \/ \E c \in verifier : VerifyNative(c) \/ VerifyReturns(c) \/ \E b \in Bindings : Resolve(c, b)
    \/ VerifyFails

Spec == Init /\ [][Next]_vars

-----------------------------------------------------------------------------
(* Accepted evidence is what its provider issued, changed in nothing but its  *)
(* subject digest, and really is about the canonical subject it now names:    *)
(* whatever document was presented, whatever the resolver returned.           *)
TrustedIsCorrelated ==
    \A t \in trusted :
        /\ t.native \in genuine
        /\ t.native.body = t.envelope.body
        /\ about[t.native] = t.envelope.subject

(* The bridge loses nothing: bound evidence can be taken apart again into the *)
(* very envelope that was bound, with the binding that correlates it, even    *)
(* though the caller's metadata may change while the authority is asked.      *)
BoundIsReversible ==
    \A e \in bound :
        /\ Reassembled(e)
        /\ e.marker.binding.native = Reconstructed(e)
        /\ e.marker.binding.canonical = e.subject
        /\ OperationOf[e.body] = OperationOf[e.subject]
        /\ about[Reconstructed(e)] = e.subject

(* Each acceptance rests on a binding the authority vouches for at its end,   *)
(* and that was inside its validity at some instant of the call.  The clock   *)
(* is read before the authority is asked, so more than that is not promised.  *)
AcceptanceIsCurrent ==
    [][\A t \in trusted' \ trusted :
          /\ t.binding \in attested \ withdrawn
          /\ t.binding = t.envelope.marker.binding
          /\ \E now \in t.began .. clock :
                t.binding.window.issued <= now /\ now < t.binding.window.expires]_vars
=============================================================================
