---------------------------- MODULE HowedoWitness ----------------------------
(***************************************************************************)
(* HowedoWitnessAdapter.adapt with its surroundings.  HOWEDO decides on      *)
(* snapshots and hands out witnesses of its decisions; an authority binds     *)
(* witnesses to operations for a time; whoever carries both documents may     *)
(* edit them, mix them, and alter the originals while the authority is asked. *)
(* A digest is modelled by the content it is computed over.                   *)
(***************************************************************************)
EXTENDS Integers, FiniteSets

CONSTANTS
    Operations,
    Snapshots,
    About,        \* [Snapshots -> Operations], what a snapshot is a snapshot of
    Reasons,      \* sorted tuples of reason codes
    MaxClock,     \* bound: last instant of a window
    MaxWitnesses, \* bound: decisions HOWEDO takes
    MaxBindings   \* bound: bindings the authority attests

Actions == {"CONTINUE", "PAUSE", "REVALIDATE", "ABORT", "RECOVER"}

\* What a witness says, and what witness_digest is computed over.
Statement == [snapshot : Snapshots, action : Actions, reasons : Reasons]

\* action is whatever the document holds; OTHER stands for a word HOWEDO never uses.
Document ==
    [snapshot : Snapshots, action : Actions \cup {"OTHER"}, reasons : Reasons,
     witness_digest : Statement]

Window == [issued : 0 .. MaxClock, expires : 0 .. MaxClock]

Binding ==
    [operation : Operations, snapshot : Snapshots, witness_digest : Statement, window : Window]

Evidence ==
    [operation : Operations, snapshot : Snapshots, decision : Actions,
     verdict : {"PASS", "FAIL"}, binding : Binding]

\* document is the adapter's snapshot, live the caller's own object.
Call == [operation : Operations, document : Document, live : Document, binding : Binding]

VARIABLES
    decided,    \* statements HOWEDO has made
    attested,   \* bindings the authority has attested
    withdrawn,  \* those it has withdrawn since
    call,       \* the call of adapt in progress, if any: a set of at most one
    emitted     \* evidence adapt has returned

vars == <<decided, attested, withdrawn, call, emitted>>

Init ==
    /\ decided = {}
    /\ attested = {}
    /\ withdrawn = {}
    /\ call = {}
    /\ emitted = {}

-----------------------------------------------------------------------------
Decide(s) ==
    /\ Cardinality(decided) < MaxWitnesses
    /\ decided' = decided \cup {s}
    /\ UNCHANGED <<attested, withdrawn, call, emitted>>

\* The authority knows HOWEDO's decisions and which operation a snapshot is about.
Attest(s, w) ==
    /\ Cardinality(attested) < MaxBindings
    /\ s \in decided
    /\ attested' = attested \cup
          {[operation |-> About[s.snapshot], snapshot |-> s.snapshot,
            witness_digest |-> s, window |-> w]}
    /\ UNCHANGED <<decided, withdrawn, call, emitted>>

Withdraw(b) ==
    /\ withdrawn' = withdrawn \cup {b}
    /\ UNCHANGED <<decided, attested, call, emitted>>

-----------------------------------------------------------------------------
Content(d) == [snapshot |-> d.snapshot, action |-> d.action, reasons |-> d.reasons]

WitnessUnhashed(d) == d.action \in Actions

WitnessValid(d) ==
    /\ d.action \in Actions
    /\ d.witness_digest = Content(d)

BoundToSnapshot(o, d, b) ==
    /\ b.snapshot = d.snapshot
    /\ b.witness_digest = d.witness_digest

BoundToOperation(o, d, b) ==
    /\ b.operation = o
    /\ b.snapshot = d.snapshot

BindingMatches(o, d, b) ==
    /\ b.operation = o
    /\ b.snapshot = d.snapshot
    /\ b.witness_digest = d.witness_digest

WindowOpen(w) == w.expires > w.issued

Acceptable(o, d, b) ==
    /\ WitnessValid(d)
    /\ BindingMatches(o, d, b)
    /\ WindowOpen(b.window)

\* Otherwise HowedoWitnessError, and nothing has happened.
Adapt(o, d, b) ==
    /\ call = {}
    /\ Acceptable(o, d, b)
    /\ call' = {[operation |-> o, document |-> d, live |-> d, binding |-> b]}
    /\ UNCHANGED <<decided, attested, withdrawn, emitted>>

\* The caller, or the callback itself, alters the caller's witness.
Alter(d) ==
    /\ \E c \in call : call' = {[c EXCEPT !.live = d]}
    /\ UNCHANGED <<decided, attested, withdrawn, emitted>>

VerdictLenient(action) == IF action = "ABORT" THEN "FAIL" ELSE "PASS"

Verdict(action) == IF action = "CONTINUE" THEN "PASS" ELSE "FAIL"

LiveDocument(c) == c.live

SnapshotDocument(c) == c.document

Envelope(c) ==
    [operation |-> c.operation,
     snapshot  |-> SnapshotDocument(c).snapshot,
     decision  |-> SnapshotDocument(c).action,
     verdict   |-> Verdict(SnapshotDocument(c).action),
     binding   |-> c.binding]

EverVouched(b) == b \in attested

Vouched(b) == b \in attested \ withdrawn

\* The authority answers True for the binding it is shown.
Emit(c) ==
    /\ Vouched(c.binding)
    /\ call' = {}
    /\ emitted' = emitted \cup {Envelope(c)}
    /\ UNCHANGED <<decided, attested, withdrawn>>

\* It answers anything else, or raises, whether or not it attested the binding.
Distrust ==
    /\ call # {}
    /\ call' = {}
    /\ UNCHANGED <<decided, attested, withdrawn, emitted>>

\* Documents in circulation: HOWEDO's own, and any edit that keeps or recomputes the digest.
Circulating ==
    {d \in Document : d.witness_digest \in decided \/ d.witness_digest = Content(d)}

Next ==
    \/ \E s \in Statement : Decide(s)
    \/ \E s \in decided, w \in Window : Attest(s, w)
    \/ \E b \in attested : Withdraw(b)
    \/ \E d \in Circulating, b \in attested, o \in Operations, w \in Window :
          \/ Adapt(o, d, b)
          \/ Adapt(o, d, [b EXCEPT !.operation = o, !.window = w])
          \/ Adapt(o, d, [b EXCEPT !.witness_digest = d.witness_digest])
    \/ \E d \in Circulating : Alter(d)
    \/ \E c \in call : Emit(c)
    \/ Distrust

Spec == Init /\ [][Next]_vars

-----------------------------------------------------------------------------
(* Continuity evidence repeats a decision HOWEDO took about a snapshot of     *)
(* that very operation: not one of another operation, not an edited one, and  *)
(* not what the caller's document said by the time the authority had          *)
(* answered.  Its window is one the authority gave to this decision, and it    *)
(* passes only for CONTINUE: every other action fails this layer.             *)
EvidenceIsDecision ==
    \A e \in emitted :
        /\ About[e.snapshot] = e.operation
        /\ e.binding \in attested
        /\ \E s \in decided :
              /\ s.snapshot = e.snapshot
              /\ s.action = e.decision
              /\ e.verdict = "PASS" <=> s.action = "CONTINUE"
              /\ e.binding.witness_digest = s
=============================================================================
