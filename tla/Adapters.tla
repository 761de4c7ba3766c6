------------------------------- MODULE Adapters -------------------------------
(***************************************************************************)
(* The two adapters whose evidence is about the course of an operation:     *)
(* CASER's reports on its execution and HOWEDO's decisions to continue it.  *)
(* Their calls have no state in common: each asks an authority of its own   *)
(* about documents of its own.  They share the clock bound and the number   *)
(* of bindings an authority attests.                                        *)
(***************************************************************************)
EXTENDS CaserExecution

CONSTANTS
    Operations,
    Snapshots,
    About,        \* [Snapshots -> Operations], what a snapshot is a snapshot of
    Reasons,      \* sorted tuples of reason codes
    MaxWitnesses  \* bound: decisions HOWEDO takes

\* The attestation authority assigns every snapshot to one operation.
ASSUME AboutAssumption == About \in [Snapshots -> Operations]

VARIABLES
    decided,    \* statements HOWEDO has made
    bindings,   \* bindings its authority has attested
    revoked,    \* those it has withdrawn since
    adapting,   \* the call of HowedoWitnessAdapter.adapt in progress, if any
    continuity  \* evidence it has returned

howedo == <<decided, bindings, revoked, adapting, continuity>>

Howedo == INSTANCE HowedoWitness WITH
    attested <- bindings, withdrawn <- revoked, call <- adapting, emitted <- continuity

(* See HowedoWitness: continuity evidence repeats a decision that HOWEDO took *)
(* about that very operation (adapters/howedo.py).                            *)
EvidenceIsDecision == Howedo!EvidenceIsDecision
===============================================================================
