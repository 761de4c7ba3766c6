------------------------------ MODULE MCAdmission ------------------------------
(* An admission is a record in the store and an expiry computed for it.  The  *)
(* two share no variable, so that a reachable state of the pair is a pair of   *)
(* reachable states, and each property reads one of them: a behaviour runs     *)
(* one part and leaves the other at rest.                                      *)
(*                                                                             *)
(* The store: three operations, three proofs and three tokens against a        *)
(* capacity of two, so that replays of each kind, a full store and the second  *)
(* draw of a consumed token all occur; targets and times do not influence it.  *)
(* The expiry: binary digits, a clock of quarter seconds whose isoformat keeps *)
(* halves, and a leap second before POSIX second 2.                            *)
EXTENDS AdmissionStore, AdmissionExpiry

VARIABLE part

allVars == <<part, vars, expiryVars>>

Fractions == UNION {[1 .. n -> {0, 1}] : n \in 0 .. 3}

MCTexts ==
    {[base |-> b, sixty |-> s, fraction |-> f] : b \in {0}, s \in {TRUE}, f \in {<<>>}}
    \cup {[base |-> b, sixty |-> FALSE, fraction |-> f] : b \in 0 .. 2, f \in Fractions}
    \cup {[base |-> 1, sixty |-> TRUE, fraction |-> f] : f \in Fractions}
    \cup {Malformed}

MCInit == part \in {"store", "expiry"} /\ Init /\ ExpiryInit

MCNext ==
    /\ UNCHANGED part
    /\ \/ part = "store" /\ Next /\ UNCHANGED expiryVars
       \/ part = "expiry" /\ ExpiryNext /\ UNCHANGED vars

MCSpec == MCInit /\ [][MCNext]_allVars
=============================================================================
