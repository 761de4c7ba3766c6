------------------------------- MODULE MCSidecar -------------------------------
(* The body loop by each of its readers.  For the sidecar it is part of a       *)
(* request with its answer; the requests of the gateway are AttestedGateway's.   *)
(* VERIFIED documents never verify, expire between two instants or outlast the   *)
(* run; of the REJECTED ones one verifies at first and one only later.           *)
EXTENDS Sidecar

Junk(form) == [form |-> form, decision |-> "REJECTED", valid |-> {}]
Proof(decision, valid) == [form |-> "proof", decision |-> decision, valid |-> valid]

MCDocuments ==
    {Junk("not_json"), Junk("misshaped"), Proof("REJECTED", {0}), Proof("REJECTED", 1 .. MaxClock)}
    \cup {Proof("VERIFIED", 0 .. last) : last \in -1 .. MaxClock}

aside == <<request, clock, arrived, assessment, answer>>

MCNext ==
    \/ reader = "sidecar" /\ Next
    \/ reader # "sidecar" /\ ReadStep /\ UNCHANGED aside

Advance ==
    \/ reader = "sidecar" /\ Progress
    \/ reader # "sidecar" /\ ReadProgress /\ UNCHANGED aside

MCInit ==
    /\ Init
    /\ reader # "sidecar" =>
         ~ registry /\ ~ requireTrust /\ plainJson /\ document = Junk("not_json")

MCSpec == MCInit /\ [][MCNext]_vars /\ WF_vars(Advance)

(* A peer that goes on sending, however much and in whatever pieces, is read to   *)
(* a decision, and each such request to the sidecar gets its answer.             *)
Answered == <>(IF reader = "sidecar" THEN answer # NoAnswer ELSE Decided)
=============================================================================
