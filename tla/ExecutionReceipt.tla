--------------------------- MODULE ExecutionReceipt ---------------------------
(***************************************************************************)
(* execution.py: the vendor-neutral receipt, built and verified.  A receipt  *)
(* is a record; wellFormed stands for schema, field types and digest formats, *)
(* intact for a receipt_digest that is the digest of the rest.               *)
(***************************************************************************)
EXTENDS Integers

NoExpiry == -1

Effects  == {"READ_ONLY", "MUTATING", "UNKNOWN"}
Outcomes == {"SUCCEEDED", "FAILED", "UNKNOWN"}

Receipt(fields, wellFormed, intact) ==
    [fields |-> fields, wellFormed |-> wellFormed, intact |-> intact]

MalformedReceipt(receipt) ==
    \/ ~ receipt.wellFormed
    \/ receipt.fields.effect \notin Effects
    \/ receipt.fields.outcome \notin Outcomes

Overdue(receipt, now) ==
    receipt.fields.expires # NoExpiry /\ receipt.fields.expires <= now

ExpiryOutOfOrder(receipt) ==
    receipt.fields.expires # NoExpiry /\ receipt.fields.expires <= receipt.fields.issued

UnverifiedClaim(receipt) ==
    receipt.fields.outcome \in {"SUCCEEDED", "FAILED"} /\ ~ receipt.fields.outcomeVerified

VerifyExecutionReceipt(receipt, now) ==
    {r \in {"MALFORMED", "EXPIRED", "EXPIRY_ORDER", "UNVERIFIED_OUTCOME_CLAIM", "DIGEST_MISMATCH"} :
        \/ r = "MALFORMED" /\ MalformedReceipt(receipt)
        \/ r = "EXPIRED" /\ Overdue(receipt, now)
        \/ r = "EXPIRY_ORDER" /\ ExpiryOutOfOrder(receipt)
        \/ r = "UNVERIFIED_OUTCOME_CLAIM" /\ UnverifiedClaim(receipt)
        \/ r = "DIGEST_MISMATCH" /\ receipt.wellFormed /\ ~ receipt.intact}

ValidReceipt(receipt, now) == VerifyExecutionReceipt(receipt, now) = {}

\* build_execution_receipt raises ValueError where this is FALSE, for the clock it reads.
Buildable(fields, now) == ValidReceipt(Receipt(fields, TRUE, TRUE), now)
=============================================================================
