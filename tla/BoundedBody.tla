----------------------------- MODULE BoundedBody -----------------------------
(***************************************************************************)
(* The loop that reads a body chunk by chunk under a limit.  It exists three *)
(* times: for the gateway's requests, for the sidecar's, and for the answer  *)
(* of the upstream, which comes without the checks of a declared length.     *)
(***************************************************************************)
EXTENDS Integers, Sequences

CONSTANTS
    Limit,      \* max_proof_bytes, max_proxy_body_bytes, max_body_bytes, ...
    Readers,    \* subset of {"gateway", "sidecar", "upstream"}
    MaxTotal,   \* bound: bytes the peer sends altogether
    MaxChunk,   \* bound: bytes of one chunk
    MaxHeaders  \* bound: content-length lines of a request

ASSUME LimitAssumption == Limit \in Nat \ {0}
ASSUME BoundsAssumption == {MaxTotal, MaxChunk, MaxHeaders} \subseteq Nat

VARIABLES
    reader,   \* who reads
    lengths,  \* values of the content-length lines, -1 for one that is no decimal number
    total,    \* bytes the peer will send
    sent,     \* bytes taken from the stream
    body,     \* bytes kept
    place     \* "start", "reading", "read", or the reason of a refusal

bodyVars == <<reader, lengths, total, sent, body, place>>

Reasons == {"INVALID_CONTENT_LENGTH", "TOO_LARGE", "READ_FAILED", "CONTENT_LENGTH_MISMATCH"}

BodyTypeOK ==
    /\ reader \in Readers
    /\ lengths \in Seq(Nat \cup {-1})
    /\ total \in Nat
    /\ sent \in 0 .. total
    /\ body \in 0 .. total
    /\ place \in {"start", "reading", "read"} \cup Reasons

BodyInit ==
    /\ reader \in Readers
    /\ lengths \in UNION {[1 .. n -> -1 .. MaxTotal] : n \in 0 .. MaxHeaders}
    /\ reader = "upstream" => lengths = <<>>
    /\ total \in 0 .. MaxTotal
    /\ sent = 0
    /\ body = 0
    /\ place = "start"

-----------------------------------------------------------------------------
(* The gateway wants a single line, the sidecar reads the first one.         *)
ValidLengths ==
    /\ reader = "gateway" => Len(lengths) <= 1
    /\ lengths # <<>> => lengths[1] # -1

DeclaredTooLarge == lengths # <<>> /\ lengths[1] > Limit

Start ==
    /\ place = "start"
    /\ place' = IF ~ ValidLengths THEN "INVALID_CONTENT_LENGTH"
                ELSE IF DeclaredTooLarge THEN "TOO_LARGE"
                ELSE "reading"
    /\ UNCHANGED <<reader, lengths, total, sent, body>>

FitsBefore(n) == body <= Limit

FitsDeclared(n) == IF lengths = <<>> THEN body + n <= Limit ELSE TRUE

Fits(n) == body + n <= Limit

Chunk(n) ==
    /\ place = "reading"
    /\ sent + n <= total
    /\ sent' = sent + n
    /\ IF Fits(n)
       THEN body' = body + n /\ UNCHANGED place
       ELSE place' = "TOO_LARGE" /\ UNCHANGED body
    /\ UNCHANGED <<reader, lengths, total>>

MatchesAtMost == lengths # <<>> => body <= lengths[1]

Matches == lengths # <<>> => body = lengths[1]

\* Waits for the bytes that were declared.
EndOfStreamWaiting ==
    /\ place = "reading"
    /\ sent = total
    /\ Matches
    /\ place' = "read"
    /\ UNCHANGED <<reader, lengths, total, sent, body>>

EndOfStream ==
    /\ place = "reading"
    /\ sent = total
    /\ place' = IF Matches THEN "read" ELSE "CONTENT_LENGTH_MISMATCH"
    /\ UNCHANGED <<reader, lengths, total, sent, body>>

\* The peer is gone: ClientDisconnect, or httpx.HTTPError for the upstream.
Broken ==
    /\ place = "reading"
    /\ place' = "READ_FAILED"
    /\ UNCHANGED <<reader, lengths, total, sent, body>>

ReadStep ==
    \/ Start
    \/ \E n \in 0 .. MaxChunk : Chunk(n)
    \/ EndOfStream
    \/ Broken

BodySpec == BodyInit /\ [][ReadStep]_bodyVars

\* A step that gets further, of a peer that goes on; no breakdown comes to help.
ReadProgress ==
    \/ Start
    \/ \E n \in 1 .. MaxChunk : Chunk(n)
    \/ EndOfStream

-----------------------------------------------------------------------------
Decided == place \notin {"start", "reading"}

(* What a request deserves, from the whole of it and not from its chunks.    *)
Deserved ==
    IF ~ ValidLengths THEN "INVALID_CONTENT_LENGTH"
    ELSE IF DeclaredTooLarge \/ total > Limit THEN "TOO_LARGE"
    ELSE IF lengths # <<>> /\ lengths[1] # total THEN "CONTENT_LENGTH_MISMATCH"
    ELSE "read"

(* With or without a declared length, truthful or not, no more than Limit    *)
(* bytes are ever held, and once more have been taken reading has stopped.   *)
NeverOverLimit == body <= Limit /\ (sent > Limit => place = "TOO_LARGE")

(* How a stream is cut into chunks decides nothing: unless the peer goes     *)
(* away, the outcome is the one the whole stream deserves, and what is handed *)
(* on is the whole stream.                                                   *)
ChunkingIrrelevant ==
    /\ Decided /\ place # "READ_FAILED" => place = Deserved
    /\ place = "read" => body = total
=============================================================================
