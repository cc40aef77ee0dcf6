-------------------------------- MODULE Ranges --------------------------------
(***************************************************************************)
(* Byte-range conversion of src/data_server/utils/ranges.rs: an S3 Range   *)
(* header (inclusive on the wire) is turned into the ArunaRange handed to  *)
(* the backend, which is half-open, and into the response's content        *)
(* length.  The operators are checked against the byte set RFC 7233       *)
(* selects for the same header.                                            *)
(*                                                                         *)
(* u64 arithmetic is kept at Width bits.  Overflow wraps in a release      *)
(* build and panics in a debug build, so an overflowing operation has two  *)
(* outcomes.  The footer branch of calculate_ranges calls aruna_file's     *)
(* FooterParser, which is not part of this repository, and is left out.    *)
(***************************************************************************)
EXTENDS Integers

CONSTANTS
    Width,     \* bits of a u64
    MaxLen     \* content lengths 0 .. MaxLen

Word == 0 .. 2^Width - 1
\* A value no u64 takes: the thread panicked.
Panic == -1

\* s3s::dto::Range as the s3s parser delivers it: Int { first, last } with
\* last = Some(..) ("int", first <= last) or None ("from"), and Suffix.
S3Ranges ==
    {r \in [kind : {"int"}, first : Word, last : Word] : r.first <= r.last} \cup
    [kind : {"from"}, first : Word] \cup
    [kind : {"suffix"}, length : Word]

\* u64 subtraction and increment: the result, or a panic on overflow.
SubU64(a, b) == IF a >= b THEN {a - b} ELSE {a + 2^Width - b, Panic}
IncU64(a) == IF a + 1 < 2^Width THEN {a + 1} ELSE {0, Panic}

\* `as i64` of a u64.
AsI64(x) == IF x < 2^(Width - 1) THEN x ELSE x - 2^Width

Range(f, t) == [from |-> f, to |-> t]

\* aruna_range_from_s3range: the possible outcomes.
ArunaRangeFromS3Range(r, len) ==
    IF r.kind = "suffix"
    THEN {Range(d, len) : d \in SubU64(len, r.length)}
    ELSE IF r.kind = "from" THEN {Range(r.first, len)}
    ELSE {Range(r.first, r.last)}

\* A calculate_ranges that keeps the inclusive end (no `+= 1`).
CalculateRangesNoInc(r, len) == ArunaRangeFromS3Range(r, len)

\* calculate_ranges without a footer: `ar_range.to += 1`.
CalculateRanges(r, len) ==
    UNION {IF a.from = Panic THEN {a} ELSE {Range(a.from, t) : t \in IncU64(a.to)}
           : a \in ArunaRangeFromS3Range(r, len)}

Panicked(rg) == rg.from = Panic \/ rg.to = Panic

\* calculate_content_length_from_range: (to - from) as i64.
ContentLengthFromRange(rg) ==
    {IF d = Panic THEN Panic ELSE AsI64(d) : d \in SubU64(rg.to, rg.from)}

\* What a ranged GET computes: the backend range and the content length.
RangedGetOutcomes(r, len) ==
    UNION {IF Panicked(rg) THEN {[range |-> rg, length |-> Panic]}
           ELSE {[range |-> rg, length |-> n] : n \in ContentLengthFromRange(rg)}
           : rg \in CalculateRanges(r, len)}

-----------------------------------------------------------------------------
(* Reference: the bytes RFC 7233 (section 2.1) selects, {} when the range  *)
(* is not satisfiable.                                                     *)

MinOf(x, y) == IF x < y THEN x ELSE y
MaxOf(x, y) == IF x > y THEN x ELSE y

RfcBytes(r, len) ==
    IF r.kind = "suffix"
    THEN MaxOf(0, len - r.length) .. len - 1
    ELSE IF r.first >= len THEN {}
    ELSE r.first .. (IF r.kind = "from" THEN len - 1 ELSE MinOf(r.last, len - 1))

-----------------------------------------------------------------------------
(* A ranged GET as a step: any header, any content length.                 *)

VARIABLES contentLength, s3range, outcome

vars == <<contentLength, s3range, outcome>>

Requests == (0 .. MaxLen) \X S3Ranges

\* calculate_ranges and calculate_content_length_from_range for one GET.
RangedGet(len, r) ==
    /\ contentLength' = len /\ s3range' = r
    /\ outcome' \in RangedGetOutcomes(r, len)

Init ==
    \E q \in Requests :
        /\ contentLength = q[1] /\ s3range = q[2]
        /\ outcome \in RangedGetOutcomes(q[2], q[1])

Next == \E q \in Requests : RangedGet(q[1], q[2])

Spec == Init /\ [][Next]_vars

-----------------------------------------------------------------------------
(* Properties.                                                             *)

\* The backend range of a satisfiable header covers exactly the bytes the
\* RFC selects, half-open, and the content length counts them.
ExactFor(r, len) ==
    /\ ~Panicked(outcome.range) /\ outcome.length # Panic
    /\ outcome.range.from .. outcome.range.to - 1 = RfcBytes(r, len)
    /\ outcome.length = outcome.range.to - outcome.range.from

\* calculate_ranges' `+1` turns an inclusive `bytes=first-last` inside the
\* object into the half-open range the backend reads.
ClosedRangeExact ==
    (s3range.kind = "int" /\ s3range.last < contentLength)
        => ExactFor(s3range, contentLength)

\* Every satisfiable Range header, `bytes=first-`, `bytes=-n` and one that
\* runs past the end included, gives the bytes the RFC selects.
RangeMatchesRfc ==
    RfcBytes(s3range, contentLength) # {} => ExactFor(s3range, contentLength)

=============================================================================
