------------------------------ MODULE Protocol ------------------------------
(***************************************************************************)
(* The pure decisions of the broker: broker/src/protocol.ts.  Byte counts  *)
(* are integers in an arbitrary unit; a header that is absent or malformed *)
(* is a value of its own, as null is in the source.                        *)
(***************************************************************************)
EXTENDS Integers

\* parseContentRange's null: no range at all.
NoRange == [start |-> 0, end |-> -1, total |-> 0]

\* The Range header of a 308 answer holds the last byte stored; none is sent
\* when nothing is stored.
NoHeader == -1

ParseContentRange(header) ==
  IF header.start < 0 \/ header.end < header.start \/ header.end >= header.total
  THEN NoRange ELSE header

ClassifyChunk(range, expectedOffset, expectedTotal, contentLength, maxChunk) ==
  IF \/ range = NoRange
     \/ range.total # expectedTotal
     \/ contentLength # range.end - range.start + 1
     \/ contentLength > maxChunk
  THEN "invalid"
  ELSE IF range.start < expectedOffset THEN "replay"
  ELSE IF range.start > expectedOffset THEN "gap"
  ELSE "accept"

NextOffsetFromRange(value, fallback) ==
  IF value = NoHeader THEN fallback ELSE value + 1

CanConsume(ipCount, globalCount, perIpLimit, globalLimit) ==
  ipCount < perIpLimit /\ globalCount < globalLimit
=============================================================================
