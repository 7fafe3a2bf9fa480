-------------------------- MODULE ProjectionCursor --------------------------
(***************************************************************************)
(* The cursor test every projection makes before it applies an envelope    *)
(* (crates/infra/src/projections): duplicates are skipped, gaps refused.   *)
(***************************************************************************)
EXTENDS Naturals

(* Mutants: gaps are let through; the next number counts as a duplicate. *)
CursorVerdictNoGapTest(last, seq) ==
    IF seq = 0 THEN "NonMonotonicSequence"
    ELSE IF seq <= last THEN "Duplicate"
    ELSE "Next"

CursorVerdictOffByOne(last, seq) ==
    IF seq = 0 THEN "NonMonotonicSequence"
    ELSE IF last # 0 /\ seq <= last + 1 THEN "Duplicate"
    ELSE "Next"

(***************************************************************************)
(* What the cursor makes of sequence number seq when the last one applied  *)
(* for the stream is last.  The first event may carry any positive number; *)
(* after that numbers must be consecutive.                                 *)
(***************************************************************************)
CursorVerdict(last, seq) ==
    IF seq = 0 THEN "NonMonotonicSequence"
    ELSE IF seq <= last THEN "Duplicate"
    ELSE IF seq # last + 1 /\ last # 0 THEN "NonMonotonicSequence"
    ELSE "Next"

=============================================================================
