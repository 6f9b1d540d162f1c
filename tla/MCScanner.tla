----------------------------- MODULE MCScanner -----------------------------
(***************************************************************************)
(* Instances of Scanner for TLC: every input up to MaxLength.              *)
(***************************************************************************)
EXTENDS Scanner, SequencesExt

CONSTANT MaxLength

AllInputs == BoundedSeq(Rune \cup {Failure}, MaxLength)
=============================================================================
