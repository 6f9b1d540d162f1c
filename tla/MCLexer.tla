------------------------------ MODULE MCLexer ------------------------------
(***************************************************************************)
(* Instances of Lexer for TLC: every short input over all the classes of   *)
(* runes, and every longer one over the runes strings are made of.         *)
(***************************************************************************)
EXTENDS Lexer, SequencesExt

CONSTANTS MaxLength, MaxString

One == {"1"}
Fraction == {"half"}
Alphabet ==
  {" ", Newline, EOF, "(", ";", ".", "'", "\"", "\\", "-", "e", "n", "a", ":"} \cup One \cup Fraction

AllInputs ==
  BoundedSeq(Alphabet \cup {Failure}, MaxLength)
    \cup {<<"\"">> \o s : s \in BoundedSeq({"\"", "\\", "n", "a"}, MaxString)}
=============================================================================
