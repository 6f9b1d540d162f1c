-------------------------------- MODULE MCRepl --------------------------------
(***************************************************************************)
(* An instance of Repl for TLC: a few lines, typed in any order, that end  *)
(* in the middle of a list, of a string or of a selector, and some that    *)
(* close one another, with every special head and with numerals that are   *)
(* taken and that are not.                                                 *)
(***************************************************************************)
EXTENDS Repl

Typed == {
  << >>, <<" ">>, <<"1">>, <<"1", ".", "1">>, <<"a", " ">>, <<")">>,
  <<"(", "a">>, <<"(", "a", ")">>, <<"(", ")">>, <<"(", "1", " ", "a", " ", ")">>,
  <<"1", " ", "a">>, <<"1", "+">>, <<"(", "+", " ", "1">>, <<"(", "i", "f", " ", "1", ")">>,
  <<"(", "a", ".">>, <<".">>, <<"\"">>, <<"\"", "\\", "\"">>, <<"\"", "a">>,
  <<"(", "\"", "\\", "q", " ">>, <<"a", " ", "\"", "\\", "q", " ">>, <<"1", ";", "a">>,
  <<")", "\"", "\\", "q", " ">>,
  <<"(", "*", " ", "0", "x", "1", "b">>, <<"1", "_", " ">>,
  <<"(", "c", "o", "n", "d", " ", "1", " ", "1", ")">>,
  <<"(", "i", "m", "p", "o", "r", "t", "-", "g", "o", " ", "t", "r", "u", "e", " ">>,
  <<":", "h", " ">>, <<":", "q">>}

ZeroOne == {"0", "1"}
Ints == {<<"1">>, <<"0", "x", "1", "b">>}
Floats == {<<"1", ".", "1">>}

Runes == UNION {{l[i] : i \in DOMAIN l} : l \in Typed} \cup {Newline, EOF}
NoRunes == {}
=============================================================================
