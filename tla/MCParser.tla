------------------------------ MODULE MCParser ------------------------------
(***************************************************************************)
(* Instances of Parser for TLC: every short sequence of tokens, and longer *)
(* ones inside a list and inside the forms that look into their items.     *)
(***************************************************************************)
EXTENDS Parser

CONSTANTS MaxLength, MaxInside

Inside(opening, closing) == {opening \o s \o closing : s \in BoundedSeq(Tokens, MaxInside)}

ShortTokens == {"(", ")", ".", "symbol", "comment", "nil", "bad_string"}

AllFeeds == {f \in
  BoundedSeq(Tokens, MaxLength)
    \cup Inside(<<"(", "if", "symbol">>, <<")">>)
    \cup Inside(<<"(", "cond">>, <<")">>)
    \cup Inside(<<"(", "-">>, <<")", "symbol">>)
    \cup Inside(<<"(", "import-go", "(">>, <<")", ")">>)
    \cup Inside(<<"(", "import-go", "(", "-", ")">>, <<")">>)
    \cup Inside(<<"(", "import-go", "string", "(", "(", "+", ")">>, <<")", ")">>)
    \cup {<<"(", "symbol">> \o s : s \in BoundedSeq(ShortTokens, MaxLength + 1)} : LexerAnswers(f)}
=============================================================================
