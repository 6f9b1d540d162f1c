------------------------------- MODULE MCChan -------------------------------
(***************************************************************************)
(* Instances of Chan for TLC.                                              *)
(***************************************************************************)
EXTENDS Chan

CONSTANTS a, b  \* two elements

(* One Go type, as in a Chan of numbers, or two, as in a Chan of Value.    *)
OneType == [v \in {a, b} |-> "t"]
TwoTypes == [v \in {a, b} |-> v]

NoPreload == {<< >>}
SomePreloads == {<<a>>, <<a, b>>}
=============================================================================
