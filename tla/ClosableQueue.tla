--------------------------- MODULE ClosableQueue ---------------------------
(***************************************************************************)
(* What a user of core.Chan may rely on: a first-in first-out queue.       *)
(* Closing it has a beginning, after which nobody starts to wait, and an   *)
(* end, after which nothing is accepted.  A client that waits gets the     *)
(* oldest element or, once closing has ended and nothing is left, gives    *)
(* up.                                                                     *)
(***************************************************************************)
EXTENDS Naturals, Sequences

CONSTANTS Client, Value

VARIABLES
  phase,      \* "open", "closing" or "closed"
  accepted,   \* the elements put in, in order
  delivered,  \* the elements given out, in order
  waiting     \* the clients that wait for an element

vars == <<phase, accepted, delivered, waiting>>

Init ==
  /\ phase = "open"
  /\ accepted \in Seq(Value)
  /\ delivered = << >>
  /\ waiting = {}

Accept(v) ==
  /\ phase # "closed"
  /\ accepted' = Append(accepted, v)
  /\ UNCHANGED <<phase, delivered, waiting>>

Wait(c) ==
  /\ phase = "open"
  /\ waiting' = waiting \cup {c}
  /\ UNCHANGED <<phase, accepted, delivered>>

Deliver(c) ==
  /\ c \in waiting
  /\ Len(delivered) < Len(accepted)
  /\ delivered' = Append(delivered, accepted[Len(delivered) + 1])
  /\ waiting' = waiting \ {c}
  /\ UNCHANGED <<phase, accepted>>

(* An element that goes from a producer straight to a waiting client.      *)
HandOver(c, v) ==
  /\ c \in waiting
  /\ phase # "closed"
  /\ delivered = accepted
  /\ accepted' = Append(accepted, v)
  /\ delivered' = Append(delivered, v)
  /\ waiting' = waiting \ {c}
  /\ UNCHANGED phase

GiveUp(c) ==
  /\ c \in waiting
  /\ phase = "closed"
  /\ delivered = accepted
  /\ waiting' = waiting \ {c}
  /\ UNCHANGED <<phase, accepted, delivered>>

BeginClose ==
  /\ phase = "open"
  /\ phase' = "closing"
  /\ UNCHANGED <<accepted, delivered, waiting>>

EndClose ==
  /\ phase = "closing"
  /\ phase' = "closed"
  /\ UNCHANGED <<accepted, delivered, waiting>>

Next ==
  \/ \E v \in Value : Accept(v)
  \/ \E c \in Client : Wait(c) \/ Deliver(c) \/ GiveUp(c)
  \/ \E c \in Client, v \in Value : HandOver(c, v)
  \/ BeginClose
  \/ EndClose

Spec == Init /\ [][Next]_vars

FairSpec ==
  /\ Spec
  /\ WF_vars(EndClose)
  /\ \A c \in Client : WF_vars(Deliver(c) \/ GiveUp(c))
=============================================================================
