----------------------------- MODULE ChanProofs -----------------------------
(***************************************************************************)
(* Proofs about Chan, for any number of goroutines, any elements and any   *)
(* sizes.                                                                  *)
(***************************************************************************)
EXTENDS Chan, TLAPS, SequenceTheorems

(***************************************************************************)
(* Types.                                                                  *)
(***************************************************************************)
LEMMA TypeInit == Init => TypeOK
<1> SUFFICES ASSUME Init PROVE TypeOK
  OBVIOUS
<1>1. buf \in Seq(Value) /\ capacity \in Nat
  <2>1. CASE NewChan
    BY <2>1, SizesAssumption, EmptySeq DEF NewChan
  <2>2. CASE NewChanOf
    BY <2>2, PreloadsAssumption, LenProperties DEF NewChanOf
  <2> QED BY <2>1, <2>2 DEF Init
<1>2. <<"none", NoValue>> \in Ret
  BY DEF Ret
<1> QED BY <1>1, <1>2, EmptySeq DEF Init, TypeOK, PC

LEMMA TypeStep == TypeOK /\ [Next]_vars => TypeOK'
<1> SUFFICES ASSUME TypeOK, [Next]_vars PROVE TypeOK'
  OBVIOUS
<1> USE DEF TypeOK, PC, Goto, Return
<1>1. CASE UNCHANGED vars
  BY <1>1 DEF vars
<1>2. CASE Next
  <2>1. PICK p \in Proc : Call(p) \/ Step(p)
    BY <1>2 DEF Next
  <2>2. CASE \E v \in Value : Push(p, v)
    BY <2>2 DEF Push
  <2>3. CASE \E q \in Proc : Rendezvous(p, q)
    <3>1. PICK q \in Proc : Rendezvous(p, q)
      BY <2>3
    <3>2. arg[p] \in Value /\ p # q
      BY <3>1 DEF Rendezvous
    <3> QED BY <3>1, <3>2, AppendProperties DEF Rendezvous
  <2>4. CASE SendBuffered(p)
    BY <2>4, AppendProperties DEF SendBuffered
  <2>5. CASE SendPanics(p) \/ NextEnter(p) \/ FirstEnter(p) \/ ReceiveClosed(p)
    BY <2>5 DEF SendPanics, NextEnter, FirstEnter, ReceiveClosed
  <2>6. CASE NextNil(p) \/ FirstNone(p) \/ MarkClosed(p) \/ LoadValue(p)
    <3>1. \E r \in Ret : ret' = [ret EXCEPT ![p] = r]
      BY <2>6 DEF NextNil, FirstNone, MarkClosed, LoadValue, Ret
    <3>2. pc' = [pc EXCEPT ![p] = "idle"] /\ closed' \in BOOLEAN
      BY <2>6 DEF NextNil, FirstNone, MarkClosed, LoadValue
    <3>3. UNCHANGED <<capacity, buf, chanClosed, value, arg, sent, taken>>
      BY <2>6 DEF NextNil, FirstNone, MarkClosed, LoadValue
    <3> QED BY <3>1, <3>2, <3>3
  <2>7. CASE Receive(p)
    BY <2>7, HeadTailProperties, AppendProperties DEF Receive
  <2>8. CASE StoreValue(p)
    <3>1. <<"seq", NoValue>> \in Ret
      BY DEF Ret
    <3> QED BY <2>8, <3>1 DEF StoreValue
  <2>9. CASE StorePanics(p) \/ Close(p) \/ CloseChan(p) \/ ClosePanics(p)
    BY <2>9 DEF StorePanics, Close, CloseChan, ClosePanics
  <2> QED BY <2>1, <2>2, <2>3, <2>4, <2>5, <2>6, <2>7, <2>8, <2>9 DEF Call, Step
<1> QED BY <1>1, <1>2

(* Every variable keeps its type, and a goroutine about to send or store   *)
(* holds an element.                                                       *)
THEOREM Typing == Spec => []TypeOK
  BY TypeInit, TypeStep, PTL DEF Spec

(***************************************************************************)
(* Elements.                                                               *)
(***************************************************************************)
LEMMA AppendRight ==
  ASSUME NEW S, NEW s \in Seq(S), NEW t \in Seq(S), NEW e \in S
  PROVE  s \o Append(t, e) = Append(s \o t, e)
  BY ConcatProperties, AppendProperties, SeqEqual

LEMMA MoveHead ==
  ASSUME NEW S, NEW s \in Seq(S), NEW t \in Seq(S), t # << >>
  PROVE  Append(s, Head(t)) \o Tail(t) = s \o t
  BY ConcatProperties, AppendProperties, HeadTailProperties, SeqEqual

LEMMA ConservationInit == Init /\ TypeOK => Conservation
<1> SUFFICES ASSUME Init, TypeOK PROVE Conservation
  OBVIOUS
<1>1. sent = taken \o buf
  BY ConcatEmptySeq DEF Init, TypeOK
<1>2. Len(buf) <= capacity
  BY EmptySeq DEF Init, TypeOK, NewChan, NewChanOf
<1> QED BY <1>1, <1>2 DEF Conservation

LEMMA ConservationStep == TypeOK /\ Conservation /\ [Next]_vars => Conservation'
<1> SUFFICES ASSUME TypeOK, Conservation, [Next]_vars PROVE Conservation'
  OBVIOUS
<1> USE DEF TypeOK, Conservation
<1>1. CASE UNCHANGED <<capacity, buf, sent, taken>>
  BY <1>1
<1>2. ASSUME NEW p \in Proc, SendBuffered(p) PROVE Conservation'
  <2>1. arg[p] \in Value
    BY <1>2 DEF SendBuffered
  <2>2. taken \o Append(buf, arg[p]) = Append(taken \o buf, arg[p])
    BY <2>1, AppendRight
  <2>3. Len(Append(buf, arg[p])) = Len(buf) + 1
    BY <2>1, AppendProperties
  <2> QED BY <1>2, <2>2, <2>3 DEF SendBuffered
<1>3. ASSUME NEW p \in Proc, NEW q \in Proc, Rendezvous(p, q) PROVE Conservation'
  <2>1. buf = << >> /\ arg[p] \in Value
    BY <1>3, EmptySeq DEF Rendezvous
  <2>2. taken \o << >> = taken /\ Append(taken, arg[p]) \o << >> = Append(taken, arg[p])
    BY <2>1, ConcatEmptySeq, AppendProperties
  <2> QED BY <1>3, <2>1, <2>2 DEF Rendezvous
<1>4. ASSUME NEW p \in Proc, Receive(p) PROVE Conservation'
  <2>1. Append(taken, Head(buf)) \o Tail(buf) = taken \o buf
    BY <1>4, MoveHead DEF Receive
  <2>2. Len(Tail(buf)) <= Len(buf)
    BY <1>4, HeadTailProperties DEF Receive
  <2> QED BY <1>4, <2>1, <2>2 DEF Receive
<1> QED
  BY <1>1, <1>2, <1>3, <1>4 DEF Next, Call, Step, vars, Push, SendPanics, NextNil, NextEnter,
     ReceiveClosed, MarkClosed, StoreValue, StorePanics, FirstNone, FirstEnter, LoadValue,
     Close, CloseChan, ClosePanics

(* No interleaving of any number of goroutines loses, doubles or reorders  *)
(* an element between Push and Next, or exceeds the buffer.                *)
THEOREM NothingLost == Spec => []Conservation
<1>1. Init => TypeOK /\ Conservation
  BY TypeInit, ConservationInit
<1>2. TypeOK /\ Conservation /\ [Next]_vars => (TypeOK /\ Conservation)'
  BY TypeStep, ConservationStep
<1> QED BY <1>1, <1>2, PTL DEF Spec

(***************************************************************************)
(* Closing.  CloseOrder is not inductive alone: that a goroutine between   *)
(* the two steps of Close has raised the flag makes it so.                 *)
(***************************************************************************)
ClosingInv ==
  /\ CloseOrder
  /\ \A p \in Proc : pc[p] = "close" => closed

LEMMA ClosingStep == TypeOK /\ ClosingInv /\ [Next]_vars => ClosingInv'
<1> SUFFICES ASSUME TypeOK, ClosingInv, [Next]_vars PROVE ClosingInv'
  OBVIOUS
<1> USE DEF TypeOK, ClosingInv, CloseOrder, Goto, Return
<1>1. CASE UNCHANGED vars
  BY <1>1 DEF vars
<1>2. CASE Next
  <2>1. PICK p \in Proc : Call(p) \/ Step(p)
    BY <1>2 DEF Next
  <2>2. CASE Close(p)
    BY <2>2 DEF Close
  <2>3. CASE CloseChan(p)
    BY <2>3 DEF CloseChan
  <2>4. CASE MarkClosed(p)
    BY <2>4 DEF MarkClosed
  <2>5. CASE \E q \in Proc : Rendezvous(p, q)
    BY <2>5 DEF Rendezvous
  <2> QED
    BY <2>1, <2>2, <2>3, <2>4, <2>5 DEF Call, Step, Push, SendBuffered, SendPanics, NextNil,
       NextEnter, Receive, ReceiveClosed, StoreValue, StorePanics, FirstNone, FirstEnter,
       LoadValue, ClosePanics
<1> QED BY <1>1, <1>2

(* A closed channel always has its flag up, however many goroutines Close. *)
THEOREM FlagBeforeClose == Spec => []CloseOrder
<1>1. Init => TypeOK /\ ClosingInv
  BY TypeInit DEF Init, ClosingInv, CloseOrder
<1>2. TypeOK /\ ClosingInv /\ [Next]_vars => (TypeOK /\ ClosingInv)'
  BY TypeStep, ClosingStep
<1>3. ClosingInv => CloseOrder
  BY DEF ClosingInv
<1> QED BY <1>1, <1>2, <1>3, PTL DEF Spec

(***************************************************************************)
(* The end of the sequence.                                                *)
(***************************************************************************)
LEMMA NilStep == TypeOK /\ NilMeansClosed /\ [Next]_vars => NilMeansClosed'
<1> SUFFICES ASSUME TypeOK, NilMeansClosed, [Next]_vars PROVE NilMeansClosed'
  OBVIOUS
<1> USE DEF TypeOK, NilMeansClosed, Goto, Return, Empty
<1>1. CASE UNCHANGED vars
  BY <1>1 DEF vars
<1>2. CASE Next
  <2>1. PICK p \in Proc : Call(p) \/ Step(p)
    BY <1>2 DEF Next
  <2>2. CASE NextNil(p)
    BY <2>2 DEF NextNil
  <2>3. CASE FirstNone(p)
    BY <2>3 DEF FirstNone
  <2>4. CASE LoadValue(p)
    BY <2>4 DEF LoadValue
  <2>5. CASE StoreValue(p)
    BY <2>5 DEF StoreValue
  <2>6. CASE MarkClosed(p) \/ Close(p)
    BY <2>6 DEF MarkClosed, Close
  <2> QED
    BY <2>1, <2>2, <2>3, <2>4, <2>5, <2>6 DEF Call, Step, Push, SendBuffered, Rendezvous,
       SendPanics, NextEnter, Receive, ReceiveClosed, StorePanics, FirstEnter, CloseChan,
       ClosePanics
<1> QED BY <1>1, <1>2

(* A goroutine is told that the sequence has ended only when it has.       *)
THEOREM NilOnlyWhenClosed == Spec => []NilMeansClosed
<1>1. Init => TypeOK /\ NilMeansClosed
  BY TypeInit DEF Init, NilMeansClosed, Proc
<1>2. TypeOK /\ NilMeansClosed /\ [Next]_vars => (TypeOK /\ NilMeansClosed)'
  BY TypeStep, NilStep
<1> QED BY <1>1, <1>2, PTL DEF Spec

(* Once closing has begun, nobody starts to wait for an element.           *)
THEOREM NobodyJoinsHolds == Spec => NobodyJoins
<1>1. TypeOK /\ [Next]_vars => [closed => Waiting' \subseteq Waiting]_vars
  <2> SUFFICES ASSUME TypeOK, Next, closed PROVE Waiting' \subseteq Waiting
    OBVIOUS
  <2>1. PICK p \in Proc : Call(p) \/ Step(p)
    BY DEF Next
  <2>2. ~NextEnter(p)
    BY DEF NextEnter, Empty
  <2>3. \A q \in Proc : pc'[q] = "recv" => pc[q] = "recv"
    BY <2>1, <2>2 DEF TypeOK, Goto, Return, Call, Step, Push, SendBuffered, Rendezvous,
       SendPanics, NextNil, Receive, ReceiveClosed, MarkClosed, StoreValue, StorePanics,
       FirstNone, FirstEnter, LoadValue, Close, CloseChan, ClosePanics
  <2> QED BY <2>3 DEF Waiting
<1> QED BY <1>1, TypeInit, TypeStep, PTL DEF Spec, NobodyJoins

(***************************************************************************)
(* First.  What the cell holds was received because what is about to be    *)
(* stored was.                                                             *)
(***************************************************************************)
FirstInv ==
  /\ FirstWasReceived
  /\ \A p \in Proc : pc[p] = "store" => arg[p] \in Received

LEMMA ReceivedGrows ==
  ASSUME NEW v \in Value, taken \in Seq(Value), taken' = Append(taken, v)
  PROVE  Received' = Received \cup {v}
<1>1. DOMAIN taken = 1 .. Len(taken) /\ DOMAIN taken' = 1 .. (Len(taken) + 1)
  BY AppendProperties, LenProperties
<1>2. \A i \in 1 .. Len(taken) : taken'[i] = taken[i]
  BY AppendProperties
<1>3. taken'[Len(taken) + 1] = v /\ Len(taken) \in Nat
  BY AppendProperties, LenProperties
<1> QED BY <1>1, <1>2, <1>3 DEF Received

LEMMA FirstStep == TypeOK /\ FirstInv /\ [Next]_vars => FirstInv'
<1> SUFFICES ASSUME TypeOK, FirstInv, [Next]_vars PROVE FirstInv'
  OBVIOUS
<1> USE DEF TypeOK, FirstInv, FirstWasReceived, Goto, Return
<1>1. CASE UNCHANGED vars
  BY <1>1 DEF vars, Received
<1>2. CASE Next
  <2>1. PICK p \in Proc : Call(p) \/ Step(p)
    BY <1>2 DEF Next
  <2>2. CASE Receive(p)
    <3>1. Head(buf) \in Value
      BY <2>2, HeadTailProperties DEF Receive
    <3>2. Received' = Received \cup {Head(buf)}
      BY <2>2, <3>1, ReceivedGrows DEF Receive
    <3> QED BY <2>2, <3>1, <3>2 DEF Receive
  <2>3. CASE \E q \in Proc : Rendezvous(p, q)
    <3>1. PICK q \in Proc : Rendezvous(p, q)
      BY <2>3
    <3>2. Received' = Received \cup {arg[p]}
      BY <3>1, ReceivedGrows DEF Rendezvous
    <3> QED BY <3>1, <3>2 DEF Rendezvous
  <2>4. CASE UNCHANGED taken
    <3>1. Received' = Received
      BY <2>4 DEF Received
    <3>2. CASE StoreValue(p)
      BY <3>1, <3>2 DEF StoreValue
    <3>3. CASE LoadValue(p)
      BY <3>1, <3>3 DEF LoadValue
    <3>4. CASE NextNil(p) \/ FirstNone(p) \/ MarkClosed(p)
      <4>1. \/ ret' = [ret EXCEPT ![p] = <<"nil", NoValue>>]
            \/ ret' = [ret EXCEPT ![p] = <<"first", NoValue>>]
        BY <3>4 DEF NextNil, FirstNone, MarkClosed
      <4>2. /\ pc' = [pc EXCEPT ![p] = "idle"]
            /\ UNCHANGED <<value, arg, taken>>
        BY <3>4 DEF NextNil, FirstNone, MarkClosed
      <4>3. \A q \in Consumers : ret'[q] = ret[q] \/ ret'[q][2] = NoValue
        BY <4>1 DEF Proc
      <4> QED BY <3>1, <4>2, <4>3
    <3>5. CASE (\E v \in Value : Push(p, v)) \/ SendBuffered(p) \/ SendPanics(p) \/ Close(p)
      BY <3>1, <3>5 DEF Push, SendBuffered, SendPanics, Close
    <3>6. CASE NextEnter(p) \/ FirstEnter(p) \/ ReceiveClosed(p) \/ StorePanics(p)
      BY <3>1, <3>6 DEF NextEnter, FirstEnter, ReceiveClosed, StorePanics
    <3>7. CASE CloseChan(p) \/ ClosePanics(p)
      BY <3>1, <3>7 DEF CloseChan, ClosePanics
    <3>8. CASE Receive(p) \/ \E q \in Proc : Rendezvous(p, q)
      BY <2>2, <2>3, <3>8
    <3> QED BY <2>1, <3>2, <3>3, <3>4, <3>5, <3>6, <3>7, <3>8 DEF Call, Step
  <2>5. UNCHANGED taken \/ Receive(p) \/ \E q \in Proc : Rendezvous(p, q)
    BY <2>1 DEF Call, Step, Push, SendBuffered, SendPanics, NextNil, NextEnter, ReceiveClosed,
       MarkClosed, StoreValue, StorePanics, FirstNone, FirstEnter, LoadValue, Close, CloseChan,
       ClosePanics
  <2> QED BY <2>2, <2>3, <2>4, <2>5
<1> QED BY <1>1, <1>2

(* However Next and First race, First shows an element some Next received. *)
THEOREM FirstInventsNothing == Spec => []FirstWasReceived
<1>1. Init => TypeOK /\ FirstInv
  BY TypeInit DEF Init, FirstInv, FirstWasReceived, Proc
<1>2. TypeOK /\ FirstInv /\ [Next]_vars => (TypeOK /\ FirstInv)'
  BY TypeStep, FirstStep
<1>3. FirstInv => FirstWasReceived
  BY DEF FirstInv
<1> QED BY <1>1, <1>2, <1>3, PTL DEF Spec

(***************************************************************************)
(* The latest element.  With one consumer, nobody else receives between    *)
(* its receive and its Store, because only consumers ever wait.            *)
(***************************************************************************)
LatestInv ==
  /\ FirstIsLatest
  /\ \A p \in Proc : pc[p] \in {"recv", "store"} => p \in Consumers
  /\ \A p \in Consumers :
       Consumers = {p} /\ pc[p] = "store" => taken # << >> /\ arg[p] = taken[Len(taken)]

LEMMA LatestStep == TypeOK /\ LatestInv /\ [Next]_vars => LatestInv'
<1> SUFFICES ASSUME TypeOK, LatestInv, [Next]_vars PROVE LatestInv'
  OBVIOUS
<1> USE DEF TypeOK, LatestInv, FirstIsLatest, Goto, Return
<1>1. CASE UNCHANGED vars
  BY <1>1 DEF vars
<1>2. CASE Next
  <2>1. PICK p \in Proc : Call(p) \/ Step(p)
    BY <1>2 DEF Next
  <2>2. CASE Receive(p)
    <3>1. taken' # << >> /\ taken'[Len(taken')] = Head(buf)
      BY <2>2, HeadTailProperties, AppendProperties DEF Receive
    <3> QED BY <2>2, <3>1 DEF Receive
  <2>3. CASE \E q \in Proc : Rendezvous(p, q)
    <3>1. PICK q \in Proc : Rendezvous(p, q)
      BY <2>3
    <3>2. taken' # << >> /\ taken'[Len(taken')] = arg[p]
      BY <3>1, AppendProperties DEF Rendezvous
    <3> QED BY <3>1, <3>2 DEF Rendezvous
  <2>4. CASE StoreValue(p)
    BY <2>4 DEF StoreValue
  <2>5. CASE NextEnter(p) /\ p \in Consumers
    BY <2>5 DEF NextEnter
  <2>6. ASSUME UNCHANGED <<value, arg, taken>>,
               NEW label \in PC \ {"recv", "store"}, pc' = [pc EXCEPT ![p] = label],
               pc[p] \in {"store", "panicked"} => label = "panicked"
        PROVE  LatestInv'
    BY <2>6
  <2>7. CASE SendBuffered(p) \/ SendPanics(p) \/ ReceiveClosed(p) \/ StorePanics(p)
    BY <2>6, <2>7 DEF SendBuffered, SendPanics, ReceiveClosed, StorePanics, PC
  <2>8. CASE NextNil(p) \/ FirstNone(p) \/ FirstEnter(p) \/ MarkClosed(p) \/ LoadValue(p)
    BY <2>6, <2>8 DEF NextNil, FirstNone, FirstEnter, MarkClosed, LoadValue, PC
  <2>9. CASE Close(p) \/ CloseChan(p) \/ ClosePanics(p)
    BY <2>6, <2>9 DEF Close, CloseChan, ClosePanics, PC
  <2>10. CASE \E v \in Value : Push(p, v)
    BY <2>10 DEF Push
  <2> QED BY <2>1, <2>2, <2>3, <2>4, <2>5, <2>6, <2>7, <2>8, <2>9, <2>10
    DEF Call, Step
<1> QED BY <1>1, <1>2

(* A single consumer sees with First the element its last Next received,   *)
(* whatever producers and closers do meanwhile.                            *)
THEOREM FirstShowsLatest == Spec => []FirstIsLatest
<1>1. Init => TypeOK /\ LatestInv
  BY TypeInit DEF Init, LatestInv, FirstIsLatest, Proc
<1>2. TypeOK /\ LatestInv /\ [Next]_vars => (TypeOK /\ LatestInv)'
  BY TypeStep, LatestStep
<1>3. LatestInv => FirstIsLatest
  BY DEF LatestInv
<1> QED BY <1>1, <1>2, <1>3, PTL DEF Spec

(***************************************************************************)
(* Refinement: every step is one of the closable queue, or invisible.      *)
(***************************************************************************)
Safe == TypeOK /\ Conservation /\ ClosingInv

LEMMA OldestFirst ==
  ASSUME NEW S, NEW s \in Seq(S), NEW t \in Seq(S), t # << >>
  PROVE  /\ Len(s) < Len(s \o t)
         /\ (s \o t)[Len(s) + 1] = Head(t)
  BY ConcatProperties, HeadTailProperties, LenProperties

LEMMA QueueInit == Init => Queue!Init
<1> SUFFICES ASSUME Init PROVE Queue!Init
  OBVIOUS
<1>1. sent \in Seq(Value)
  BY TypeInit DEF TypeOK
<1> QED BY <1>1 DEF Init, Queue!Init, phase, Waiting

LEMMA QueueStep == Safe /\ [Next]_vars => [Queue!Next]_Queue!vars
<1> SUFFICES ASSUME Safe, [Next]_vars PROVE [Queue!Next]_Queue!vars
  OBVIOUS
<1> USE DEF Safe, TypeOK, Conservation, ClosingInv, CloseOrder, Goto, Return
<1>1. ASSUME NEW p \in Proc, SendBuffered(p) PROVE Queue!Accept(arg[p]) /\ arg[p] \in Value
  BY <1>1 DEF SendBuffered, Queue!Accept, phase, Waiting
<1>2. ASSUME NEW p \in Proc, NextEnter(p) PROVE Queue!Wait(p)
  BY <1>2 DEF NextEnter, Queue!Wait, phase, Waiting, Empty
<1>3. ASSUME NEW p \in Proc, Receive(p) PROVE Queue!Deliver(p)
  <2>1. Len(taken) < Len(sent) /\ sent[Len(taken) + 1] = Head(buf)
    BY <1>3, OldestFirst DEF Receive
  <2>2. p \in Waiting /\ Waiting' = Waiting \ {p}
    BY <1>3 DEF Receive, Waiting
  <2> QED BY <1>3, <2>1, <2>2 DEF Receive, Queue!Deliver, phase
<1>4. ASSUME NEW p \in Proc, NEW q \in Proc, Rendezvous(p, q)
      PROVE  Queue!HandOver(q, arg[p]) /\ arg[p] \in Value
  <2>1. arg[p] \in Value /\ buf = << >>
    BY <1>4, EmptySeq DEF Rendezvous
  <2>2. taken = sent
    BY <2>1, ConcatEmptySeq
  <2>3. q \in Waiting /\ Waiting' = Waiting \ {q}
    BY <1>4 DEF Rendezvous, Waiting
  <2> QED BY <1>4, <2>1, <2>2, <2>3 DEF Rendezvous, Queue!HandOver, phase
<1>5. ASSUME NEW p \in Proc, ReceiveClosed(p) PROVE Queue!GiveUp(p)
  <2>1. taken = sent
    BY <1>5, ConcatEmptySeq DEF ReceiveClosed
  <2>2. p \in Waiting /\ Waiting' = Waiting \ {p}
    BY <1>5 DEF ReceiveClosed, Waiting
  <2> QED BY <1>5, <2>1, <2>2 DEF ReceiveClosed, Queue!GiveUp, phase
<1>6. ASSUME NEW p \in Proc, Close(p) PROVE Queue!BeginClose \/ UNCHANGED Queue!vars
  BY <1>6 DEF Close, Queue!BeginClose, Queue!vars, phase, Waiting
<1>7. ASSUME NEW p \in Proc, CloseChan(p) PROVE Queue!EndClose
  BY <1>7 DEF CloseChan, Queue!EndClose, phase, Waiting
<1>8. ASSUME NEW p \in Proc, MarkClosed(p) PROVE Queue!BeginClose \/ UNCHANGED Queue!vars
  BY <1>8 DEF MarkClosed, Queue!BeginClose, Queue!vars, phase, Waiting
<1>9. CASE UNCHANGED vars
  BY <1>9 DEF vars, Queue!vars, phase, Waiting
<1>10. CASE UNCHANGED <<closed, chanClosed, sent, taken, Waiting>>
  BY <1>10 DEF Queue!vars, phase
<1>11. CASE \E p \in Proc : Call(p) \/ Step(p)
  <2>1. PICK p \in Proc : Call(p) \/ Step(p)
    BY <1>11
  <2>2. \/ (\E v \in Value : Push(p, v)) \/ SendPanics(p) \/ NextNil(p) \/ StoreValue(p)
        \/ StorePanics(p) \/ FirstNone(p) \/ FirstEnter(p) \/ LoadValue(p) \/ ClosePanics(p)
        => UNCHANGED <<closed, chanClosed, sent, taken, Waiting>>
    BY DEF Push, SendPanics, NextNil, StoreValue, StorePanics, FirstNone, FirstEnter,
       LoadValue, ClosePanics, Waiting
  <2> QED
    BY <1>1, <1>2, <1>3, <1>4, <1>5, <1>6, <1>7, <1>8, <1>10, <2>1, <2>2
    DEF Call, Step, Queue!Next
<1> QED BY <1>9, <1>11 DEF Next

(* core.Chan implements the closable queue: oldest first, each element     *)
(* once, nobody admitted after closing begins, nil only when drained.      *)
THEOREM ImplementsQueue == Spec => QueueSpec
<1>1. Init => Safe
  BY TypeInit, ConservationInit DEF Safe, Init, ClosingInv, CloseOrder
<1>2. Safe /\ [Next]_vars => Safe'
  BY TypeStep, ConservationStep, ClosingStep DEF Safe
<1> QED BY <1>1, <1>2, QueueInit, QueueStep, PTL DEF Spec, QueueSpec, Queue!Spec
=============================================================================
