-------------------------------- MODULE Chan --------------------------------
(***************************************************************************)
(* core.Chan (std/core/chan.go): a Go channel wrapped as a lazy sequence.  *)
(* Goroutines share the wrapper without a lock.  Its methods are built     *)
(* from single atomic steps -- a load or store of the flag `closed', a     *)
(* load or store of the cell `value', one channel operation -- and every   *)
(* step of every method is an action here, so that all their               *)
(* interleavings are behaviours of this specification.                     *)
(*                                                                         *)
(* A panic stops the goroutine it happens in; the others go on, as they do *)
(* when the caller recovers.                                               *)
(***************************************************************************)
EXTENDS Naturals, Sequences

CONSTANTS
  Producers,  \* goroutines that call Push
  Consumers,  \* goroutines that call Next and First
  Closers,    \* goroutines that call Close
  Value,      \* the elements
  NoValue,    \* what the cell `value' holds before the first Store
  TypeOf,     \* the dynamic type of an element: E may be an interface type
  Sizes,      \* the sizes NewChan is called with
  Preloads,   \* the element lists NewChanOf is called with
  MaxSent     \* bound: no Push starts once this many elements were accepted

Proc == Producers \cup Consumers \cup Closers

ASSUME ValueAssumption == NoValue \notin Value
ASSUME SizesAssumption == Sizes \subseteq Nat
ASSUME PreloadsAssumption == Preloads \subseteq Seq(Value)
ASSUME TypeOfAssumption == DOMAIN TypeOf = Value

VARIABLES
  capacity,    \* cap(ch.c), fixed when the channel is made
  buf,         \* the elements in the buffer of ch.c
  chanClosed,  \* ch.c has been closed with close(ch.c)
  closed,      \* the atomic flag ch.closed
  value,       \* the atomic cell ch.value
  pc,          \* where each goroutine is
  arg,         \* the element a goroutine is about to send or to store
  ret,         \* what its last call of Next or First returned
  sent,        \* history: the elements accepted, in order
  taken        \* history: the elements received, in order

vars == <<capacity, buf, chanClosed, closed, value, pc, arg, ret, sent, taken>>

PC == {"idle", "send", "recv", "store", "mark", "load", "close", "panicked"}

(* Next returns nil or the sequence itself; First an element or nothing.   *)
Ret == {"none", "nil", "seq"} \X {NoValue}
         \cup {"first"} \X (Value \cup {NoValue})

Goto(p, label) == pc' = [pc EXCEPT ![p] = label]
Return(p, result) == ret' = [ret EXCEPT ![p] = result] /\ Goto(p, "idle")

(***************************************************************************)
(* Mistakes that this code does not make: each is what one definition      *)
(* below would be with a plausible bug, and breaks the property it names.  *)
(***************************************************************************)
EmptyWhenDrained == closed \/ buf = << >>  \* NilMeansClosed

SendDrops(p) ==  \* Conservation
  /\ pc[p] = "send"
  /\ ~chanClosed
  /\ buf' = IF Len(buf) < capacity THEN Append(buf, arg[p]) ELSE buf
  /\ sent' = Append(sent, arg[p])
  /\ Goto(p, "idle")
  /\ UNCHANGED <<capacity, chanClosed, closed, value, arg, ret, taken>>

SendStores(p) ==  \* FirstWasReceived
  /\ pc[p] = "send"
  /\ ~chanClosed
  /\ Len(buf) < capacity
  /\ buf' = Append(buf, arg[p])
  /\ sent' = Append(sent, arg[p])
  /\ value' = arg[p]
  /\ Goto(p, "idle")
  /\ UNCHANGED <<capacity, chanClosed, closed, arg, ret, taken>>

ReceiveUnchecked(p) ==  \* TypeOK
  /\ pc[p] = "recv"
  /\ buf = << >>
  /\ chanClosed
  /\ arg' = [arg EXCEPT ![p] = NoValue]
  /\ Goto(p, "store")
  /\ UNCHANGED <<capacity, buf, chanClosed, closed, value, ret, sent, taken>>

ReceiveGivesUp(p) ==  \* QueueSpec
  /\ pc[p] = "recv"
  /\ chanClosed
  /\ Goto(p, "mark")
  /\ UNCHANGED <<capacity, buf, chanClosed, closed, value, arg, ret, sent, taken>>

ReceiveRetries(p) ==  \* QueueFairSpec
  /\ pc[p] = "recv"
  /\ buf = << >>
  /\ chanClosed
  /\ UNCHANGED vars

StoreOnce(p) ==  \* FirstIsLatest
  /\ pc[p] = "store"
  /\ value # NoValue => TypeOf[value] = TypeOf[arg[p]]
  /\ value' = IF value = NoValue THEN arg[p] ELSE value
  /\ Return(p, <<"seq", NoValue>>)
  /\ UNCHANGED <<capacity, buf, chanClosed, closed, arg, sent, taken>>

CloseOnlyMarks(p) ==  \* CloseUnblocks
  /\ pc[p] = "close"
  /\ Goto(p, "idle")
  /\ UNCHANGED <<capacity, buf, chanClosed, closed, value, arg, ret, sent, taken>>

(* Empty: the only thing it looks at is the flag.                          *)
Empty == closed

(***************************************************************************)
(* NewChan and NewChanOf.                                                  *)
(***************************************************************************)
NewChan == capacity \in Sizes /\ buf = << >>
NewChanOf == buf \in Preloads /\ capacity = Len(buf)

Init ==
  /\ NewChan \/ NewChanOf
  /\ chanClosed = FALSE
  /\ closed = FALSE
  /\ value = NoValue
  /\ pc = [p \in Proc |-> "idle"]
  /\ arg = [p \in Proc |-> NoValue]
  /\ ret = [p \in Proc |-> <<"none", NoValue>>]
  /\ sent = buf
  /\ taken = << >>

(***************************************************************************)
(* Push: one send.  It waits while the buffer is full, or, on a channel    *)
(* without a buffer, for a receiver; on a closed channel it panics.        *)
(***************************************************************************)
Push(p, v) ==
  /\ pc[p] = "idle"
  /\ Len(sent) < MaxSent
  /\ arg' = [arg EXCEPT ![p] = v]
  /\ Goto(p, "send")
  /\ UNCHANGED <<capacity, buf, chanClosed, closed, value, ret, sent, taken>>

SendBuffered(p) ==
  /\ pc[p] = "send"
  /\ ~chanClosed
  /\ Len(buf) < capacity
  /\ buf' = Append(buf, arg[p])
  /\ sent' = Append(sent, arg[p])
  /\ Goto(p, "idle")
  /\ UNCHANGED <<capacity, chanClosed, closed, value, arg, ret, taken>>

Rendezvous(p, q) ==
  /\ pc[p] = "send"
  /\ pc[q] = "recv"
  /\ ~chanClosed
  /\ capacity = 0
  /\ sent' = Append(sent, arg[p])
  /\ taken' = Append(taken, arg[p])
  /\ arg' = [arg EXCEPT ![q] = arg[p]]
  /\ pc' = [pc EXCEPT ![p] = "idle", ![q] = "store"]
  /\ UNCHANGED <<capacity, buf, chanClosed, closed, value, ret>>

SendPanics(p) ==
  /\ pc[p] = "send"
  /\ chanClosed
  /\ Goto(p, "panicked")
  /\ UNCHANGED <<capacity, buf, chanClosed, closed, value, arg, ret, sent, taken>>

(***************************************************************************)
(* Next: looks at the flag, then receives, then stores what it received in *)
(* the cell -- three steps that other goroutines may come between.         *)
(***************************************************************************)
NextNil(p) ==
  /\ pc[p] = "idle"
  /\ Empty
  /\ Return(p, <<"nil", NoValue>>)
  /\ UNCHANGED <<capacity, buf, chanClosed, closed, value, arg, sent, taken>>

NextEnter(p) ==
  /\ pc[p] = "idle"
  /\ ~Empty
  /\ Goto(p, "recv")
  /\ UNCHANGED <<capacity, buf, chanClosed, closed, value, arg, ret, sent, taken>>

Receive(p) ==
  /\ pc[p] = "recv"
  /\ buf # << >>
  /\ buf' = Tail(buf)
  /\ taken' = Append(taken, Head(buf))
  /\ arg' = [arg EXCEPT ![p] = Head(buf)]
  /\ Goto(p, "store")
  /\ UNCHANGED <<capacity, chanClosed, closed, value, ret, sent>>

ReceiveClosed(p) ==
  /\ pc[p] = "recv"
  /\ buf = << >>
  /\ chanClosed
  /\ Goto(p, "mark")
  /\ UNCHANGED <<capacity, buf, chanClosed, closed, value, arg, ret, sent, taken>>

MarkClosed(p) ==
  /\ pc[p] = "mark"
  /\ closed' = TRUE
  /\ Return(p, <<"nil", NoValue>>)
  /\ UNCHANGED <<capacity, buf, chanClosed, value, arg, sent, taken>>

(* atomic.Value refuses, by a panic, an element whose type is not that of  *)
(* the first one stored.                                                   *)
StoreValue(p) ==
  /\ pc[p] = "store"
  /\ value # NoValue => TypeOf[value] = TypeOf[arg[p]]
  /\ value' = arg[p]
  /\ Return(p, <<"seq", NoValue>>)
  /\ UNCHANGED <<capacity, buf, chanClosed, closed, arg, sent, taken>>

StorePanics(p) ==
  /\ pc[p] = "store"
  /\ value # NoValue
  /\ TypeOf[value] # TypeOf[arg[p]]
  /\ Goto(p, "panicked")
  /\ UNCHANGED <<capacity, buf, chanClosed, closed, value, arg, ret, sent, taken>>

(***************************************************************************)
(* First: looks at the flag, then reads the cell.                          *)
(***************************************************************************)
FirstNone(p) ==
  /\ pc[p] = "idle"
  /\ Empty
  /\ Return(p, <<"first", NoValue>>)
  /\ UNCHANGED <<capacity, buf, chanClosed, closed, value, arg, sent, taken>>

FirstEnter(p) ==
  /\ pc[p] = "idle"
  /\ ~Empty
  /\ Goto(p, "load")
  /\ UNCHANGED <<capacity, buf, chanClosed, closed, value, arg, ret, sent, taken>>

LoadValue(p) ==
  /\ pc[p] = "load"
  /\ Return(p, <<"first", value>>)
  /\ UNCHANGED <<capacity, buf, chanClosed, closed, value, arg, sent, taken>>

(***************************************************************************)
(* Close: stores the flag, then closes the channel; a second close panics. *)
(***************************************************************************)
Close(p) ==
  /\ pc[p] = "idle"
  /\ closed' = TRUE
  /\ Goto(p, "close")
  /\ UNCHANGED <<capacity, buf, chanClosed, value, arg, ret, sent, taken>>

CloseChan(p) ==
  /\ pc[p] = "close"
  /\ ~chanClosed
  /\ chanClosed' = TRUE
  /\ Goto(p, "idle")
  /\ UNCHANGED <<capacity, buf, closed, value, arg, ret, sent, taken>>

ClosePanics(p) ==
  /\ pc[p] = "close"
  /\ chanClosed
  /\ Goto(p, "panicked")
  /\ UNCHANGED <<capacity, buf, chanClosed, closed, value, arg, ret, sent, taken>>

(***************************************************************************)
(* The specification.                                                      *)
(***************************************************************************)
Call(p) ==
  \/ p \in Producers /\ \E v \in Value : Push(p, v)
  \/ p \in Consumers /\ (NextNil(p) \/ NextEnter(p) \/ FirstNone(p) \/ FirstEnter(p))
  \/ p \in Closers /\ Close(p)

Step(p) ==
  \/ SendBuffered(p)
  \/ \E q \in Proc : Rendezvous(p, q)
  \/ SendPanics(p)
  \/ Receive(p)
  \/ ReceiveClosed(p)
  \/ MarkClosed(p)
  \/ StoreValue(p)
  \/ StorePanics(p)
  \/ LoadValue(p)
  \/ CloseChan(p)
  \/ ClosePanics(p)

Next == \E p \in Proc : Call(p) \/ Step(p)

Spec == Init /\ [][Next]_vars

(* The scheduler runs every goroutine that can run: a call once begun goes *)
(* on.  Nothing makes a goroutine begin a call.                            *)
FairSpec == Spec /\ \A p \in Proc : WF_vars(Step(p))

(***************************************************************************)
(* Properties.                                                             *)
(***************************************************************************)

(* The type invariant: what each variable ranges over, and that a          *)
(* goroutine that is to send or to store holds an element.                 *)
TypeOK ==
  /\ capacity \in Nat
  /\ buf \in Seq(Value)
  /\ chanClosed \in BOOLEAN
  /\ closed \in BOOLEAN
  /\ value \in Value \cup {NoValue}
  /\ pc \in [Proc -> PC]
  /\ arg \in [Proc -> Value \cup {NoValue}]
  /\ ret \in [Proc -> Ret]
  /\ sent \in Seq(Value)
  /\ taken \in Seq(Value)
  /\ \A p \in Proc : pc[p] \in {"send", "store"} => arg[p] \in Value

(* Whatever the interleaving, the elements Push accepted are the elements  *)
(* Next received followed by those that still wait, in the same order:     *)
(* none is lost, doubled or overtaken, and no more wait than fit.          *)
Conservation ==
  /\ sent = taken \o buf
  /\ Len(buf) <= capacity

(* Close stores the flag before it closes the channel, so a closed channel *)
(* is never taken for an open one: no later Next blocks on it or drains it.*)
CloseOrder == chanClosed => closed

(* Next answers nil only once the sequence is closed: a goroutine that     *)
(* found the channel momentarily empty never sees the end of the sequence. *)
NilMeansClosed ==
  \A p \in Consumers : ret[p] = <<"nil", NoValue>> => closed

(* Once the flag is up no goroutine starts to wait for an element: what is *)
(* left in the buffer goes only to those that were waiting already, so     *)
(* Close ends the sequence without draining it.                            *)
Waiting == {p \in Proc : pc[p] = "recv"}

NobodyJoins == [][closed => Waiting' \subseteq Waiting]_vars

(* First never makes an element up: what the cell holds, and what a First  *)
(* that raced with any number of Next calls returned, was received once.   *)
Received == {taken[i] : i \in DOMAIN taken}

FirstWasReceived ==
  /\ value # NoValue => value \in Received
  /\ \A p \in Consumers :
       ret[p][1] = "first" /\ ret[p][2] # NoValue => ret[p][2] \in Received

(* With one consuming goroutine First shows the element of its last Next,  *)
(* never an earlier or a later one.  (With two it need not: between the    *)
(* receive and the Store of one, the other may do both.)                   *)
FirstIsLatest ==
  \A p \in Consumers :
    Consumers = {p} /\ taken # << >> /\ pc[p] \notin {"store", "panicked"}
      => value = taken[Len(taken)]

(* A goroutine blocked in Next, or in Push on a full buffer, when Close    *)
(* begins does not stay blocked: Next gets an element or nil, and Push is  *)
(* served or panics.                                                       *)
CloseUnblocks ==
  \A p \in Producers \cup Consumers :
    closed /\ pc[p] \in {"send", "recv"} ~> pc[p] \notin {"send", "recv"}

(***************************************************************************)
(* What the sequence promises, as a queue that can be closed.              *)
(***************************************************************************)
phase == IF chanClosed THEN "closed" ELSE IF closed THEN "closing" ELSE "open"

Queue == INSTANCE ClosableQueue
           WITH Client <- Proc, accepted <- sent, delivered <- taken,
                waiting <- Waiting

(* Every step of every method is a step of that queue, or is invisible.    *)
QueueSpec == Queue!Spec

(* The goroutines' scheduling gives the queue's own fairness: a waiting    *)
(* goroutine that could be answered is answered.                           *)
QueueFairSpec == Queue!FairSpec
=============================================================================
