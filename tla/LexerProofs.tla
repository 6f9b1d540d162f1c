---------------------------- MODULE LexerProofs ----------------------------
(***************************************************************************)
(* Proofs about Scanner, for every reader and every alphabet, and about    *)
(* Lexer, for any number of calls of Next.                                 *)
(***************************************************************************)
EXTENDS Lexer, DataLemmas

USE DEF scanVars

(***************************************************************************)
(* Types.  A read never happens after the look-ahead came up empty.        *)
(***************************************************************************)
LookAhead == next = RuneAt(read) \/ next = EOF

LEMMA RuneAtType == ASSUME TypeOK, NEW k \in Nat PROVE RuneAt(k) \in Rune
  BY RuneAssumption DEF TypeOK, RuneAt

LEMMA ErrorAtType ==
  ASSUME NEW k \in Nat
  PROVE  ErrorAt(k) \in {{}, {"eof"}, {"fail"}}
  BY DEF ErrorAt

LEMMA TypeInit == Init => TypeOK /\ LookAhead
<1> SUFFICES ASSUME NEW in \in Inputs, New(in) PROVE TypeOK /\ LookAhead
  BY DEF Init
<1>1. input \in Seq(Rune \cup {Failure}) /\ Len(input) \in Nat
  BY InputsAssumption DEF New
<1>2. RuneAt(1) \in Rune /\ RuneAt(2) \in Rune
  BY <1>1, RuneAssumption DEF RuneAt
<1>3. seen \in Seq(Rune \ {EOF})
  <2>1. CASE RuneAt(1) = EOF
    BY <2>1, EmptySeq DEF New, Visible
  <2>2. CASE RuneAt(1) # EOF
    BY <2>2, <1>2 DEF New, Visible
  <2> QED BY <2>1, <2>2
<1>4. err \subseteq {"eof", "fail"}
  BY ErrorAtType DEF New
<1> QED BY <1>1, <1>2, <1>3, <1>4 DEF New, TypeOK, LookAhead

LEMMA TypeStep == TypeOK /\ LookAhead /\ [Scan]_scanVars => (TypeOK /\ LookAhead)'
<1> SUFFICES ASSUME TypeOK, LookAhead, [Scan]_scanVars PROVE (TypeOK /\ LookAhead)'
  OBVIOUS
<1> USE DEF TypeOK, LookAhead
<1>1. CASE UNCHANGED scanVars
  BY <1>1 DEF RuneAt
<1>2. CASE ScanAtEnd
  BY <1>2, RuneAssumption DEF ScanAtEnd
<1>3. ASSUME next # EOF PROVE read + 1 \in 2 .. Len(input) + 2
  BY <1>3 DEF RuneAt
<1>4. CASE ScanAdvance
  <2>1. RuneAt(read + 1) \in Rune
    BY RuneAtType
  <2>2. seen' \in Seq(Rune \ {EOF})
    BY <1>4 DEF ScanAdvance
  <2>3. next' = RuneAt(read)'
    BY <1>4 DEF ScanAdvance, RuneAt
  <2>4. line' \in Nat /\ column' \in Nat
    BY <1>4 DEF ScanAdvance, updatePos
  <2> QED BY <1>3, <1>4, <2>1, <2>2, <2>3, <2>4 DEF ScanAdvance
<1>5. CASE ScanFails
  BY <1>3, <1>5, RuneAssumption DEF ScanFails, updatePos
<1> QED BY <1>1, <1>2, <1>4, <1>5 DEF Scan

(* The scanner's fields keep their types and it never reads past the first *)
(* io.EOF of the reader by more than New's second read.                    *)
THEOREM Typing == Spec => []TypeOK
<1>1. TypeOK /\ LookAhead => TypeOK
  OBVIOUS
<1> QED BY <1>1, TypeInit, TypeStep, PTL DEF Spec

(***************************************************************************)
(* Order and completeness.  InOrder says nothing once the cursor is at     *)
(* EOF, so it cannot carry NothingLost on its own: the invariant keeps     *)
(* what was seen at the moment the end was met.                            *)
(***************************************************************************)
SeenInOrder ==
  /\ 1 <= Len(seen) /\ IsText(Len(seen))
  /\ seen = SubSeq(input, 1, Len(seen))

ScanInv ==
  IsText(1) =>
    /\ SeenInOrder
    /\ current # EOF => read = Len(seen) + 1 /\ next = RuneAt(read)
    /\ current = EOF => next = EOF
    /\ current = EOF /\ "fail" \notin err => ~IsText(Len(seen) + 1)

LEMMA OneMore ==
  ASSUME TypeOK, SeenInOrder, IsText(Len(seen) + 1), input' = input,
         seen' = Append(seen, input[Len(seen) + 1])
  PROVE  SeenInOrder'
<1> DEFINE n == Len(seen)
           R == Rune \cup {Failure}
<1>1. n \in Nat /\ n + 1 \in DOMAIN input /\ input \in Seq(R)
  BY DEF TypeOK, IsText
<1>2. \A i \in 1 .. n + 1 : input[i] \in R
  BY <1>1 DEF IsText
<1>3. seen \in Seq(R) /\ input[n + 1] \in R
  BY <1>1, <1>2, LenProperties DEF TypeOK
<1>4. /\ seen' \in Seq(R)
      /\ Len(seen') = n + 1
      /\ \A i \in 1 .. n : seen'[i] = seen[i]
      /\ seen'[n + 1] = input[n + 1]
  BY <1>3, AppendProperties
<1>5. /\ SubSeq(input, 1, n + 1) \in Seq(R)
      /\ Len(SubSeq(input, 1, n + 1)) = n + 1
      /\ \A i \in 1 .. n + 1 : SubSeq(input, 1, n + 1)[i] = input[i]
  BY <1>1, <1>2, SubSeqProperties
<1>6. \A i \in 1 .. n : seen[i] = input[i]
  <2>1. seen = SubSeq(input, 1, n) /\ \A i \in 1 .. n : input[i] \in R
    BY <1>1, <1>2 DEF SeenInOrder
  <2> HIDE DEF n, R
  <2>2. \A i \in 1 .. n : SubSeq(input, 1, n)[i] = input[i]
    BY <1>1, <2>1, SubSeqProperties
  <2> QED BY <2>1, <2>2
<1>7. \A i \in 1 .. n + 1 : seen'[i] = SubSeq(input, 1, n + 1)[i]
  BY <1>1, <1>4, <1>5, <1>6
<1>8. seen' = SubSeq(input, 1, n + 1)
  BY <1>4, <1>5, <1>7, SeqEqual
<1> QED BY <1>1, <1>4, <1>8 DEF SeenInOrder, IsText

LEMMA ScanInit == Init => ScanInv
<1> SUFFICES ASSUME NEW in \in Inputs, New(in), IsText(1), TypeOK
             PROVE  /\ SeenInOrder
                    /\ current # EOF /\ read = Len(seen) + 1 /\ next = RuneAt(read)
  BY TypeInit DEF Init, ScanInv
<1>1. 1 \in DOMAIN input /\ input[1] = RuneAt(1) /\ RuneAt(1) # EOF
  BY DEF IsText, RuneAt
<1>2. seen = <<input[1]>>
  BY <1>1 DEF New, Visible
<1>3. SubSeq(input, 1, 1) = <<input[1]>>
  <2>1. \A i \in 1 .. 1 : input[i] \in Rune \cup {Failure}
    BY <1>1 DEF TypeOK
  <2>2. /\ SubSeq(input, 1, 1) \in Seq(Rune \cup {Failure})
        /\ Len(SubSeq(input, 1, 1)) = 1
        /\ \A i \in 1 .. 1 : SubSeq(input, 1, 1)[i] = input[i]
    BY <2>1, SubSeqProperties
  <2>3. <<input[1]>> \in Seq(Rune \cup {Failure}) /\ Len(<<input[1]>>) = 1
    BY <2>1
  <2>4. \A i \in 1 .. 1 : SubSeq(input, 1, 1)[i] = <<input[1]>>[i]
    BY <2>2
  <2> QED BY <2>2, <2>3, <2>4, SeqEqual
<1>4. Len(seen) = 1
  BY <1>2
<1>5. SeenInOrder
  BY <1>2, <1>3, <1>4 DEF SeenInOrder
<1>6. read = Len(seen) + 1 /\ next = RuneAt(read)
  <2>1. read = 2 /\ next = RuneAt(2)
    BY DEF New
  <2> QED BY <1>4, <2>1
<1> QED BY <1>1, <1>5, <1>6 DEF New

LEMMA ScanStep == TypeOK /\ ScanInv /\ [Scan]_scanVars => ScanInv'
<1> SUFFICES ASSUME TypeOK, ScanInv, [Scan]_scanVars, IsText(1)' PROVE ScanInv'
  BY DEF ScanInv
<1>1. input' = input
  BY DEF Scan, ScanAtEnd, ScanAdvance, ScanFails
<1>2. IsText(1)
  BY <1>1 DEF IsText
<1>3. \A n : IsText(n)' <=> IsText(n)
  BY <1>1 DEF IsText
<1>4. CASE UNCHANGED scanVars
  BY <1>4, <1>2, <1>3 DEF ScanInv, SeenInOrder, RuneAt
<1>5. CASE ScanAtEnd
  <2>1. SeenInOrder'
    BY <1>2, <1>3, <1>5 DEF ScanInv, SeenInOrder, ScanAtEnd
  <2>2. "fail" \notin err => ~IsText(Len(seen) + 1)
    BY <1>2, <1>5 DEF ScanInv, ScanAtEnd, RuneAt, IsText
  <2> QED BY <1>3, <1>5, <2>1, <2>2 DEF ScanInv, ScanAtEnd
<1>6. CASE ScanAdvance
  <2>1. SeenInOrder /\ read = Len(seen) + 1 /\ next = RuneAt(read)
    BY <1>2, <1>6 DEF ScanInv, ScanAdvance
  <2>2. Len(seen) \in Nat /\ next = input[Len(seen) + 1] /\ IsText(Len(seen) + 1)
    <3>1. Len(seen) \in Nat
      BY LenProperties DEF TypeOK
    <3>2. /\ Len(seen) + 1 \in DOMAIN input /\ next = input[Len(seen) + 1]
          /\ input[Len(seen) + 1] \notin {EOF, Failure}
      BY <1>6, <2>1 DEF ScanAdvance, RuneAt
    <3> QED BY <2>1, <3>1, <3>2 DEF IsText, SeenInOrder
  <2>3. SeenInOrder'
    BY <1>1, <1>6, <2>1, <2>2, OneMore DEF ScanAdvance
  <2>4. Len(seen') = Len(seen) + 1
    BY <1>6, AppendProperties DEF ScanAdvance, TypeOK
  <2>5. next' = RuneAt(read)'
    BY <1>6 DEF ScanAdvance, RuneAt
  <2> QED BY <1>6, <2>1, <2>2, <2>3, <2>4, <2>5 DEF ScanInv, ScanAdvance
<1>7. CASE ScanFails
  BY <1>2, <1>3, <1>7 DEF ScanInv, SeenInOrder, ScanFails
<1> QED BY <1>4, <1>5, <1>6, <1>7 DEF Scan

(* Runes come under the cursor one by one in the order of the input.       *)
THEOREM ScansInOrder == Spec => []InOrder
<1>1. ScanInv => InOrder
  BY DEF ScanInv, SeenInOrder, InOrder
<1>2. Init => TypeOK /\ LookAhead /\ ScanInv
  BY TypeInit, ScanInit
<1>3. TypeOK /\ LookAhead /\ ScanInv /\ [Scan]_scanVars => (TypeOK /\ LookAhead /\ ScanInv)'
  BY TypeStep, ScanStep
<1> QED BY <1>1, <1>2, <1>3, PTL DEF Spec

(* Unless a read fails, the scanner says EOF only where the text ends.     *)
THEOREM ScansAll == Spec => []NothingLost
<1>1. ScanInv => NothingLost
  BY DEF ScanInv, NothingLost
<1>2. Init => TypeOK /\ LookAhead /\ ScanInv
  BY TypeInit, ScanInit
<1>3. TypeOK /\ LookAhead /\ ScanInv /\ [Scan]_scanVars => (TypeOK /\ LookAhead /\ ScanInv)'
  BY TypeStep, ScanStep
<1> QED BY <1>1, <1>2, <1>3, PTL DEF Spec

(***************************************************************************)
(* The position.  Both counters are sizes of sets of places in what was    *)
(* passed, and one more rune changes each set by the last place only.      *)
(***************************************************************************)
Newlines(s) == {i \in DOMAIN s : s[i] = Newline}
SinceNewline(s) == {i \in DOMAIN s : \A j \in i .. Len(s) : s[j] # Newline}

LEMMA FiniteCounts ==
  ASSUME NEW s \in Seq(Rune)
  PROVE  IsFiniteSet(Newlines(s)) /\ IsFiniteSet(SinceNewline(s))
<1>1. IsFiniteSet(1 .. Len(s)) /\ DOMAIN s = 1 .. Len(s)
  BY FS_Interval
<1> QED BY <1>1, FS_Subset DEF Newlines, SinceNewline

LEMMA AppendCounts ==
  ASSUME NEW s \in Seq(Rune), NEW ru \in Rune
  PROVE  /\ Cardinality(Newlines(Append(s, ru))) =
              IF ru = Newline THEN Cardinality(Newlines(s)) + 1 ELSE Cardinality(Newlines(s))
         /\ Cardinality(SinceNewline(Append(s, ru))) =
              IF ru = Newline THEN 0 ELSE Cardinality(SinceNewline(s)) + 1
<1> DEFINE n == Len(s)
           t == Append(s, ru)
<1>1. /\ n \in Nat /\ DOMAIN s = 1 .. n /\ DOMAIN t = 1 .. n + 1 /\ Len(t) = n + 1
      /\ t[n + 1] = ru /\ \A i \in 1 .. n : t[i] = s[i]
  BY AppendProperties
<1> HIDE DEF t, n
<1>2. n + 1 \notin Newlines(s) /\ n + 1 \notin SinceNewline(s)
  BY <1>1 DEF Newlines, SinceNewline
<1>3. Newlines(t) = IF ru = Newline THEN Newlines(s) \cup {n + 1} ELSE Newlines(s)
  BY <1>1 DEF Newlines
<1>4. SinceNewline(t) = IF ru = Newline THEN {} ELSE SinceNewline(s) \cup {n + 1}
  <2>1. n = Len(s)
    BY DEF n
  <2>2. ASSUME ru = Newline, NEW i \in DOMAIN t PROVE i \notin SinceNewline(t)
    BY <1>1, <2>2 DEF SinceNewline
  <2>3. ASSUME ru # Newline PROVE SinceNewline(t) = SinceNewline(s) \cup {n + 1}
    <3>1. ASSUME NEW i \in 1 .. n
          PROVE  (\A j \in i .. n + 1 : t[j] # Newline) <=> (\A j \in i .. n : s[j] # Newline)
      BY <1>1, <2>3
    <3>2. \A j \in n + 1 .. n + 1 : t[j] # Newline
      BY <1>1, <2>3
    <3> QED BY <1>1, <2>1, <3>1, <3>2 DEF SinceNewline
  <2> QED BY <2>2, <2>3 DEF SinceNewline
<1>5. /\ Cardinality(Newlines(t)) =
           IF ru = Newline THEN Cardinality(Newlines(s)) + 1 ELSE Cardinality(Newlines(s))
      /\ Cardinality(SinceNewline(t)) = IF ru = Newline THEN 0 ELSE Cardinality(SinceNewline(s)) + 1
  <2>1. IsFiniteSet(Newlines(s)) /\ IsFiniteSet(SinceNewline(s))
    BY FiniteCounts
  <2>2. Cardinality(Newlines(s) \cup {n + 1}) = Cardinality(Newlines(s)) + 1
    BY <1>2, <2>1, FS_AddElement
  <2>3. Cardinality(SinceNewline(s) \cup {n + 1}) = Cardinality(SinceNewline(s)) + 1
    BY <1>2, <2>1, FS_AddElement
  <2> QED BY <1>3, <1>4, <2>2, <2>3, FS_EmptySet
<1> QED BY <1>5 DEF t

LEMMA RuneFrom2 ==
  ASSUME NEW s \in Seq(Rune), 1 <= Len(s)
  PROVE  /\ SubSeq(s, 2, Len(s)) \in Seq(Rune)
         /\ Len(SubSeq(s, 2, Len(s))) = Len(s) - 1
         /\ \A i \in 1 .. Len(s) - 1 : SubSeq(s, 2, Len(s))[i] = s[i + 1]
<1>1. Len(s) \in Nat /\ \A i \in 2 .. Len(s) : s[i] \in Rune
  OBVIOUS
<1>2. /\ SubSeq(s, 2, Len(s)) \in Seq(Rune)
      /\ Len(SubSeq(s, 2, Len(s))) = IF 2 <= Len(s) THEN Len(s) - 2 + 1 ELSE 0
      /\ \A i \in 1 .. Len(s) - 2 + 1 : SubSeq(s, 2, Len(s))[i] = s[2 + i - 1]
  BY <1>1, SubSeqProperties
<1>3. Len(SubSeq(s, 2, Len(s))) = Len(s) - 1
  BY <1>1, <1>2
<1>4. ASSUME NEW i \in 1 .. Len(s) - 1 PROVE SubSeq(s, 2, Len(s))[i] = s[i + 1]
  <2>1. i \in 1 .. Len(s) - 2 + 1 /\ 2 + i - 1 = i + 1
    BY <1>1
  <2>2. SubSeq(s, 2, Len(s))[i] = s[2 + i - 1]
    BY <1>2, <2>1
  <2> QED BY <2>1, <2>2
<1> QED BY <1>2, <1>3, <1>4

LEMMA PassedAppend ==
  ASSUME TypeOK, 1 <= Len(seen), NEW ru \in Rune, seen' = Append(seen, ru)
  PROVE  Passed \in Seq(Rune) /\ Passed' = Append(Passed, ru)
<1> DEFINE n == Len(seen)
<1>1. seen \in Seq(Rune) /\ n \in Nat /\ Len(seen') = n + 1
  BY AppendProperties DEF TypeOK
<1>2. seen' \in Seq(Rune)
  BY <1>1, AppendProperties
<1>3. \A i \in 1 .. n : seen'[i] = seen[i] /\ seen[i] \in Rune
  BY <1>1
<1>4. seen'[n + 1] = ru
  BY <1>1
<1> HIDE DEF n
<1>5. /\ Passed \in Seq(Rune) /\ Len(Passed) = n - 1
      /\ \A i \in 1 .. n - 1 : Passed[i] = seen[i + 1]
  BY <1>1, RuneFrom2 DEF Passed, n
<1>6. /\ Passed' \in Seq(Rune) /\ Len(Passed') = n
      /\ \A i \in 1 .. n : Passed'[i] = seen'[i + 1]
  <2>1. 1 <= Len(seen') /\ Len(seen') - 1 = n
    BY <1>1
  <2> QED BY <1>2, <2>1, RuneFrom2 DEF Passed
<1>7. /\ Append(Passed, ru) \in Seq(Rune) /\ Len(Append(Passed, ru)) = n
      /\ \A i \in 1 .. n - 1 : Append(Passed, ru)[i] = seen[i + 1]
      /\ Append(Passed, ru)[n] = ru
  BY <1>1, <1>5, AppendProperties
<1>8. \A i \in 1 .. n : Passed'[i] = Append(Passed, ru)[i]
  <2> SUFFICES ASSUME NEW i \in 1 .. n PROVE Passed'[i] = Append(Passed, ru)[i]
    OBVIOUS
  <2>1. CASE i = n
    BY <1>1, <1>4, <1>6, <1>7, <2>1
  <2>2. CASE i # n
    <3>1. i \in 1 .. n - 1 /\ i + 1 \in 1 .. n
      BY <1>1, <2>2
    <3> QED BY <1>3, <1>6, <1>7, <3>1
  <2> QED BY <2>1, <2>2
<1> QED BY <1>5, <1>6, <1>7, <1>8, SeqEqual

Position == TypeOK /\ LookAhead /\ ScanInv /\ PositionCounts

LEMMA PositionInit == Init => Position
<1> SUFFICES ASSUME NEW in \in Inputs, New(in), TypeOK, LookAhead, ScanInv PROVE PositionCounts
  BY TypeInit, ScanInit DEF Init, Position
<1>1. ASSUME current # EOF PROVE Passed = << >>
  <2>1. Len(seen) = 1
    BY <1>1 DEF New, Visible
  <2> QED BY <2>1, SubSeqEmpty DEF Passed
<1> QED BY <1>1, FS_EmptySet DEF New, PositionCounts

LEMMA PositionStep == Position /\ [Scan]_scanVars => Position'
<1> SUFFICES ASSUME Position, [Scan]_scanVars, IsText(1)', (current # EOF)'
             PROVE  (/\ line = Cardinality(Newlines(Passed))
                     /\ column = Cardinality(SinceNewline(Passed)))'
  BY TypeStep, ScanStep DEF Position, PositionCounts, Newlines, SinceNewline
<1> USE DEF Position
<1>1. IsText(1)
  BY DEF IsText, Scan, ScanAtEnd, ScanAdvance, ScanFails
<1>2. CASE UNCHANGED scanVars
  BY <1>1, <1>2 DEF PositionCounts, Passed, Newlines, SinceNewline
<1>3. CASE ScanAdvance
  <2>1. current # EOF /\ 1 <= Len(seen)
    BY <1>1, <1>3 DEF ScanInv, SeenInOrder, ScanAdvance
  <2>2. line = Cardinality(Newlines(Passed)) /\ column = Cardinality(SinceNewline(Passed))
    BY <1>1, <2>1 DEF PositionCounts, Newlines, SinceNewline
  <2>3. next \in Rune /\ seen' = Append(seen, next) /\ updatePos(next)
    BY <1>3 DEF ScanAdvance, TypeOK
  <2>4. Passed \in Seq(Rune) /\ Passed' = Append(Passed, next)
    BY <2>1, <2>3, PassedAppend
  <2> QED BY <2>2, <2>3, <2>4, AppendCounts DEF updatePos
<1> QED BY <1>2, <1>3 DEF Scan, ScanAtEnd, ScanFails

(* Pos counts the newlines that were passed, and the runes since the last  *)
(* of them, for a text of any length (scanner.go:62-68).                   *)
THEOREM CountsPosition == Spec => []PositionCounts
<1>1. Position => PositionCounts
  BY DEF Position
<1> QED BY <1>1, PositionInit, PositionStep, PTL DEF Spec

USE DEF lexVars, ClassesApart

(***************************************************************************)
(* The lexer moves the cursor by Scan alone, so what holds of the scanner  *)
(* holds of the scanner inside the lexer.                                  *)
(***************************************************************************)
LEMMA StepScans == [LexNext]_vars => [Scan]_scanVars
  BY DEF LexNext, Step, vars, Call, SkipSeparator, Begin, EndOfInput, Single,
     CommentRune, CommentEnd, StringScan, StringAtEnd, StringClose, StringEscape,
     StringBadEscape, StringRune, NumberRune, NumberEnd, AtomRune, AtomEnd, AtomAtEnd

(* The lexer with everything but the cursor hidden is a scanner.           *)
THEOREM IsScanner == LexSpec => Spec
<1>1. LexInit => Init
  BY DEF LexInit
<1> QED BY <1>1, StepScans, PTL DEF LexSpec, Spec

(* Whatever the lexer does, each rune that comes under its cursor is the   *)
(* next one of the input, and the look-ahead is the one after it.          *)
THEOREM LexesInOrder == LexSpec => []InOrder
  BY IsScanner, ScansInOrder, PTL

(* The lexer comes to the end of a reader only when it has seen it all.    *)
THEOREM LexesAll == LexSpec => []NothingLost
  BY IsScanner, ScansAll, PTL

(***************************************************************************)
(* The cursor.  Scan moves it by one rune, except off the rune 0, and      *)
(* leaves what was seen before as it was.                                  *)
(***************************************************************************)
Seen == current # EOF => seen # << >> /\ current = seen[Len(seen)]

LEMMA HereType == TypeOK /\ Seen => Here \in Nat \ {0} /\ Here <= Len(seen) + 1
  BY EmptySeq, LenProperties DEF TypeOK, Seen, Here

LEMMA SeenInit == Init => Seen
<1> SUFFICES ASSUME NEW in \in Inputs, New(in) PROVE Seen
  BY DEF Init
<1> QED BY DEF New, Visible, Seen

LEMMA ScanMoves ==
  ASSUME TypeOK, Seen, Scan
  PROVE  /\ Seen'
         /\ Here' = IF current = EOF THEN Here ELSE Here + 1
         /\ Len(seen) <= Len(seen')
         /\ \A k \in 1 .. Len(seen) : seen'[k] = seen[k]
<1> USE DEF TypeOK
<1>1. Len(seen) \in Nat
  OBVIOUS
<1>2. CASE ScanAtEnd
  BY <1>1, <1>2 DEF ScanAtEnd, Seen, Here
<1>3. CASE ScanAdvance
  <2>1. seen' = Append(seen, next) /\ current' = next /\ next # EOF
    BY <1>3 DEF ScanAdvance
  <2>2. /\ Len(seen') = Len(seen) + 1 /\ seen'[Len(seen')] = next
        /\ \A k \in 1 .. Len(seen) : seen'[k] = seen[k]
    BY <2>1
  <2> QED BY <1>1, <2>1, <2>2 DEF Seen, Here
<1>4. CASE ScanFails
  BY <1>1, <1>4 DEF ScanFails, Seen, Here
<1> QED BY <1>2, <1>3, <1>4 DEF Scan

(* Pos is the count of what the lexer passed.                              *)
THEOREM LexesCount == LexSpec => []PositionCounts
  BY IsScanner, CountsPosition, PTL

(***************************************************************************)
(* What a call returns, and which reader it picks.                         *)
(***************************************************************************)
Kinds == Rune \cup {"comment", "string", "int", "float", "symbol", "keyword", "EOF", "nil"}
Errors == {"eof", "fail", "bad string", "unexpected EOF"}
Answers == [kind : Kinds, from : Nat \ {0}, to : Nat \ {0}, errs : SUBSET Errors]

LEMMA NumberKinds ==
  ASSUME NEW value PROVE numberKind(value) \in {"symbol", "int", "float"}
  BY DEF numberKind

(* Return appends one answer, with the errors it is given.                 *)
LEMMA ReturnAppends ==
  ASSUME out \in Seq(Answers), from \in Nat \ {0},
         NEW kind \in Kinds, NEW to \in Nat \ {0}, NEW errs \in SUBSET Errors,
         Return(kind, to, errs)
  PROVE  /\ out' \in Seq(Answers)
         /\ Len(out') = Len(out) + 1
         /\ out'[Len(out')].from = from /\ out'[Len(out')].to = to
         /\ out'[Len(out')].errs = errs
         /\ out'[Len(out')].kind = IF errs = {} THEN kind ELSE "EOF"
         /\ \A i \in DOMAIN out : out'[i] = out[i]
         /\ mode' = "idle" /\ from' = from
<1> DEFINE answer == IF errs = {} THEN [kind |-> kind, from |-> from, to |-> to, errs |-> {}]
                                  ELSE [kind |-> "EOF", from |-> from, to |-> to, errs |-> errs]
<1>1. answer \in Answers
  BY DEF Answers, Kinds
<1>2. /\ answer.errs = errs /\ answer.kind = IF errs = {} THEN kind ELSE "EOF"
      /\ answer.from = from /\ answer.to = to
  OBVIOUS
<1>3. out' = Append(out, answer) /\ mode' = "idle" /\ from' = from
  BY DEF Return
<1> HIDE DEF answer
<1>4. Len(out') = Len(out) + 1 /\ out'[Len(out')] = answer /\ out' \in Seq(Answers)
  BY <1>1, <1>3, AppendProperties
<1>5. \A i \in DOMAIN out : out'[i] = out[i]
  BY <1>1, <1>3, AppendProperties
<1> QED BY <1>2, <1>3, <1>4, <1>5

LEMMA ReaderOf ==
  ASSUME NEW ru
  PROVE  /\ reader(ru) = "single" => ru \in brackets \cup {".", "'"}
         /\ reader(ru) = "eof" => ru = EOF
         /\ reader(EOF) = "eof"
         /\ reader(ru) = "comment" => ru = ";"
         /\ reader(ru) = "number" => isNumberRune(ru)
         /\ reader(ru) \in {"string", "keyword", "symbol"} => ru # EOF
         /\ reader(ru) \notin {"idle", "start", "body"}
  BY DEF reader, isDigit, isNumberRune, numbery

(***************************************************************************)
(* The readers.  A reader that has not moved the cursor yet is at a rune   *)
(* it will take; the end of input is where the cursor is.                  *)
(***************************************************************************)
Between == mode \in {"idle", "start"}

Reading ==
  /\ ~Between => from <= Here
  /\ mode = "single" => from = Here /\ current \in brackets \cup {".", "'"}
  /\ mode = "eof" => from = Here /\ current = EOF
  /\ mode = "comment" /\ from = Here => current = ";"
  /\ mode = "number" /\ from = Here => isNumberRune(current)
  /\ mode \in {"string", "keyword", "symbol"} /\ from = Here => current # EOF
  /\ mode = "body" => from < Here

LexTypes == from \in Nat \ {0} /\ out \in Seq(Answers)

(* A call that returns is at the end of what it read, of one rune at least *)
(* unless it says EOF; and it gives up only with the errors of the reader  *)
(* and at the end of the input, or else on a malformed string.             *)
GivesUp(kind, errs) ==
  errs # {"bad string"} /\ (errs # {} \/ kind \in {"EOF", "nil"})

Returns(kind, to, errs) ==
  /\ ~Between
  /\ Return(kind, to, errs)
  /\ kind \in Kinds /\ errs \in SUBSET Errors
  /\ to = Here' /\ from <= to
  /\ errs = {} /\ kind # "EOF" => from < to
  /\ GivesUp(kind, errs) =>
       err' \subseteq errs /\ (EOF \in {current, current'} \/ (Scan /\ err' # {}))

GoesOn == ~Between /\ ~Between' /\ Reading' /\ UNCHANGED <<from, out>>

LEMMA Classes ==
  /\ EOF \notin brackets /\ EOF \notin {".", "'", Quote, "\\", ";"}
  /\ EOF \notin strEscapes /\ Newline # ";"
  /\ ~isNumberRune(EOF)
  BY ClassAssumption DEF strEscapes, isNumberRune, isDigit, numbery, floaty

LEMMA StepCases ==
  ASSUME TypeOK, TypeOK', Seen, LexTypes, Reading, Step
  PROVE  \/ SkipSeparator \/ Begin \/ GoesOn
         \/ \E kind \in Kinds, to \in Nat, errs \in SUBSET Errors : Returns(kind, to, errs)
<1>1. Here \in Nat \ {0} /\ from \in Nat \ {0}
  BY HereType DEF LexTypes
<1>2. Scan => /\ current = EOF => Here' = Here
              /\ current # EOF => Here' = Here + 1
  BY ScanMoves
<1>3. Scan => /\ Here' \in Nat \ {0} /\ Here <= Here'
              /\ current # EOF => Here < Here'
  BY <1>1, <1>2
<1> DEFINE Moves == from < Here'
<1>4. Scan /\ from <= Here /\ (from = Here => current # EOF) => Moves
  BY <1>1, <1>2, <1>3
<1>5. Scan /\ Moves => from <= Here'
  BY <1>1, <1>3
<1>6. ASSUME ~Between, Scan, Moves, UNCHANGED <<from, out>>,
              mode' \in {"comment", "number", "string", "keyword", "symbol", "body"}
       PROVE  GoesOn
  <2>1. from' <= Here' /\ from' # Here' /\ from' < Here'
    BY <1>1, <1>3, <1>6
  <2> QED BY <1>6, <2>1 DEF GoesOn, Between, Reading
<1>7. UNCHANGED scanVars => Here' = Here
  BY DEF Here
<1>8. err' \in SUBSET Errors /\ err \in SUBSET Errors
  BY DEF TypeOK, Errors
<1>9. CASE EndOfInput
  <2>1. Returns("EOF", from, err')
    BY <1>1, <1>2, <1>8, <1>9 DEF EndOfInput, Returns, Between, Reading, GivesUp, Kinds
  <2> QED BY <1>1, <1>8, <2>1 DEF Kinds
<1>10. CASE Single
  <2>1. current \in Kinds /\ current # EOF /\ current \notin {"EOF", "nil"}
    BY <1>10, Classes DEF Single, Reading, TypeOK, Kinds, brackets
  <2>2. Returns(current, from + 1, {})
    BY <1>1, <1>2, <1>10, <2>1 DEF Single, Returns, Between, Reading, GivesUp
  <2> QED BY <1>1, <2>1, <2>2
<1>11. CASE CommentRune
  BY <1>11, <1>4, <1>6 DEF CommentRune, Between, Reading
<1>12. CASE CommentEnd
  <2>1. from <= Here /\ from # Here
    BY <1>12, Classes DEF CommentEnd, Between, Reading
  <2>2. from < Here
    BY <1>1, <2>1
  <2>3. Returns("comment", Here, {})
    BY <1>7, <1>12, <2>1, <2>2 DEF CommentEnd, Returns, Between, GivesUp, Kinds
  <2> QED BY <1>1, <2>3 DEF Kinds
<1>13. CASE StringScan
  BY <1>1, <1>2, <1>13 DEF StringScan, Goto, GoesOn, Between, Reading
<1>14. CASE StringAtEnd
  <2>1. Returns("nil", Here, err \cup {"bad string", "unexpected EOF"})
    BY <1>1, <1>7, <1>8, <1>14 DEF StringAtEnd, Returns, Between, Reading, GivesUp, Kinds, Errors
  <2> QED BY <1>1, <1>8, <2>1 DEF Kinds, Errors
<1>15. CASE StringClose
  <2>1. current # EOF
    BY <1>15, Classes DEF StringClose, strEscapes
  <2>2. Len(seen) + 1 = Here'
    BY <1>2, <1>15, <2>1 DEF StringClose, Here
  <2>3. from < Here' /\ from <= Here'
    BY <1>15, <1>4, <1>5, <2>1 DEF StringClose, Between, Reading
  <2>4. Returns("string", Here', err')
    BY <1>8, <1>15, <2>2, <2>3 DEF StringClose, Returns, Between, GivesUp, Kinds
  <2> QED BY <1>3, <1>8, <1>15, <2>4 DEF Kinds, StringClose
<1>16. CASE StringEscape
  BY <1>16, <1>4, <1>6, Classes DEF StringEscape, Goto, Between, Reading
<1>17. CASE StringBadEscape
  <2>1. Returns("nil", Here, {"bad string"})
    BY <1>1, <1>7, <1>17 DEF StringBadEscape, Returns, Between, Reading, GivesUp, Kinds, Errors
  <2> QED BY <1>1, <2>1 DEF Kinds, Errors
<1>18. CASE StringRune
  BY <1>18, <1>4, <1>6 DEF StringRune, Between, Reading
<1>19. CASE NumberRune
  BY <1>19, <1>4, <1>6, Classes DEF NumberRune, Between, Reading
<1>20. CASE NumberEnd
  <2> DEFINE kind == numberKind(SubSeq(seen, from, Here - 1))
  <2>1. kind \in Kinds /\ kind \notin {"EOF", "nil"}
    BY NumberKinds DEF Kinds
  <2> HIDE DEF kind
  <2>2. mode = "number" /\ ~isNumberRune(current) /\ Return(kind, Here, {}) /\ UNCHANGED scanVars
    BY <1>20 DEF NumberEnd, kind
  <2>3. Returns(kind, Here, {})
    BY <1>1, <1>7, <2>1, <2>2 DEF Returns, Between, Reading, GivesUp
  <2> QED BY <1>1, <2>1, <2>3
<1>21. CASE AtomRune
  BY <1>21, <1>4, <1>6 DEF AtomRune, Between, Reading
<1>22. CASE AtomEnd
  <2>1. Len(seen') = Here'
    BY <1>22 DEF AtomEnd, Here
  <2>2. from < Here' /\ from <= Here'
    BY <1>22, <1>4, <1>5 DEF AtomEnd, Between, Reading
  <2>3. mode \in Kinds /\ mode \notin {"EOF", "nil"}
    BY <1>22 DEF AtomEnd, Kinds
  <2>4. Returns(mode, Here', err')
    BY <1>8, <1>22, <2>1, <2>2, <2>3 DEF AtomEnd, Returns, Between, GivesUp
  <2> QED BY <1>3, <1>8, <1>22, <2>3, <2>4 DEF AtomEnd
<1>23. CASE AtomAtEnd
  <2>1. from < Here'
    BY <1>23, <1>4 DEF AtomAtEnd, Between, Reading
  <2>2. Returns("nil", Here', err')
    BY <1>1, <1>2, <1>8, <1>23, <2>1 DEF AtomAtEnd, Returns, Between, GivesUp, Kinds
  <2> QED BY <1>3, <1>8, <1>23, <2>2 DEF AtomAtEnd, Kinds
<1> QED
  BY <1>9, <1>10, <1>11, <1>12, <1>13, <1>14, <1>15, <1>16, <1>17, <1>18, <1>19, <1>20,
     <1>21, <1>22, <1>23 DEF Step

(***************************************************************************)
(* The answers tile what was seen, and the reader at work is past them.    *)
(***************************************************************************)
Start == Resumed(Len(out) + 1)
Skipped(a, b) == \A k \in a .. b - 1 : isSpace(seen[k])

Tile(i) ==
  /\ Resumed(i) <= out[i].from /\ out[i].from <= out[i].to /\ out[i].to <= Len(seen) + 1
  /\ Skipped(Resumed(i), out[i].from)
  /\ out[i].kind # "EOF" => out[i].from < out[i].to

Place ==
  /\ mode = "idle" => Here = Start
  /\ mode = "start" => Start <= Here /\ Skipped(Start, Here)
  /\ ~Between => Start <= from /\ Skipped(Start, from)

LexInv ==
  /\ TypeOK /\ LookAhead /\ Seen /\ LexTypes /\ Reading
  /\ \A i \in DOMAIN out : Tile(i)
  /\ Place

LEMMA ResumedType ==
  ASSUME LexTypes, NEW i \in 1 .. Len(out) + 1
  PROVE  Resumed(i) \in Nat \ {0}
<1>1. CASE i = 1
  BY <1>1 DEF Resumed
<1>2. CASE i # 1
  <2>1. i - 1 \in 1 .. Len(out)
    BY <1>2 DEF LexTypes
  <2>2. out[i - 1] \in Answers
    BY <2>1 DEF LexTypes
  <2> QED BY <1>2, <2>2 DEF Resumed, Answers
<1> QED BY <1>1, <1>2

LEMMA LexInit0 == LexInit => LexInv
<1> SUFFICES ASSUME LexInit PROVE LexInv
  OBVIOUS
<1>1. TypeOK /\ LookAhead /\ Seen
  BY TypeInit, SeenInit DEF LexInit
<1>2. out = << >> /\ Len(out) = 0 /\ DOMAIN out = {} /\ mode = "idle" /\ from = 1
  BY EmptySeq DEF LexInit
<1>3. LexTypes /\ Reading
  BY <1>2, EmptySeq DEF LexTypes, Reading, Between
<1>4. Here = 1
  <2> SUFFICES ASSUME NEW in \in Inputs, New(in) PROVE Here = 1
    BY DEF LexInit, Init
  <2> QED BY DEF New, Visible, Here
<1>5. Start = 1
  BY <1>2 DEF Start, Resumed
<1> QED BY <1>1, <1>2, <1>3, <1>4, <1>5 DEF LexInv, Place, Between

(* What holds of a stretch that was seen goes on holding.                  *)
LEMMA SeenStays ==
  ASSUME LexInv, [Scan]_scanVars
  PROVE  /\ TypeOK' /\ LookAhead' /\ Seen'
         /\ Here \in Nat \ {0} /\ Here' \in Nat \ {0} /\ Here <= Here'
         /\ Here <= Len(seen) + 1 /\ Here' <= Len(seen') + 1
         /\ Len(seen) \in Nat /\ Len(seen') \in Nat /\ Len(seen) <= Len(seen')
         /\ \A k \in 1 .. Len(seen) : seen'[k] = seen[k]
<1> USE DEF LexInv
<1>1. TypeOK' /\ LookAhead'
  BY TypeStep
<1>2. Len(seen) \in Nat /\ Len(seen') \in Nat
  BY <1>1 DEF TypeOK
<1>3. Here \in Nat \ {0} /\ Here <= Len(seen) + 1
  BY HereType
<1>4. CASE Scan
  <2>1. Seen' /\ Len(seen) <= Len(seen') /\ \A k \in 1 .. Len(seen) : seen'[k] = seen[k]
    BY <1>4, ScanMoves
  <2>2. Here' = IF current = EOF THEN Here ELSE Here + 1
    BY <1>4, ScanMoves
  <2>3. Here' \in Nat \ {0} /\ Here <= Here'
    BY <1>3, <2>2
  <2>4. Here' <= Len(seen') + 1
    BY <1>2 DEF Here
  <2> QED BY <1>1, <1>2, <1>3, <2>1, <2>3, <2>4
<1>5. CASE UNCHANGED scanVars
  <2>1. Here' = Here /\ seen' = seen /\ Seen'
    BY <1>5 DEF Here, Seen
  <2> QED BY <1>1, <1>2, <1>3, <2>1
<1> QED BY <1>4, <1>5

LEMMA SkippedStays ==
  ASSUME LexInv, [Scan]_scanVars, NEW a \in Nat \ {0}, NEW b \in Nat, b <= Len(seen) + 1,
         Skipped(a, b)
  PROVE  \A k \in a .. b - 1 : isSpace(seen'[k])
<1> SUFFICES ASSUME NEW k \in a .. b - 1 PROVE isSpace(seen'[k])
  OBVIOUS
<1>1. k \in 1 .. Len(seen)
  BY SeenStays
<1> QED BY <1>1, SeenStays DEF Skipped

(* A step leaves the answers there are as they are.                        *)
LEMMA TileStays ==
  ASSUME LexInv, [Scan]_scanVars, LexTypes', NEW i \in DOMAIN out, i \in DOMAIN out',
         \A j \in DOMAIN out : out'[j] = out[j]
  PROVE  Tile(i)' /\ Resumed(i)' = Resumed(i)
<1> USE DEF LexInv
<1>1. i \in 1 .. Len(out) /\ out[i] \in Answers
  BY DEF LexTypes
<1>2. Resumed(i)' = Resumed(i)
  <2>1. i # 1 => i - 1 \in DOMAIN out
    BY <1>1 DEF LexTypes
  <2> QED BY <2>1 DEF Resumed
<1>3. Resumed(i) \in Nat \ {0}
  BY <1>1, ResumedType
<1>4. out[i].from \in Nat /\ out[i].to \in Nat
  BY <1>1 DEF Answers
<1>5. out[i].from <= Len(seen) + 1 /\ out[i].to <= Len(seen') + 1
  BY <1>4, SeenStays DEF Tile
<1>6. \A k \in Resumed(i) .. out[i].from - 1 : isSpace(seen'[k])
  BY <1>3, <1>4, <1>5, SkippedStays DEF Tile
<1> QED BY <1>2, <1>5, <1>6 DEF Tile, Skipped

LEMMA StartStays ==
  ASSUME LexInv, out' = out
  PROVE  Start' = Start /\ Start \in Nat \ {0}
<1>1. Start' = Start
  BY DEF Start, Resumed
<1>2. Len(out) + 1 \in 1 .. Len(out) + 1
  BY DEF LexInv, LexTypes
<1> QED BY <1>1, <1>2, ResumedType DEF Start, LexInv

(* A step that leaves the answers alone has only its own place to show.    *)
LEMMA NoAnswer ==
  ASSUME LexInv, [Scan]_scanVars, out' = out, from' \in Nat \ {0}, Reading', Place'
  PROVE  LexInv'
<1>1. LexTypes'
  BY DEF LexInv, LexTypes
<1>2. ASSUME NEW i \in DOMAIN out' PROVE Tile(i)'
  BY <1>1, <1>2, TileStays
<1> QED BY <1>1, <1>2, SeenStays DEF LexInv

LEMMA Answer ==
  ASSUME LexInv, [Scan]_scanVars,
         NEW kind \in Kinds, NEW to \in Nat, NEW errs \in SUBSET Errors,
         Returns(kind, to, errs)
  PROVE  LexInv'
<1> USE DEF LexInv
<1>1. to = Here' /\ to \in Nat \ {0} /\ from \in Nat \ {0} /\ Return(kind, to, errs)
  BY SeenStays DEF Returns, LexTypes
<1>2. /\ out' \in Seq(Answers) /\ Len(out') = Len(out) + 1
      /\ out'[Len(out')].from = from /\ out'[Len(out')].to = to
      /\ out'[Len(out')].kind = IF errs = {} THEN kind ELSE "EOF"
      /\ \A i \in DOMAIN out : out'[i] = out[i]
      /\ mode' = "idle" /\ from' = from
  BY <1>1, ReturnAppends DEF LexTypes
<1>3. LexTypes' /\ Reading'
  BY <1>1, <1>2 DEF LexTypes, Reading, Between
<1>4. Len(out) \in Nat /\ DOMAIN out = 1 .. Len(out) /\ DOMAIN out' = 1 .. Len(out) + 1
  BY <1>2 DEF LexTypes
<1>5. ASSUME NEW i \in DOMAIN out PROVE Tile(i)'
  BY <1>2, <1>3, <1>4, <1>5, TileStays
<1> PICK n \in Nat : n = Len(out) + 1
  BY <1>4
<1>6. Resumed(n)' = Start
  BY <1>2, <1>4 DEF Start, Resumed
<1>7. Start \in Nat \ {0} /\ Start <= from /\ Skipped(Start, from)
  BY <1>4, ResumedType DEF Start, Place, Returns
<1>8. from <= Len(seen) + 1
  <2>1. from <= Here
    BY DEF Reading, Returns
  <2> QED BY <1>1, <2>1, SeenStays
<1>9. Tile(n)'
  <2>1. \A k \in Start .. from - 1 : isSpace(seen'[k])
    BY <1>1, <1>7, <1>8, SkippedStays
  <2>2. from <= to /\ to <= Len(seen') + 1 /\ (errs = {} /\ kind # "EOF" => from < to)
    BY <1>1, SeenStays DEF Returns
  <2> QED BY <1>2, <1>6, <1>7, <2>1, <2>2 DEF Tile, Skipped
<1>10. Place'
  <2>1. Len(out') + 1 # 1 /\ Len(out') + 1 - 1 = Len(out')
    BY <1>2, <1>4
  <2>2. Start' = to
    BY <1>2, <2>1 DEF Start, Resumed
  <2> QED BY <1>1, <1>2, <2>2 DEF Place, Between
<1>11. \A i \in DOMAIN out' : Tile(i)'
  BY <1>4, <1>5, <1>9
<1> QED BY <1>3, <1>10, <1>11, SeenStays

LEMMA LexStep == LexInv /\ [LexNext]_vars => LexInv'
<1> SUFFICES ASSUME LexInv, [LexNext]_vars PROVE LexInv'
  OBVIOUS
<1> USE DEF LexInv
<1>1. [Scan]_scanVars
  BY StepScans
<1>2. from \in Nat \ {0} /\ Here \in Nat \ {0} /\ TypeOK'
  BY <1>1, SeenStays DEF LexTypes
<1>3. CASE UNCHANGED vars
  <2>1. out' = out /\ Here' = Here /\ Start' = Start /\ Reading'
    BY <1>3 DEF vars, Here, Start, Resumed, Reading, Between
  <2>2. Place'
    BY <1>3, <2>1 DEF vars, Place, Between, Skipped
  <2> QED BY <1>1, <1>2, <1>3, <2>1, <2>2, NoAnswer DEF vars
<1>4. CASE Call
  <2>1. out' = out /\ from' = from /\ mode = "idle" /\ mode' = "start" /\ Here' = Here
    BY <1>4 DEF Call, Goto, Here
  <2>2. Start' = Start /\ Reading'
    BY <2>1, StartStays DEF Reading, Between
  <2>3. Place'
    BY <1>2, <2>1, <2>2 DEF Place, Between, Skipped
  <2> QED BY <1>1, <1>2, <2>1, <2>2, <2>3, NoAnswer
<1>5. CASE SkipSeparator
  <2>1. out' = out /\ from' = from /\ mode = "start" /\ mode' = "start" /\ isSpace(current) /\ Scan
    BY <1>5 DEF SkipSeparator
  <2>2. current # EOF
    BY <2>1, ClassAssumption
  <2>3. Here' = Here + 1 /\ Here = Len(seen) /\ isSpace(seen[Here])
    BY <2>1, <2>2, ScanMoves DEF Here, Seen
  <2>4. Start' = Start /\ Start \in Nat \ {0} /\ Reading'
    BY <2>1, StartStays DEF Reading, Between
  <2>5. Skipped(Start, Here + 1) /\ Start <= Here
    BY <1>2, <2>1, <2>3, <2>4 DEF Place, Skipped
  <2>6. \A k \in Start .. Here + 1 - 1 : isSpace(seen'[k])
    BY <1>1, <1>2, <2>3, <2>4, <2>5, SkippedStays
  <2>7. Place'
    BY <1>2, <2>1, <2>3, <2>4, <2>5, <2>6 DEF Place, Between, Skipped
  <2> QED BY <1>1, <1>2, <2>1, <2>4, <2>7, NoAnswer
<1>6. CASE Begin
  <2>1. /\ out' = out /\ from' = Here /\ mode = "start" /\ mode' = reader(current)
        /\ UNCHANGED scanVars
    BY <1>6 DEF Begin
  <2>2. Here' = Here /\ Start' = Start
    BY <2>1 DEF Here, Start, Resumed
  <2>3. Reading'
    <3>1. from' = Here' /\ current' = current /\ from' <= Here'
      BY <1>2, <2>1, <2>2
    <3> QED BY <2>1, <3>1, ReaderOf DEF Reading, Between, isNumberRune, isDigit
  <2>4. Place'
    BY <2>1, <2>2, ReaderOf DEF Place, Between, Skipped
  <2> QED BY <1>1, <1>2, <2>1, <2>3, <2>4, NoAnswer
<1>7. CASE GoesOn
  <2>1. out' = out /\ from' = from /\ ~Between /\ ~Between' /\ Reading'
    BY <1>7 DEF GoesOn
  <2>2. Start' = Start /\ Start \in Nat \ {0}
    BY <2>1, StartStays
  <2>3. from <= Len(seen) + 1
    <3>1. from <= Here
      BY <2>1 DEF Reading
    <3> QED BY <1>1, <1>2, <3>1, SeenStays
  <2>4. \A k \in Start .. from - 1 : isSpace(seen'[k])
    BY <1>1, <1>2, <2>1, <2>2, <2>3, SkippedStays DEF Place
  <2>5. Place'
    BY <2>1, <2>2, <2>4 DEF Place, Between, Skipped
  <2> QED BY <1>1, <1>2, <2>1, <2>5, NoAnswer
<1>8. CASE \E kind \in Kinds, to \in Nat, errs \in SUBSET Errors : Returns(kind, to, errs)
  BY <1>1, <1>8, Answer
<1> QED BY <1>2, <1>3, <1>4, <1>5, <1>6, <1>7, <1>8, StepCases DEF LexNext

(* No rune is read twice or passed over: every call of Next goes on where  *)
(* the one before it stopped, leaves out nothing but separators, and takes *)
(* at least one rune unless it says EOF (lexer.go:43-80).                  *)
THEOREM ReadsOnce == LexSpec => []EveryRuneOnce
<1>1. LexInv => EveryRuneOnce
  <2> SUFFICES ASSUME LexInv PROVE EveryRuneOnce
    OBVIOUS
  <2>1. ASSUME mode = "idle", out # << >> PROVE Here = LastOut.to
    <3>1. Len(out) + 1 # 1 /\ Len(out) + 1 - 1 = Len(out)
      BY <2>1, EmptySeq DEF LexInv, LexTypes
    <3> QED BY <2>1, <3>1 DEF LexInv, Place, Start, Resumed, LastOut
  <2> QED BY <2>1 DEF EveryRuneOnce, LexInv, Tile, Skipped
<1> QED BY <1>1, LexInit0, LexStep, PTL DEF LexSpec

(* Whenever a call gives up on a reader that has failed, the answer says   *)
(* so (lexer.go:55, 121, 140, 232): a failure is no end of the input.      *)
THEOREM NeverPassedOff == LexSpec => FailureIsReported
<1> DEFINE Reported ==
      out' # out /\ "fail" \in err' =>
        LET t == out'[Len(out')] IN
        t.kind \in {"EOF", "nil"} /\ t.errs # {"bad string"} => "fail" \in t.errs
<1>1. LexInv /\ [LexNext]_vars => [Reported]_vars
  <2> SUFFICES ASSUME LexInv, LexNext, out' # out, "fail" \in err'
               PROVE  LET t == out'[Len(out')] IN
                      t.kind \in {"EOF", "nil"} /\ t.errs # {"bad string"} => "fail" \in t.errs
    OBVIOUS
  <2> USE DEF LexInv
  <2>1. PICK kind \in Kinds, to \in Nat, errs \in SUBSET Errors : Returns(kind, to, errs)
    <3>1. [Scan]_scanVars
      BY StepScans
    <3>2. ~Call /\ ~SkipSeparator /\ ~Begin /\ ~GoesOn
      BY DEF Call, Goto, SkipSeparator, Begin, GoesOn
    <3> QED BY <3>1, <3>2, SeenStays, StepCases DEF LexNext
  <2>2. to \in Nat \ {0} /\ Return(kind, to, errs)
    BY <2>1, StepScans, SeenStays DEF Returns
  <2>3. /\ out'[Len(out')].errs = errs
        /\ out'[Len(out')].kind = IF errs = {} THEN kind ELSE "EOF"
    BY <2>2, ReturnAppends DEF LexTypes
  <2>4. GivesUp(kind, errs) => "fail" \in errs
    BY <2>1 DEF Returns
  <2> QED BY <2>3, <2>4 DEF GivesUp
<1> QED BY <1>1, LexInit0, LexStep, PTL DEF LexSpec, FailureIsReported

(***************************************************************************)
(* The end of the input.  In a text that does not begin with a rune 0 or a *)
(* failure an error, and the cursor at EOF, both mean that the look-ahead  *)
(* is empty, and so that the cursor stays at EOF.                          *)
(***************************************************************************)
NothingFollows == IsText(1) => (err # {} \/ current = EOF => next = EOF)

GaveUp(i) == GivesUp(out[i].kind, out[i].errs)

Final ==
  IsText(1) =>
    \A i \in DOMAIN out : GaveUp(i) =>
      /\ current = EOF /\ mode \in {"idle", "start", "eof"}
      /\ \A j \in i + 1 .. Len(out) : out[j].kind = "EOF"

EndInv == LexInv /\ NothingFollows /\ Final

LEMMA EndInit == LexInit => EndInv
<1> SUFFICES ASSUME LexInit PROVE NothingFollows /\ Final
  BY LexInit0 DEF EndInv
<1>1. NothingFollows
  <2> SUFFICES ASSUME NEW in \in Inputs, New(in), IsText(1)
               PROVE  err # {} \/ current = EOF => next = EOF
    BY DEF LexInit, Init, NothingFollows
  <2>1. 1 \in DOMAIN input /\ input[1] # Failure /\ input[1] # EOF
    BY DEF IsText
  <2> QED BY <2>1 DEF New, RuneAt, ErrorAt
<1>2. Final
  BY DEF LexInit, Final
<1> QED BY <1>1, <1>2

LEMMA ScanFollows ==
  ASSUME NothingFollows, [Scan]_scanVars
  PROVE  /\ NothingFollows'
         /\ IsText(1) /\ current = EOF => current' = EOF
         /\ IsText(1) /\ Scan /\ err' # {} => current' = EOF
<1>1. IsText(1)' = IsText(1)
  BY DEF IsText, Scan, ScanAtEnd, ScanAdvance, ScanFails
<1>2. CASE UNCHANGED scanVars /\ ~Scan
  BY <1>1, <1>2 DEF NothingFollows
<1>3. CASE ScanAtEnd
  BY <1>1, <1>3 DEF ScanAtEnd, NothingFollows
<1>4. CASE ScanAdvance
  BY <1>1, <1>4 DEF ScanAdvance, NothingFollows
<1>5. CASE ScanFails
  BY <1>1, <1>5 DEF ScanFails, NothingFollows
<1> QED BY <1>2, <1>3, <1>4, <1>5 DEF Scan

(* Who is told the end of the input is only told it again.                 *)
LEMMA EndedStep ==
  ASSUME current = EOF, mode \in {"idle", "start", "eof"}, [LexNext]_vars
  PROVE  \/ out' = out /\ mode' \in {"idle", "start", "eof"}
         \/ EndOfInput
<1>1. CASE UNCHANGED vars
  BY <1>1 DEF vars
<1>2. CASE Call
  BY <1>2 DEF Call, Goto
<1>3. CASE SkipSeparator
  BY <1>3, ClassAssumption DEF SkipSeparator
<1>4. CASE Begin
  BY <1>4, ReaderOf DEF Begin
<1> QED
  BY <1>1, <1>2, <1>3, <1>4
     DEF LexNext, Step, Single, CommentRune, CommentEnd, StringScan, StringAtEnd, StringClose,
     StringEscape, StringBadEscape, StringRune, NumberRune, NumberEnd, AtomRune, AtomEnd, AtomAtEnd

LEMMA EndStep == EndInv /\ [LexNext]_vars => EndInv'
<1> SUFFICES ASSUME EndInv, [LexNext]_vars PROVE EndInv'
  OBVIOUS
<1> USE DEF EndInv
<1>1. LexInv' /\ [Scan]_scanVars /\ TypeOK'
  BY LexStep, StepScans DEF LexInv
<1>2. NothingFollows'
  BY <1>1, ScanFollows
<1>3. Final'
  <2>1. IsText(1)' = IsText(1)
    BY <1>1 DEF IsText, Scan, ScanAtEnd, ScanAdvance, ScanFails
  <2> SUFFICES ASSUME IsText(1), NEW i \in DOMAIN out', GaveUp(i)'
               PROVE  /\ current' = EOF /\ mode' \in {"idle", "start", "eof"}
                      /\ \A j \in i + 1 .. Len(out') : out'[j].kind = "EOF"
    BY <2>1 DEF Final
  <2>2. Len(out) \in Nat /\ DOMAIN out = 1 .. Len(out) /\ DOMAIN out' = 1 .. Len(out')
    BY <1>1 DEF LexInv, LexTypes
  <2>3. ASSUME NEW kind \in Kinds, NEW to \in Nat, NEW errs \in SUBSET Errors,
               Returns(kind, to, errs)
        PROVE  /\ Len(out') = Len(out) + 1 /\ mode' = "idle"
               /\ out'[Len(out')].errs = errs
               /\ out'[Len(out')].kind = IF errs = {} THEN kind ELSE "EOF"
               /\ \A j \in DOMAIN out : out'[j] = out[j]
    <3>1. to \in Nat \ {0} /\ Return(kind, to, errs)
      BY <1>1, <2>3, SeenStays DEF Returns
    <3> QED BY <3>1, ReturnAppends DEF LexInv, LexTypes
  <2>4. CASE i \in DOMAIN out /\ GaveUp(i)
    <3>1. /\ current = EOF /\ mode \in {"idle", "start", "eof"}
          /\ \A j \in i + 1 .. Len(out) : out[j].kind = "EOF"
      BY <2>4 DEF Final
    <3>2. current' = EOF
      BY <1>1, <3>1, ScanFollows
    <3>3. CASE out' = out /\ mode' \in {"idle", "start", "eof"}
      BY <3>1, <3>2, <3>3
    <3>4. CASE EndOfInput
      <4>1. PICK to \in Nat, errs \in SUBSET Errors : Returns("EOF", to, errs)
        <5>1. from \in Nat /\ err' \in SUBSET Errors /\ from = Here /\ Here' = Here
          BY <1>1, <3>1, <3>2, <3>4, ScanMoves
             DEF LexInv, LexTypes, TypeOK, Errors, EndOfInput, Reading
        <5>2. Returns("EOF", from, err')
          BY <3>1, <3>4, <5>1 DEF EndOfInput, Returns, Between, GivesUp, Kinds
        <5> QED BY <5>1, <5>2
      <4>2. "EOF" \in Kinds
        BY DEF Kinds
      <4>3. /\ Len(out') = Len(out) + 1 /\ mode' = "idle" /\ out'[Len(out')].kind = "EOF"
            /\ \A j \in DOMAIN out : out'[j] = out[j]
        BY <2>3, <4>1, <4>2
      <4> QED BY <2>2, <2>4, <3>1, <3>2, <4>3
    <3> QED BY <3>1, <3>3, <3>4, EndedStep
  <2>5. CASE ~(i \in DOMAIN out /\ GaveUp(i))
    <3>1. out' # out
      BY <2>5 DEF GaveUp
    <3>2. PICK kind \in Kinds, to \in Nat, errs \in SUBSET Errors : Returns(kind, to, errs)
      <4>1. ~Call /\ ~SkipSeparator /\ ~Begin /\ ~GoesOn /\ ~UNCHANGED vars
        BY <3>1 DEF Call, Goto, SkipSeparator, Begin, GoesOn, vars
      <4> QED BY <1>1, <4>1, StepCases DEF LexNext, LexInv
    <3>3. Len(out') = Len(out) + 1 /\ mode' = "idle" /\ \A j \in DOMAIN out : out'[j] = out[j]
      BY <2>3, <3>2
    <3>4. i \notin DOMAIN out
      BY <2>5, <3>3 DEF GaveUp
    <3>5. i = Len(out') /\ i + 1 .. Len(out') = {}
      BY <2>2, <3>3, <3>4
    <3>6. GivesUp(kind, errs)
      BY <2>3, <3>2, <3>5 DEF GaveUp, GivesUp
    <3>7. current' = EOF
      BY <1>1, <3>2, <3>6, ScanFollows DEF Returns
    <3> QED BY <3>5, <3>7, <3>3
  <2> QED BY <2>4, <2>5
<1> QED BY <1>1, <1>2, <1>3

(* The end of the input is final: once a call said EOF or gave nil, every  *)
(* later call says EOF (lexer.go:52, 232).  Malformed strings aside, the   *)
(* parser may stop at the first of them without losing a token.            *)
THEOREM EndStays == LexSpec => []EndIsFinal
<1>1. EndInv => EndIsFinal
  BY DEF EndInv, Final, GaveUp, GivesUp, EndIsFinal
<1> QED BY <1>1, EndInit, EndStep, PTL DEF LexSpec

(***************************************************************************)
(* Escapes.  Escaped counts the backslashes before a place; one rune on it *)
(* is known from the rune before and what Escaped said there.              *)
(***************************************************************************)
Backslashes(s, i) == {j \in 2 .. i - 1 : \A k \in j .. i - 1 : s[k] = "\\"}

LEMMA BackslashesFinite ==
  ASSUME NEW s, NEW i \in Nat
  PROVE  IsFiniteSet(Backslashes(s, i)) /\ Cardinality(Backslashes(s, i)) \in Nat
<1>1. Backslashes(s, i) \subseteq 2 .. i - 1 /\ IsFiniteSet(2 .. i - 1)
  BY FS_Interval DEF Backslashes
<1> QED BY <1>1, FS_Subset, FS_CardinalityType

LEMMA EscapedStep ==
  ASSUME NEW s
  PROVE  /\ ~Escaped(s, 2)
         /\ \A i \in Nat : i >= 2 => (Escaped(s, i + 1) <=> s[i] = "\\" /\ ~Escaped(s, i))
<1>1. \A i : Escaped(s, i) <=> Cardinality(Backslashes(s, i)) % 2 = 1
  BY DEF Escaped, Backslashes
<1>2. ~Escaped(s, 2)
  <2>1. Backslashes(s, 2) = {}
    BY DEF Backslashes
  <2>2. Cardinality(Backslashes(s, 2)) = 0
    BY <2>1, FS_EmptySet
  <2> QED BY <1>1, <2>2
<1>3. ASSUME NEW i \in Nat, i >= 2, s[i] = "\\" PROVE Escaped(s, i + 1) <=> ~Escaped(s, i)
  <2>1. Backslashes(s, i + 1) = Backslashes(s, i) \cup {i}
    <3>1. ASSUME NEW j \in Backslashes(s, i + 1) PROVE j \in Backslashes(s, i) \cup {i}
      BY <1>3 DEF Backslashes
    <3>2. ASSUME NEW j \in Backslashes(s, i) PROVE j \in Backslashes(s, i + 1)
      <4>1. j \in 2 .. i /\ \A k \in j .. i - 1 : s[k] = "\\"
        BY <1>3 DEF Backslashes
      <4>2. \A k \in j .. (i + 1) - 1 : k = i \/ k \in j .. i - 1
        BY <1>3, <4>1
      <4> QED BY <1>3, <4>1, <4>2 DEF Backslashes
    <3>3. i \in Backslashes(s, i + 1)
      BY <1>3 DEF Backslashes
    <3> QED BY <3>1, <3>2, <3>3
  <2>2. i \notin Backslashes(s, i)
    BY <1>3 DEF Backslashes
  <2>3. Cardinality(Backslashes(s, i + 1)) = Cardinality(Backslashes(s, i)) + 1
    BY <1>3, <2>1, <2>2, BackslashesFinite, FS_AddElement
  <2>4. Cardinality(Backslashes(s, i)) \in Nat
    BY BackslashesFinite
  <2> QED BY <1>1, <2>3, <2>4
<1>4. ASSUME NEW i \in Nat, i >= 2, s[i] # "\\" PROVE ~Escaped(s, i + 1)
  <2>1. Backslashes(s, i + 1) = {}
    BY <1>4 DEF Backslashes
  <2>2. Cardinality(Backslashes(s, i + 1)) = 0
    BY <2>1, FS_EmptySet
  <2> QED BY <1>1, <2>2
<1> QED BY <1>2, <1>3, <1>4

LEMMA EscapedSame ==
  ASSUME NEW s, NEW t, NEW n \in Nat, \A k \in 1 .. n : t[k] = s[k]
  PROVE  \A i \in 1 .. n + 1 : Escaped(t, i) <=> Escaped(s, i)
<1> SUFFICES ASSUME NEW i \in 1 .. n + 1 PROVE Escaped(t, i) <=> Escaped(s, i)
  OBVIOUS
<1>1. Backslashes(t, i) = Backslashes(s, i)
  BY DEF Backslashes
<1> QED BY <1>1 DEF Escaped, Backslashes

(* A string that is read so far: neither closed nor malformed.  It is open *)
(* to an escape when the next rune belongs to one.                         *)
Clean(s) == s[1] = Quote /\ Quotes(s) = {} /\ BadEscapes(s) = {}
Open(s) == Escaped(s, Len(s) + 1)

LEMMA OpensWithQuote ==
  ASSUME NEW s, IsSeq(s), Len(s) = 1, s[1] = Quote
  PROVE  Clean(s) /\ ~Open(s)
<1>1. 2 .. Len(s) = {} /\ 2 .. Len(s) - 1 = {} /\ Len(s) + 1 = 2
  OBVIOUS
<1>2. Quotes(s) = {} /\ BadEscapes(s) = {} /\ ~Open(s)
  BY <1>1, EscapedStep DEF Quotes, BadEscapes, Open
<1> QED BY <1>1, <1>2 DEF Clean

LEMMA StringGrows ==
  ASSUME NEW s, IsSeq(s), s # << >>, Clean(s), NEW c
  PROVE  /\ Open(Append(s, c)) <=> c = "\\" /\ ~Open(s)
         /\ Append(s, c)[1] = Quote
         /\ Quotes(Append(s, c)) = IF c = Quote /\ ~Open(s) THEN {Len(Append(s, c))} ELSE {}
         /\ (Open(s) => c \in strEscapes) => BadEscapes(Append(s, c)) = {}
<1> DEFINE t == Append(s, c)
           n == Len(s)
<1>1. /\ n \in Nat \ {0} /\ IsSeq(t) /\ Len(t) = n + 1 /\ t[n + 1] = c
      /\ \A k \in 1 .. n : t[k] = s[k]
  BY SeqAppend, SeqDomain
<1> HIDE DEF t, n
<1>2. \A i \in 1 .. n + 1 : Escaped(t, i) <=> Escaped(s, i)
  BY <1>1, EscapedSame
<1>3. n + 1 \in Nat /\ n + 1 >= 2 /\ n + 1 \in 1 .. n + 1
  BY <1>1
<1>4. Escaped(t, n + 1) <=> Open(s)
  BY <1>2, <1>3 DEF Open, n
<1>5. Open(t) <=> c = "\\" /\ ~Open(s)
  BY <1>1, <1>3, <1>4, EscapedStep DEF Open
<1>6. t[1] = Quote
  BY <1>1 DEF Clean
<1>7. Quotes(t) = IF c = Quote /\ ~Open(s) THEN {n + 1} ELSE {}
  <2>1. \A i \in 2 .. n : ~(s[i] = Quote /\ ~Escaped(s, i))
    BY DEF Clean, Quotes, n
  <2>2. \A i \in 2 .. n : ~(t[i] = Quote /\ ~Escaped(t, i))
    BY <1>1, <1>2, <2>1
  <2>3. \A i \in 2 .. n + 1 : i \in 2 .. n \/ i = n + 1
    BY <1>1
  <2>4. Quotes(t) = {i \in 2 .. n + 1 : t[i] = Quote /\ ~Escaped(t, i)}
    BY <1>1 DEF Quotes
  <2> QED BY <1>1, <1>3, <1>4, <2>2, <2>3, <2>4
<1>8. ASSUME Open(s) => c \in strEscapes PROVE BadEscapes(t) = {}
  <2>1. \A i \in 2 .. n - 1 : ~(s[i] = "\\" /\ ~Escaped(s, i) /\ s[i + 1] \notin strEscapes)
    BY DEF Clean, BadEscapes, n
  <2>2. \A i \in 2 .. n - 1 : ~(t[i] = "\\" /\ ~Escaped(t, i) /\ t[i + 1] \notin strEscapes)
    <3> SUFFICES ASSUME NEW i \in 2 .. n - 1
                 PROVE  ~(t[i] = "\\" /\ ~Escaped(t, i) /\ t[i + 1] \notin strEscapes)
      OBVIOUS
    <3>1. i \in 1 .. n /\ i + 1 \in 1 .. n /\ i \in 1 .. n + 1
      BY <1>1
    <3> QED BY <1>1, <1>2, <2>1, <3>1
  <2>3. n >= 2 => ~(t[n] = "\\" /\ ~Escaped(t, n) /\ t[n + 1] \notin strEscapes)
    <3> SUFFICES ASSUME n >= 2, t[n] = "\\", ~Escaped(t, n) PROVE c \in strEscapes
      BY <1>1
    <3>1. Escaped(t, n + 1)
      BY <1>1, EscapedStep
    <3> QED BY <1>4, <1>8, <3>1
  <2>4. \A i \in 2 .. (n + 1) - 1 : i \in 2 .. n - 1 \/ (n >= 2 /\ i = n)
    BY <1>1
  <2>5. BadEscapes(t) = {i \in 2 .. (n + 1) - 1 : t[i] = "\\" /\ ~Escaped(t, i) /\ t[i + 1] \notin strEscapes}
    BY <1>1 DEF BadEscapes
  <2> QED BY <2>2, <2>3, <2>4, <2>5
<1> QED BY <1>1, <1>5, <1>6, <1>7, <1>8 DEF t

(***************************************************************************)
(* What was read of a token, and what each loop knows of it.               *)
(***************************************************************************)
Read == SubSeq(seen, from, Here - 1)

(* Off the very first read, the end of the input is the end of what is     *)
(* seen, too.                                                              *)
EndIsSeen == current = EOF => next = EOF \/ seen = << >>

Lexing ==
  /\ mode = "single" => Read = << >>
  /\ mode = "comment" =>
       /\ \A i \in DOMAIN Read : Read[i] # Newline
       /\ IF Read = << >> THEN current = ";" ELSE Read[1] = ";"
  /\ mode = "number" =>
       /\ \A i \in DOMAIN Read : isNumberRune(Read[i])
       /\ Read = << >> => isNumberRune(current)
  /\ mode \in {"keyword", "symbol"} =>
       /\ current # EOF
       /\ IF Read = << >> THEN (mode = "keyword" <=> current = ":") /\ current \notin {"+", "-"}
          ELSE /\ \A i \in 2 .. Len(Read) : isAtomRune(Read[i])
               /\ mode = "keyword" <=> Read[1] = ":"
               /\ Read[1] \notin {"+", "-"}
               /\ isAtomRune(current)
  /\ mode = "string" =>
       IF Read = << >> THEN current = Quote
       ELSE Clean(Read) /\ (current # EOF => current \in strEscapes /\ Open(Read))
  /\ mode = "body" => Read # << >> /\ Clean(Read) /\ (current # EOF => ~Open(Read))

Agree(s, t, n) == n <= Len(s) /\ n <= Len(t) /\ \A k \in 1 .. n : t[k] = s[k]

Cut(s, m, n) == SubSeq(s, m, n)

LEMMA CutSame ==
  ASSUME NEW s, IsSeq(s), NEW t, IsSeq(t), NEW m \in Nat \ {0}, NEW n \in Nat, Agree(s, t, n)
  PROVE  Cut(t, m, n) = Cut(s, m, n)
  BY DEF Agree, Cut

(* r is a stretch of n elements of s from the f-th on.                     *)
IsStretch(r, s, f, n) ==
  /\ IsSeq(r) /\ Len(r) = n
  /\ \A i \in 1 .. n : r[i] = s[f + i - 1]

LEMMA StretchIs ==
  ASSUME NEW s, IsSeq(s), NEW f \in Nat \ {0}, NEW n \in Nat, f + n <= Len(s) + 1,
         NEW h, h = f + n
  PROVE  IsStretch(SubSeq(s, f, h - 1), s, f, n)
<1> PICK m \in Nat : m = f + n - 1
  OBVIOUS
<1> DEFINE r == SubSeq(s, f, m)
<1>1. Len(s) \in Nat
  BY SeqDomain
<1>2. m <= Len(s) /\ m - f + 1 = n /\ (~(f <= m) => n = 0)
  BY <1>1
<1>3. /\ IsSeq(r) /\ Len(r) = IF f <= m THEN m - f + 1 ELSE 0
      /\ \A i \in 1 .. m - f + 1 : r[i] = s[f + i - 1]
  BY <1>2, SeqSub
<1> HIDE DEF r
<1>4. Len(r) = n
  BY <1>2, <1>3
<1> QED BY <1>2, <1>3, <1>4 DEF r, IsStretch

Begins(s, f, h) ==
  IsSeq(s) /\ f \in Nat \ {0} /\ h \in Nat /\ f < h /\ h <= Len(s) + 1 =>
    SubSeq(s, f, h - 1)[1] = s[f]

LEMMA StretchBegins == ASSUME NEW s, NEW f, NEW h PROVE Begins(s, f, h)
<1> SUFFICES ASSUME IsSeq(s), f \in Nat \ {0}, h \in Nat, f < h, h <= Len(s) + 1
             PROVE  SubSeq(s, f, h - 1)[1] = s[f]
  BY DEF Begins
<1> PICK n \in Nat : n = h - f
  OBVIOUS
<1>1. h = f + n /\ 1 \in 1 .. n /\ f + 1 - 1 = f
  OBVIOUS
<1> QED BY <1>1, StretchIs DEF IsStretch

LEMMA HereIs ==
  ASSUME LexInv
  PROVE  /\ current # EOF => Here = Len(seen) /\ seen[Here] = current
         /\ current = EOF => Here = Len(seen) + 1
         /\ Here \in Nat \ {0} /\ from \in Nat \ {0} /\ IsSeq(seen) /\ Len(seen) \in Nat
         /\ Here <= Len(seen) + 1
<1>1. IsSeq(seen)
  BY DEF LexInv, TypeOK, IsSeq
<1>2. Len(seen) \in Nat
  BY <1>1, SeqDomain
<1>3. Here \in Nat \ {0} /\ from \in Nat \ {0} /\ Here <= Len(seen) + 1
  BY HereType DEF LexInv, LexTypes
<1>4. current # EOF => Here = Len(seen) /\ seen[Here] = current
  BY DEF LexInv, Here, Seen
<1>5. current = EOF => Here = Len(seen) + 1
  BY DEF Here
<1> QED BY <1>1, <1>2, <1>3, <1>4, <1>5

LEMMA ReadIs ==
  ASSUME LexInv, from <= Here
  PROVE  \E n \in Nat : Here = from + n /\ IsStretch(Read, seen, from, n)
<1>1. IsSeq(seen) /\ from \in Nat \ {0} /\ Here \in Nat \ {0} /\ Here <= Len(seen) + 1
  BY HereIs
<1> PICK n \in Nat : n = Here - from
  BY <1>1
<1>2. Here = from + n
  BY <1>1
<1> QED BY <1>1, <1>2, StretchIs DEF Read

(* Scan adds the rune it leaves to what was read.                          *)
LEMMA ReadGrows ==
  ASSUME LexInv, LexInv', Scan, from' = from, from <= Here, current # EOF
  PROVE  Read' = Append(Read, current) /\ Here' = Here + 1 /\ IsSeq(Read) /\ IsSeq(Read')
<1> PICK n \in Nat : Here = from + n /\ IsStretch(Read, seen, from, n)
  BY ReadIs
<1>0. Here = Len(seen) /\ seen[Here] = current /\ Here \in Nat \ {0} /\ from \in Nat \ {0}
  BY HereIs
<1> PICK f, sees, s, r : f = from /\ sees = seen' /\ s = Read /\ r = Read'
  OBVIOUS
<1>1. seen[f + n] = current /\ f \in Nat \ {0} /\ IsStretch(s, seen, f, n)
  BY <1>0
<1>2. Here' = f + (n + 1) /\ \A k \in 1 .. f + n : sees[k] = seen[k]
  BY <1>0, ScanMoves DEF LexInv
<1>3. IsStretch(r, sees, f, n + 1)
  <2>1. IsSeq(sees) /\ f + (n + 1) <= Len(sees) + 1
    <3>1. IsSeq(sees) /\ Here' <= Len(sees) + 1
      BY SeenStays DEF LexInv, TypeOK, IsSeq
    <3> QED BY <1>2, <3>1
  <2>2. r = SubSeq(sees, f, Here' - 1)
    BY DEF Read
  <2>3. n + 1 \in Nat
    OBVIOUS
  <2> QED BY <1>1, <1>2, <2>1, <2>2, <2>3, StretchIs
<1> DEFINE t == Append(s, current)
<1>4. IsSeq(t) /\ Len(t) = n + 1 /\ t[n + 1] = current /\ \A i \in 1 .. n : t[i] = s[i]
  BY <1>1, SeqAppend DEF IsStretch
<1> HIDE DEF t
<1>5. ASSUME NEW i \in 1 .. n + 1 PROVE r[i] = t[i]
  <2>1. CASE i = n + 1
    <3>1. r[i] = sees[f + n] /\ f + n \in 1 .. f + n
      BY <1>1, <1>3, <2>1 DEF IsStretch
    <3> QED BY <1>1, <1>2, <1>4, <2>1, <3>1
  <2>2. CASE i \in 1 .. n
    <3>1. f + i - 1 \in 1 .. f + n
      BY <1>1, <2>2
    <3> QED BY <1>1, <1>2, <1>3, <1>4, <2>2, <3>1 DEF IsStretch
  <2> QED BY <2>1, <2>2
<1>6. r = t
  BY <1>3, <1>4, <1>5, SeqSame DEF IsStretch
<1>7. IsSeq(r) /\ IsSeq(s)
  BY <1>1, <1>3 DEF IsStretch
<1>8. f + (n + 1) = (f + n) + 1
  BY <1>1
<1> QED BY <1>2, <1>6, <1>7, <1>8 DEF t

LEMMA ReadStays ==
  ASSUME from' = from
  PROVE  /\ UNCHANGED scanVars => Read' = Read /\ current' = current
         /\ Scan /\ next = EOF =>
              /\ current' = EOF /\ next' = EOF
              /\ current = EOF => Read' = Read /\ Here' = Here
<1>1. UNCHANGED scanVars => Read' = Read /\ current' = current
  BY DEF Read, Here
<1>2. ASSUME Scan, next = EOF PROVE ScanAtEnd
  BY <1>2 DEF Scan, ScanAdvance, ScanFails
<1>3. ASSUME ScanAtEnd, current = EOF PROVE Read' = Read /\ Here' = Here
  BY <1>3 DEF Read, Here, ScanAtEnd
<1> QED BY <1>1, <1>2, <1>3 DEF ScanAtEnd

LEMMA EndSeenInit == Init => EndIsSeen
<1> SUFFICES ASSUME NEW in \in Inputs, New(in) PROVE EndIsSeen
  BY DEF Init
<1> QED BY DEF New, Visible, EndIsSeen

LEMMA EndSeenStep == TypeOK /\ EndIsSeen /\ [Scan]_scanVars => EndIsSeen'
  BY DEF EndIsSeen, Scan, ScanAtEnd, ScanAdvance, ScanFails, TypeOK

LEMMA ReadAtEnd ==
  ASSUME LexInv, EndIsSeen, from <= Here, current = EOF, Read # << >>
  PROVE  next = EOF
<1> PICK n \in Nat : Here = from + n /\ IsStretch(Read, seen, from, n)
  BY ReadIs
<1>1. n # 0
  BY SeqDomain DEF IsStretch
<1>2. Len(seen) # 0
  <2>1. Here = Len(seen) + 1 /\ from \in Nat \ {0}
    BY HereIs
  <2> QED BY <1>1, <2>1
<1>3. seen # << >>
  BY <1>2, EmptySeq
<1> QED BY <1>3 DEF EndIsSeen

LEMMA OneMoreRead ==
  ASSUME LexInv, LexInv', Scan, from' = from, current # EOF, mode \notin {"idle", "start"}
  PROVE  /\ Read' = Append(Read, current) /\ IsSeq(Read) /\ IsSeq(Read')
         /\ Read' # << >> /\ Len(Read) \in Nat /\ Len(Read') = Len(Read) + 1
         /\ \A i \in 1 .. Len(Read) : Read'[i] = Read[i]
         /\ Read'[Len(Read) + 1] = current
         /\ Read = << >> <=> Len(Read) = 0
         /\ DOMAIN Read' = 1 .. Len(Read) + 1
<1>1. from <= Here
  BY DEF LexInv, Reading, Between
<1>2. Read' = Append(Read, current) /\ IsSeq(Read) /\ IsSeq(Read')
  BY <1>1, ReadGrows
<1> PICK s, t : s = Read /\ t = Read'
  OBVIOUS
<1>3. /\ IsSeq(t) /\ t # << >> /\ Len(t) = Len(s) + 1 /\ Len(s) \in Nat
      /\ \A i \in 1 .. Len(s) : t[i] = s[i]
      /\ t[Len(s) + 1] = current
      /\ s = << >> <=> Len(s) = 0
  BY <1>2, SeqAppend, SeqDomain
<1>4. DOMAIN t = 1 .. Len(t)
  BY <1>2, SeqDomain
<1>5. DOMAIN t = 1 .. Len(s) + 1
  BY <1>3, <1>4
<1> QED BY <1>2, <1>3, <1>5

LEMMA AtomGrows ==
  ASSUME LexInv, LexInv', Lexing, Scan, from' = from, mode \in {"keyword", "symbol"}
  PROVE  /\ Read' # << >> /\ \A i \in 2 .. Len(Read') : isAtomRune(Read'[i])
         /\ mode = "keyword" <=> Read'[1] = ":"
         /\ Read'[1] \notin {"+", "-"}
<1>1. /\ current # EOF /\ Read' # << >> /\ Len(Read) \in Nat /\ Len(Read') = Len(Read) + 1
      /\ \A i \in 1 .. Len(Read) : Read'[i] = Read[i]
      /\ Read'[Len(Read) + 1] = current
      /\ Read = << >> <=> Len(Read) = 0
  <2>1. current # EOF
    BY DEF Lexing
  <2> QED BY <2>1, OneMoreRead
<1>2. CASE Read = << >>
  <2>1. (mode = "keyword" <=> current = ":") /\ current \notin {"+", "-"}
    BY <1>2 DEF Lexing
  <2>2. Len(Read') = 1 /\ Read'[1] = current
    BY <1>1, <1>2
  <2>3. 2 .. 1 = {}
    OBVIOUS
  <2> QED BY <1>1, <2>1, <2>2, <2>3
<1>3. CASE Read # << >>
  <2>1. /\ \A i \in 2 .. Len(Read) : isAtomRune(Read[i])
        /\ mode = "keyword" <=> Read[1] = ":"
        /\ Read[1] \notin {"+", "-"}
        /\ isAtomRune(current)
    BY <1>3 DEF Lexing
  <2>2. Len(Read) \in Nat \ {0} /\ Read'[1] = Read[1]
    BY <1>1, <1>3
  <2>3. \A i \in 2 .. Len(Read) + 1 : i \in 2 .. Len(Read) \/ i = Len(Read) + 1
    BY <2>2
  <2>4. \A i \in 2 .. Len(Read) : i \in 1 .. Len(Read)
    BY <2>2
  <2>5. \A i \in 2 .. Len(Read') : isAtomRune(Read'[i])
    BY <1>1, <2>1, <2>3, <2>4
  <2> QED BY <1>1, <2>1, <2>2, <2>5
<1> QED BY <1>2, <1>3

LEMMA LexingStep ==
  ASSUME LexInv, LexInv', EndIsSeen, Lexing, [LexNext]_vars
  PROVE  Lexing'
<1>1. CASE UNCHANGED vars
  <2>1. Read' = Read /\ current' = current /\ mode' = mode
    BY <1>1, ReadStays DEF vars
  <2> QED BY <2>1 DEF Lexing
<1>2. CASE mode' \in {"idle", "start", "eof"}
  BY <1>2 DEF Lexing
<1>3. CASE Begin
  <2>1. mode' = reader(current) /\ from' = Here /\ current' = current /\ Here' = Here /\ seen' = seen
    BY <1>3 DEF Begin, Here
  <2>2. Read' = << >>
    <3>1. Read' = SubSeq(seen, Here, Here - 1) /\ Here \in Nat
      BY <2>1, HereIs DEF Read
    <3> QED BY <3>1, SubSeqEmpty
  <2>3. DOMAIN << >> = {}
    OBVIOUS
  <2>4. /\ reader(current) = "string" => current = Quote
        /\ reader(current) = "keyword" => current = ":"
        /\ reader(current) = "symbol" => current \notin {":", "+", "-"}
    BY DEF reader
  <2> QED BY <2>1, <2>2, <2>3, <2>4, ReaderOf DEF Lexing
<1>4. ASSUME Scan, from' = from, current # EOF, mode \notin {"idle", "start"}
      PROVE  /\ Read' = Append(Read, current) /\ IsSeq(Read) /\ IsSeq(Read')
             /\ Read' # << >> /\ Len(Read) \in Nat /\ Len(Read') = Len(Read) + 1
             /\ \A i \in 1 .. Len(Read) : Read'[i] = Read[i]
             /\ Read'[Len(Read) + 1] = current
             /\ Read = << >> <=> Len(Read) = 0
             /\ DOMAIN Read' = 1 .. Len(Read) + 1
  BY <1>4, OneMoreRead
<1>5. CASE CommentRune
  <2>1. Scan /\ from' = from /\ mode = "comment" /\ mode' = "comment" /\ current \notin {EOF, Newline}
    BY <1>5 DEF CommentRune
  <2>2. \A i \in 1 .. Len(Read) : Read[i] # Newline
    BY <1>4, <2>1, SeqDomain DEF Lexing
  <2>3. \A i \in 1 .. Len(Read) + 1 : i \in 1 .. Len(Read) \/ i = Len(Read) + 1
    BY <1>4, <2>1
  <2>4. \A i \in DOMAIN Read' : Read'[i] # Newline
    BY <1>4, <2>1, <2>2, <2>3
  <2>5. Read'[1] = ";"
    <3>1. CASE Read = << >>
      <4>1. current = ";"
        BY <2>1, <3>1 DEF Lexing
      <4>2. Read'[Len(Read) + 1] = current /\ Len(Read) = 0
        BY <1>4, <2>1, <3>1
      <4> PICK n : n = Len(Read)
        OBVIOUS
      <4>3. n + 1 = 1 /\ Read'[n + 1] = current
        BY <4>2
      <4> QED BY <4>1, <4>3
    <3>2. CASE Read # << >>
      <4>1. Read[1] = ";"
        BY <2>1, <3>2 DEF Lexing
      <4>2. 1 \in 1 .. Len(Read) /\ \A i \in 1 .. Len(Read) : Read'[i] = Read[i]
        BY <1>4, <2>1, <3>2
      <4> QED BY <4>1, <4>2
    <3> QED BY <3>1, <3>2
  <2> QED BY <1>4, <2>1, <2>4, <2>5 DEF Lexing
<1>6. CASE StringScan
  <2>1. Scan /\ from' = from /\ mode = "string" /\ mode' = "body" /\ from <= Here
    BY <1>6 DEF StringScan, Goto, LexInv, Reading, Between
  <2>2. CASE current = EOF
    <3>1. Read # << >> /\ Clean(Read)
      BY <2>1, <2>2, Classes DEF Lexing, strEscapes
    <3>2. Read' = Read /\ current' = EOF
      BY <2>1, <2>2, <3>1, ReadAtEnd, ReadStays
    <3> QED BY <2>1, <3>1, <3>2 DEF Lexing
  <2>3. CASE current # EOF /\ Read = << >>
    <3>1. Len(Read') = 1 /\ Read'[1] = Quote /\ IsSeq(Read') /\ Read' # << >>
      BY <1>4, <2>1, <2>3 DEF Lexing
    <3>2. Clean(Read') /\ ~Open(Read')
      <4> PICK t : t = Read'
        OBVIOUS
      <4>1. Clean(t) /\ ~Open(t)
        BY <3>1, OpensWithQuote
      <4> QED BY <4>1
    <3> QED BY <2>1, <3>1, <3>2 DEF Lexing
  <2>4. CASE current # EOF /\ Read # << >>
    <3>1. Clean(Read) /\ Open(Read) /\ current \in strEscapes /\ IsSeq(Read)
      BY <1>4, <2>1, <2>4 DEF Lexing
    <3>2. Clean(Append(Read, current)) /\ ~Open(Append(Read, current))
      BY <2>4, <3>1, StringGrows DEF Clean
    <3> QED BY <1>4, <2>1, <2>4, <3>2 DEF Lexing
  <2> QED BY <2>2, <2>3, <2>4
<1>7. CASE StringEscape
  <2>1. /\ Scan /\ from' = from /\ mode = "body" /\ mode' = "string"
        /\ current = "\\" /\ current # EOF /\ next \in strEscapes
    BY <1>7, Classes DEF StringEscape, Goto
  <2>2. current' # EOF => current' \in strEscapes
    BY <2>1 DEF Scan, ScanAtEnd, ScanAdvance, ScanFails
  <2>3. Clean(Read) /\ ~Open(Read) /\ IsSeq(Read) /\ Read # << >>
    BY <1>4, <2>1 DEF Lexing
  <2>4. current # Quote
    BY <2>1 DEF Quote
  <2>5. Clean(Append(Read, current)) /\ Open(Append(Read, current))
    BY <2>1, <2>3, <2>4, StringGrows DEF Clean
  <2> QED BY <1>4, <2>1, <2>2, <2>5 DEF Lexing
<1>8. CASE StringRune
  <2>1. /\ Scan /\ from' = from /\ mode = "body" /\ mode' = "body" /\ current \notin {EOF, Quote, "\\"}
    BY <1>8 DEF StringRune
  <2>2. Clean(Read) /\ ~Open(Read) /\ IsSeq(Read) /\ Read # << >>
    BY <1>4, <2>1 DEF Lexing
  <2>3. Clean(Append(Read, current)) /\ ~Open(Append(Read, current))
    BY <2>1, <2>2, StringGrows DEF Clean
  <2> QED BY <1>4, <2>1, <2>3 DEF Lexing
<1>9. CASE NumberRune
  <2>1. Scan /\ from' = from /\ mode = "number" /\ mode' = "number" /\ isNumberRune(current) /\ current # EOF
    BY <1>9, Classes DEF NumberRune
  <2>2. \A i \in 1 .. Len(Read) : isNumberRune(Read[i])
    BY <1>4, <2>1, SeqDomain DEF Lexing
  <2>3. \A i \in 1 .. Len(Read) + 1 : i \in 1 .. Len(Read) \/ i = Len(Read) + 1
    BY <1>4, <2>1
  <2>4. \A i \in DOMAIN Read' : isNumberRune(Read'[i])
    BY <1>4, <2>1, <2>2, <2>3
  <2> QED BY <1>4, <2>1, <2>4 DEF Lexing
<1>10. CASE AtomRune
  <2>1. /\ Scan /\ from' = from /\ mode \in {"keyword", "symbol"} /\ mode' = mode
        /\ current' # EOF /\ isAtomRune(current')
    BY <1>10 DEF AtomRune
  <2> QED BY <2>1, AtomGrows DEF Lexing
<1>11. CASE EndOfInput \/ Single \/ CommentEnd \/ StringAtEnd \/ StringClose \/ StringBadEscape
            \/ NumberEnd \/ AtomEnd \/ AtomAtEnd \/ Call \/ SkipSeparator
  BY <1>2, <1>11
     DEF EndOfInput, Single, CommentEnd, StringAtEnd, StringClose, StringBadEscape, NumberEnd, AtomEnd,
         AtomAtEnd, Call, SkipSeparator, Return, Goto
<1> QED BY <1>1, <1>3, <1>5, <1>6, <1>7, <1>8, <1>9, <1>10, <1>11 DEF LexNext, Step

(***************************************************************************)
(* What the answers say, and that it stays true of what is seen later: an  *)
(* answer that ends where the input does is followed by nothing.           *)
(***************************************************************************)
Malformed(t) ==
  /\ t.from < t.to
  /\ seen[t.from] = Quote /\ Quotes(Text(t)) = {} /\ BadEscapes(Text(t)) = {}
  /\ "unexpected EOF" \notin t.errs =>
       t.to \in 1 .. Len(seen) /\ seen[t.to] = "\\" /\ (IsText(1) => RuneAt(t.to + 1) \notin strEscapes)

WellRead(t) ==
  /\ t.to <= Here
  /\ t.kind \notin {"EOF", "nil"} => Lexeme(t.kind, Text(t), Follow(t))
  /\ "bad string" \in t.errs => Malformed(t)

Unfinished(i) ==
  {"bad string", "unexpected EOF"} \subseteq out[i].errs =>
    /\ current = EOF /\ next = EOF /\ mode \in {"idle", "start", "eof"}
    /\ \A j \in i + 1 .. Len(out) : out[j].kind = "EOF"

AllRead == \A i \in DOMAIN out : WellRead(out[i]) /\ Unfinished(i)

LEMMA WellReadStays ==
  ASSUME LexInv, EndIsSeen, [Scan]_scanVars,
         NEW t \in Answers, t.from <= t.to, t.kind \notin {"EOF", "nil"} => t.from < t.to, WellRead(t)
  PROVE  WellRead(t)'
<1> PICK sees : sees = seen'
  OBVIOUS
<1> PICK n \in Nat : n = Len(seen)
  BY HereIs
<1>1. /\ IsSeq(seen) /\ IsSeq(sees) /\ n <= Len(sees) /\ Len(sees) \in Nat
      /\ Here <= Here' /\ Here <= n + 1 /\ Here' \in Nat /\ Here \in Nat
      /\ \A k \in 1 .. n : sees[k] = seen[k]
  BY SeenStays DEF TypeOK, IsSeq, LexInv
<1> PICK f, to : f = t.from /\ to = t.to
  OBVIOUS
<1>2. f \in Nat \ {0} /\ to \in Nat \ {0} /\ f <= to /\ to <= Here /\ to <= n + 1
  <2>1. f \in Nat \ {0} /\ to \in Nat \ {0}
    BY DEF Answers
  <2>2. f <= to /\ to <= Here
    BY DEF WellRead
  <2> QED BY <1>1, <2>1, <2>2
<1>3. to <= Here'
  BY <1>1, <1>2
<1>4. Text(t)' = Text(t)
  <2>1. Text(t) = SubSeq(seen, f, to - 1) /\ Text(t)' = SubSeq(sees, f, to - 1)
    BY DEF Text
  <2> PICK m \in Nat : m = to - 1
    BY <1>2
  <2>2. m <= Len(seen) /\ m <= Len(sees) /\ \A k \in 1 .. m : sees[k] = seen[k]
    BY <1>1, <1>2
  <2>3. SubSeq(sees, f, m) = SubSeq(seen, f, m)
    <3>1. IsSeq(seen) /\ IsSeq(sees) /\ f \in Nat \ {0} /\ m \in Nat
      BY <1>1, <1>2
    <3>2. Agree(seen, sees, m)
      BY <2>2 DEF Agree
    <3>3. Cut(sees, f, m) = Cut(seen, f, m)
      BY <3>1, <3>2, CutSame
    <3> QED BY <3>3, Zenon DEF Cut
  <2> QED BY <2>1, <2>3
<1>5. t.kind \notin {"EOF", "nil"} => Follow(t)' = Follow(t)
  <2> SUFFICES ASSUME f < to PROVE Follow(t)' = Follow(t)
    OBVIOUS
  <2>1. CASE to <= n
    BY <1>1, <1>2, <2>1 DEF Follow
  <2>2. CASE to = n + 1
    <3>1. current = EOF
      BY <1>1, <1>2, <2>2, HereIs
    <3>2. n # 0
      BY <1>2, <2>2
    <3>3. next = EOF
      BY <3>1, <3>2, EmptySeq DEF EndIsSeen
    <3>4. seen' = seen
      BY <3>3 DEF Scan, ScanAtEnd, ScanAdvance, ScanFails
    <3> QED BY <3>4 DEF Follow
  <2> QED BY <1>2, <2>1, <2>2
<1>6. input' = input
  BY DEF Scan, ScanAtEnd, ScanAdvance, ScanFails
<1>7. Malformed(t) => Malformed(t)'
  <2> SUFFICES ASSUME Malformed(t) PROVE Malformed(t)'
    OBVIOUS
  <2>1. f < to /\ f \in 1 .. n /\ seen'[f] = seen[f]
    <3>1. f < to
      BY DEF Malformed
    <3> QED BY <1>1, <1>2, <3>1
  <2>2. RuneAt(to + 1)' = RuneAt(to + 1) /\ (IsText(1)' <=> IsText(1))
    BY <1>6 DEF RuneAt, IsText
  <2>3. to \in 1 .. Len(seen) => to \in 1 .. Len(sees) /\ sees[to] = seen[to]
    BY <1>1
  <2> QED BY <1>4, <2>1, <2>2, <2>3 DEF Malformed
<1> QED BY <1>3, <1>4, <1>5, <1>7 DEF WellRead

(***************************************************************************)
(* What a call answers is right when it answers: kind and errors against   *)
(* what was read and what is under the cursor now.                         *)
(***************************************************************************)
Right(kind, errs) ==
  /\ errs = {} /\ kind \notin {"EOF", "nil"} => Lexeme(kind, Read', current')
  /\ "bad string" \in errs =>
       /\ from < Here' /\ Clean(Read')
       /\ IF "unexpected EOF" \in errs THEN current' = EOF /\ next' = EOF
          ELSE current' = "\\" /\ next' \notin strEscapes

LEMMA ReturnIs ==
  ASSUME out \in Seq(Answers), NEW kind, NEW to, NEW errs, Return(kind, to, errs)
  PROVE  /\ out'[Len(out')].errs = errs
         /\ out'[Len(out')].kind = IF errs = {} THEN kind ELSE "EOF"
         /\ out'[Len(out')].from = from /\ out'[Len(out')].to = to
         /\ from' = from /\ mode' = "idle"
<1> DEFINE answer == IF errs = {} THEN [kind |-> kind, from |-> from, to |-> to, errs |-> {}]
                                  ELSE [kind |-> "EOF", from |-> from, to |-> to, errs |-> errs]
<1>1. /\ answer.errs = errs /\ answer.kind = IF errs = {} THEN kind ELSE "EOF"
      /\ answer.from = from /\ answer.to = to
  OBVIOUS
<1>2. out' = Append(out, answer) /\ mode' = "idle" /\ from' = from
  BY DEF Return
<1> HIDE DEF answer
<1>3. IsSeq(out)
  BY DEF IsSeq
<1>4. out'[Len(out')] = answer
  <2> PICK n : n = Len(out)
    OBVIOUS
  <2>1. Len(out') = n + 1 /\ out'[n + 1] = answer
    BY <1>2, <1>3, SeqAppend
  <2> QED BY <2>1
<1> QED BY <1>1, <1>2, <1>4

LEMMA AnswerIsRight ==
  ASSUME LexInv, LexInv', EndIsSeen, Lexing, [LexNext]_vars, out' # out
  PROVE  Right(out'[Len(out')].kind, out'[Len(out')].errs)
<1>0. out \in Seq(Answers) /\ from \in Nat \ {0}
  BY DEF LexInv, LexTypes
<1>1. err \subseteq {"eof", "fail"} /\ err' \subseteq {"eof", "fail"}
  BY DEF LexInv, TypeOK
<1>2. "bad string" \notin err' /\ "bad string" \notin err /\ "unexpected EOF" \notin err
  BY <1>1
<1>3. UNCHANGED scanVars /\ from' = from => Read' = Read /\ current' = current /\ next' = next /\ Here' = Here
  BY ReadStays DEF Here
<1>4. mode \notin {"idle", "start"} => from <= Here
  BY DEF LexInv, Reading, Between
<1>5. CASE EndOfInput
  BY <1>0, <1>2, <1>5, ReturnIs DEF EndOfInput, Right
<1>6. CASE Single
  <2>1. mode = "single" /\ Scan /\ Return(current, from + 1, {})
    BY <1>6 DEF Single
  <2>2. /\ out'[Len(out')].errs = {} /\ out'[Len(out')].kind = current /\ from' = from
        /\ current \in brackets \cup {".", "'"} /\ current # EOF /\ Read = << >>
    BY <1>0, <2>1, ReturnIs, Classes DEF LexInv, Reading, Lexing
  <2>3. Len(Read') = 1 /\ Read'[1] = current
    <3> PICK n : n = Len(Read)
      OBVIOUS
    <3>1. n = 0 /\ Len(Read') = n + 1 /\ Read'[n + 1] = current
      BY <2>1, <2>2, OneMoreRead
    <3>2. n + 1 = 1
      BY <3>1
    <3> QED BY <3>1, <3>2
  <2>4. current \notin {"comment", "string", "int", "float", "symbol", "keyword"}
    BY <2>2 DEF brackets
  <2> QED BY <2>2, <2>3, <2>4 DEF Right, Lexeme
<1>7. CASE CommentEnd
  <2>1. mode = "comment" /\ current \in {EOF, Newline} /\ UNCHANGED scanVars /\ Return("comment", Here, {})
    BY <1>7 DEF CommentEnd
  <2>2. out'[Len(out')].errs = {} /\ out'[Len(out')].kind = "comment" /\ from' = from
    BY <1>0, <2>1, ReturnIs
  <2>3. (\A i \in DOMAIN Read : Read[i] # Newline) /\ Read[1] = ";"
    BY <2>1, Classes DEF Lexing
  <2>4. Read' = Read /\ current' = current
    BY <1>3, <2>1, <2>2
  <2> QED BY <2>1, <2>2, <2>3, <2>4 DEF Right, Lexeme
<1>8. CASE StringAtEnd
  <2> DEFINE errs == err \cup {"bad string", "unexpected EOF"}
  <2>1. mode = "body" /\ current = EOF /\ UNCHANGED scanVars /\ Return("nil", Here, errs)
    BY <1>8 DEF StringAtEnd
  <2>2. {"bad string", "unexpected EOF"} \subseteq errs
    OBVIOUS
  <2> HIDE DEF errs
  <2>3. out'[Len(out')].errs = errs /\ from' = from
    BY <1>0, <2>1, ReturnIs
  <2>4. Read # << >> /\ Clean(Read) /\ from < Here
    BY <2>1 DEF Lexing, LexInv, Reading
  <2>5. next = EOF
    BY <1>4, <2>1, <2>4, ReadAtEnd
  <2> QED BY <1>3, <2>1, <2>2, <2>3, <2>4, <2>5 DEF Right
<1>9. CASE StringClose
  <2>1. mode = "body" /\ current = Quote /\ current # EOF /\ Scan /\ Return("string", Len(seen) + 1, err')
    BY <1>9, Classes DEF StringClose
  <2>2. /\ out'[Len(out')].errs = err' /\ from' = from
        /\ err' = {} => out'[Len(out')].kind = "string"
    BY <1>0, <2>1, ReturnIs
  <2>3. Read # << >> /\ Clean(Read) /\ ~Open(Read)
    BY <2>1 DEF Lexing
  <2>4. Read' = Append(Read, current) /\ IsSeq(Read)
    BY <2>1, <2>2, OneMoreRead
  <2> PICK r, s : r = Read' /\ s = Read
    OBVIOUS
  <2>5. r[1] = Quote /\ Quotes(r) = {Len(r)} /\ BadEscapes(r) = {}
    BY <2>1, <2>3, <2>4, StringGrows
  <2>6. Lexeme("string", r, current')
    BY <2>5 DEF Lexeme
  <2> QED BY <1>2, <2>2, <2>6 DEF Right
<1>10. CASE StringBadEscape
  <2>1. /\ mode = "body" /\ current = "\\" /\ current # EOF /\ next \notin strEscapes /\ UNCHANGED scanVars
        /\ Return("nil", Here, {"bad string"})
    BY <1>10, Classes DEF StringBadEscape
  <2>2. out'[Len(out')].errs = {"bad string"} /\ from' = from
    BY <1>0, <2>1, ReturnIs
  <2>3. Clean(Read) /\ from < Here
    BY <2>1 DEF Lexing, LexInv, Reading
  <2> QED BY <1>3, <2>1, <2>2, <2>3 DEF Right
<1>11. CASE NumberEnd
  <2>1. mode = "number" /\ ~isNumberRune(current) /\ UNCHANGED scanVars /\ Return(numberKind(Read), Here, {})
    BY <1>11 DEF NumberEnd, Read
  <2>2. out'[Len(out')].errs = {} /\ out'[Len(out')].kind = numberKind(Read) /\ from' = from
    BY <1>0, <2>1, ReturnIs
  <2>3. Read' = Read /\ current' = current
    BY <1>3, <2>1, <2>2
  <2>4. Read # << >> /\ \A i \in DOMAIN Read : isNumberRune(Read[i])
    BY <2>1 DEF Lexing
  <2>5. IsSeq(Read)
    <3> PICK n \in Nat : Here = from + n /\ IsStretch(Read, seen, from, n)
      BY <1>4, <2>1, ReadIs
    <3> QED BY DEF IsStretch
  <2> PICK s : s = Read
    OBVIOUS
  <2>6. Len(s) \in Nat \ {0}
    BY <2>4, <2>5, SeqDomain
  <2>7. Lexeme(numberKind(s), s, current)
    <3>1. CASE Len(s) = 1 /\ s[1] \in {"+", "-"}
      <4>1. numberKind(s) = "symbol" /\ 2 .. Len(s) = {}
        BY <3>1 DEF numberKind
      <4> QED BY <2>1, <3>1, <4>1 DEF Lexeme
    <3>2. CASE ~(Len(s) = 1 /\ s[1] \in {"+", "-"})
      <4>1. /\ numberKind(s) \in {"float", "int"}
            /\ numberKind(s) = "float" <=> \E i \in DOMAIN s : s[i] \in floaty
        BY <3>2 DEF numberKind
      <4>2. s[1] \in {"+", "-"} => Len(s) > 1
        <5> PICK n \in Nat \ {0} : n = Len(s)
          BY <2>6
        <5>1. n # 1 => n > 1
          OBVIOUS
        <5> QED BY <3>2, <5>1
      <4> QED BY <2>1, <2>4, <4>1, <4>2 DEF Lexeme
    <3> QED BY <3>1, <3>2
  <2> QED BY <2>2, <2>3, <2>7 DEF Right
<1>12. CASE AtomEnd
  <2>1. /\ mode \in {"keyword", "symbol"} /\ Scan /\ current' # EOF /\ ~isAtomRune(current')
        /\ Return(mode, Len(seen'), err')
    BY <1>12 DEF AtomEnd
  <2>2. /\ out'[Len(out')].errs = err' /\ from' = from
        /\ err' = {} => out'[Len(out')].kind = mode
    BY <1>0, <2>1, ReturnIs
  <2>3. /\ \A i \in 2 .. Len(Read') : isAtomRune(Read'[i])
        /\ mode = "keyword" <=> Read'[1] = ":"
        /\ Read'[1] \notin {"+", "-"}
    BY <2>1, <2>2, AtomGrows
  <2>4. Lexeme(mode, Read', current')
    BY <2>1, <2>3 DEF Lexeme
  <2> QED BY <1>2, <2>2, <2>4 DEF Right
<1>13. CASE AtomAtEnd
  BY <1>0, <1>2, <1>13, ReturnIs DEF AtomAtEnd, Right
<1>14. CASE UNCHANGED vars \/ Call \/ SkipSeparator \/ Begin \/ CommentRune \/ StringScan \/ StringEscape
            \/ StringRune \/ NumberRune \/ AtomRune
  BY <1>14 DEF vars, Call, SkipSeparator, Begin, CommentRune, StringScan, StringEscape, StringRune,
     NumberRune, AtomRune, Goto, lexVars
<1> QED BY <1>5, <1>6, <1>7, <1>8, <1>9, <1>10, <1>11, <1>12, <1>13, <1>14 DEF LexNext, Step

(* The call that returns has read its answer well.                         *)
LEMMA AnswerIsWellRead ==
  ASSUME LexInv, LexInv', ScanInv', EndIsSeen, Lexing, [LexNext]_vars, out' # out,
         NEW t, t = out'[Len(out')]
  PROVE  /\ Len(out') = Len(out) + 1 /\ mode' = "idle"
         /\ \A i \in DOMAIN out : out'[i] = out[i]
         /\ WellRead(t)'
         /\ {"bad string", "unexpected EOF"} \subseteq t.errs => current' = EOF /\ next' = EOF
<1>1. [Scan]_scanVars
  BY StepScans
<1>2. PICK kind \in Kinds, to \in Nat, errs \in SUBSET Errors : Returns(kind, to, errs)
  <2>1. ~Call /\ ~SkipSeparator /\ ~Begin /\ ~GoesOn /\ ~UNCHANGED vars
    BY DEF Call, Goto, SkipSeparator, Begin, GoesOn, vars
  <2> QED BY <1>1, <2>1, SeenStays, StepCases DEF LexNext, LexInv
<1>3. to = Here' /\ to \in Nat \ {0} /\ Return(kind, to, errs)
  BY <1>1, <1>2, SeenStays DEF Returns
<1>4. /\ Len(out') = Len(out) + 1 /\ mode' = "idle"
      /\ \A i \in DOMAIN out : out'[i] = out[i]
      /\ t.from = from' /\ t.to = Here' /\ from' = from
      /\ t.kind = "EOF" \/ t.errs = {}
  BY <1>3, ReturnAppends DEF LexInv, LexTypes
<1>5. Right(t.kind, t.errs)
  BY AnswerIsRight
<1> PICK f, h, sees : f = t.from /\ h = t.to /\ sees = seen'
  OBVIOUS
<1>6. Text(t)' = Read'
  BY <1>4 DEF Text, Read
<1>7. /\ current' # EOF => h \in DOMAIN sees /\ sees[h] = current' /\ h = Len(sees) /\ h \in 1 .. Len(sees)
      /\ current' = EOF => h \notin DOMAIN sees
  <2>1. IsSeq(sees) /\ h = IF current' = EOF THEN Len(sees) + 1 ELSE Len(sees)
    BY <1>4 DEF LexInv, TypeOK, IsSeq, Here
  <2>2. current' # EOF => sees # << >> /\ current' = sees[Len(sees)]
    BY DEF LexInv, Seen
  <2> PICK n \in Nat : n = Len(sees)
    BY <2>1, SeqDomain
  <2>3. DOMAIN sees = 1 .. n /\ (sees = << >> <=> n = 0)
    BY <2>1, SeqDomain
  <2> QED BY <2>1, <2>2, <2>3
<1>8. Follow(t)' = current'
  BY <1>7 DEF Follow
<1>9. Malformed(t)' \/ "bad string" \notin t.errs
  <2> SUFFICES ASSUME "bad string" \in t.errs PROVE Malformed(t)'
    OBVIOUS
  <2>1. /\ f < h /\ Clean(Read')
        /\ "unexpected EOF" \notin t.errs => current' = "\\" /\ next' \notin strEscapes
    BY <1>4, <1>5 DEF Right
  <2>2. seen'[f] = Quote
    <3>1. f \in Nat \ {0} /\ h \in Nat
      BY <1>3, <1>4 DEF LexInv, LexTypes
    <3>2. IsSeq(sees) /\ h <= Len(sees) + 1
      BY <1>1, <1>4, SeenStays DEF LexInv, TypeOK, IsSeq
    <3>3. Read' = SubSeq(sees, f, h - 1)
      BY <1>4 DEF Read
    <3>4. Read'[1] = sees[f]
      <4>1. f < h
        BY <2>1
      <4>2. SubSeq(sees, f, h - 1)[1] = sees[f]
        <5>1. Begins(sees, f, h)
          BY StretchBegins
        <5> QED BY <3>1, <3>2, <4>1, <5>1, Zenon DEF Begins
      <4> QED BY <3>3, <4>2, Zenon
    <3> QED BY <2>1, <3>4 DEF Clean
  <2>3. "unexpected EOF" \notin t.errs =>
          /\ h \in 1 .. Len(sees) /\ sees[h] = "\\"
          /\ (IsText(1) => RuneAt(h + 1) \notin strEscapes)'
    <3> SUFFICES ASSUME current' = "\\", next' \notin strEscapes
                 PROVE  /\ h \in 1 .. Len(sees) /\ sees[h] = "\\"
                        /\ (IsText(1) => RuneAt(h + 1) \notin strEscapes)'
      BY <2>1
    <3>1. current' # EOF
      BY Classes
    <3>2. IsText(1)' => next' = RuneAt(h + 1)'
      BY <1>7, <3>1 DEF ScanInv
    <3> QED BY <1>7, <3>1, <3>2
  <2> QED BY <1>6, <2>1, <2>2, <2>3 DEF Malformed, Clean
<1>10. WellRead(t)'
  <2>1. t.kind \notin {"EOF", "nil"} => Lexeme(t.kind, Text(t), Follow(t))'
    BY <1>4, <1>5, <1>6, <1>8 DEF Right
  <2>2. t.to <= Here'
    BY <1>3, <1>4
  <2> QED BY <1>9, <2>1, <2>2 DEF WellRead
<1>11. {"bad string", "unexpected EOF"} \subseteq t.errs => current' = EOF /\ next' = EOF
  BY <1>5 DEF Right
<1> QED BY <1>4, <1>10, <1>11

LEMMA OneOfFewer ==
  ASSUME NEW n \in Nat, NEW i \in 1 .. n, NEW j \in i + 1 .. n + 1, j # n + 1
  PROVE  j \in i + 1 .. n /\ j \in 1 .. n
  OBVIOUS

LEMMA UnfinishedStays ==
  ASSUME LexInv, [LexNext]_vars, NEW i \in DOMAIN out, Unfinished(i),
         \A j \in DOMAIN out : out'[j] = out[j],
         out' # out => Len(out') = Len(out) + 1
  PROVE  Unfinished(i)'
<1>0. IsSeq(out)
  BY DEF LexInv, LexTypes, IsSeq
<1> PICK n \in Nat : n = Len(out) /\ DOMAIN out = 1 .. n
  BY <1>0, SeqDomain, Zenon
<1> SUFFICES ASSUME {"bad string", "unexpected EOF"} \subseteq out[i].errs
             PROVE  /\ current' = EOF /\ next' = EOF /\ mode' \in {"idle", "start", "eof"}
                    /\ \A j \in i + 1 .. Len(out') : out'[j].kind = "EOF"
  BY DEF Unfinished
<1>1. /\ current = EOF /\ next = EOF /\ mode \in {"idle", "start", "eof"}
      /\ \A j \in i + 1 .. Len(out) : out[j].kind = "EOF"
  BY DEF Unfinished
<1>2. current' = EOF /\ next' = EOF
  BY <1>1, StepScans DEF Scan, ScanAtEnd, ScanAdvance, ScanFails
<1>3. CASE out' = out /\ mode' \in {"idle", "start", "eof"}
  BY <1>1, <1>2, <1>3
<1>4. CASE EndOfInput
  <2>1. mode' = "idle" /\ out'[Len(out')].kind = "EOF"
    BY <1>4, ReturnIs DEF EndOfInput, LexInv, LexTypes
  <2> SUFFICES ASSUME out' # out, NEW j \in i + 1 .. n + 1 PROVE out'[j].kind = "EOF"
    BY <1>2, <1>3, <2>1
  <2>2. CASE j = n + 1
    BY <2>1, <2>2
  <2>3. CASE j # n + 1
    <3>1. j \in i + 1 .. n /\ j \in DOMAIN out
      BY <2>3, OneOfFewer, Zenon
    <3> QED BY <1>1, <3>1
  <2> QED BY <2>2, <2>3
<1> QED BY <1>1, <1>3, <1>4, EndedStep

LEMMA AllReadStep ==
  ASSUME LexInv, LexInv', ScanInv', EndIsSeen, Lexing, AllRead, [LexNext]_vars
  PROVE  AllRead'
<1> PICK n \in Nat : n = Len(out) /\ DOMAIN out = 1 .. n
  BY DEF LexInv, LexTypes
<1> PICK t : t = out'[Len(out')]
  OBVIOUS
<1>1. /\ \A j \in DOMAIN out : out'[j] = out[j]
      /\ out' # out =>
           /\ Len(out') = n + 1 /\ mode' = "idle" /\ WellRead(t)'
           /\ {"bad string", "unexpected EOF"} \subseteq t.errs => current' = EOF /\ next' = EOF
  BY AnswerIsWellRead
<1>2. ASSUME NEW i \in DOMAIN out PROVE WellRead(out[i])' /\ Unfinished(i)'
  <2> PICK u : u = out[i]
    OBVIOUS
  <2>1. u \in Answers /\ u.from <= u.to /\ (u.kind \notin {"EOF", "nil"} => u.from < u.to)
    BY DEF LexInv, LexTypes, Tile
  <2>2. WellRead(u)'
    BY <2>1, StepScans, WellReadStays DEF AllRead
  <2>3. Unfinished(i)'
    BY <1>1, UnfinishedStays DEF AllRead
  <2> QED BY <1>1, <2>2, <2>3
<1>3. ASSUME out' # out PROVE WellRead(out[n + 1])' /\ Unfinished(n + 1)'
  <2>1. t = out'[n + 1] /\ Len(out') = n + 1
    BY <1>1, <1>3
  <2>2. (n + 1) + 1 .. Len(out') = {}
    BY <2>1
  <2> QED BY <1>1, <1>3, <2>1, <2>2 DEF Unfinished
<1>4. \A i \in DOMAIN out' : i \in DOMAIN out \/ (out' # out /\ i = n + 1)
  <2>1. DOMAIN out' = 1 .. Len(out')
    BY DEF LexInv, LexTypes
  <2>2. CASE out' = out
    BY <2>2
  <2>3. CASE out' # out
    <3>1. DOMAIN out' = 1 .. n + 1
      BY <1>1, <2>1, <2>3
    <3> QED BY <2>3, <3>1
  <2> QED BY <2>2, <2>3
<1> QED BY <1>2, <1>3, <1>4 DEF AllRead

ReadInv == LexInv /\ ScanInv /\ EndIsSeen /\ Lexing /\ AllRead

LEMMA ReadInit == LexInit => ReadInv
<1> SUFFICES ASSUME LexInit PROVE ReadInv
  OBVIOUS
<1>1. LexInv /\ ScanInv /\ EndIsSeen
  BY LexInit0, ScanInit, EndSeenInit DEF LexInit, LexInv
<1>2. Lexing /\ AllRead
  <2>1. mode = "idle" /\ out = << >> /\ DOMAIN << >> = {}
    BY EmptySeq DEF LexInit
  <2> QED BY <2>1 DEF Lexing, AllRead
<1> QED BY <1>1, <1>2 DEF ReadInv

LEMMA ReadStep == ReadInv /\ [LexNext]_vars => ReadInv'
<1> SUFFICES ASSUME ReadInv, [LexNext]_vars PROVE ReadInv'
  OBVIOUS
<1> USE DEF ReadInv
<1>1. LexInv' /\ [Scan]_scanVars /\ TypeOK
  BY LexStep, StepScans DEF LexInv
<1>2. ScanInv' /\ EndIsSeen'
  BY <1>1, ScanStep, EndSeenStep
<1> QED BY <1>1, <1>2, LexingStep, AllReadStep

(* Every token is a longest lexeme of its kind: a string ends at its first *)
(* quote that is not escaped, a comment at the newline, and no number or   *)
(* atom is cut short or runs into its neighbour (lexer.go:82-248).         *)
THEOREM LexemesAreWhole == LexSpec => []TokensAreLexemes
<1>1. ReadInv => TokensAreLexemes
  BY DEF ReadInv, AllRead, WellRead, TokensAreLexemes
<1> QED BY <1>1, ReadInit, ReadStep, PTL DEF LexSpec

(* A string is called unfinished only if no quote closes it and nothing    *)
(* follows, and malformed only if its last escape is no escape             *)
(* (lexer.go:108-142): the REPL waits for more on the strength of the one  *)
(* and complains on that of the other.                                     *)
THEOREM StringErrorsHold == LexSpec => []StringErrorsAreReal
<1>1. ReadInv => StringErrorsAreReal
  <2> SUFFICES ASSUME AllRead, NEW i \in DOMAIN out, "bad string" \in out[i].errs
               PROVE  /\ seen[out[i].from] = Quote
                      /\ Quotes(Text(out[i])) = {} /\ BadEscapes(Text(out[i])) = {}
                      /\ IF "unexpected EOF" \in out[i].errs
                         THEN \A j \in i + 1 .. Len(out) : out[j].kind = "EOF"
                         ELSE /\ seen[out[i].to] = "\\"
                              /\ IsText(1) => RuneAt(out[i].to + 1) \notin strEscapes
    BY DEF ReadInv, StringErrorsAreReal
  <2>1. Malformed(out[i]) /\ Unfinished(i)
    BY DEF AllRead, WellRead
  <2> QED BY <2>1 DEF Malformed, Unfinished
<1> QED BY <1>1, ReadInit, ReadStep, PTL DEF LexSpec

(***************************************************************************)
(* What the parser may expect of the answers, for a reader that holds a    *)
(* text: runes other than 0, and no failure.  The error of New is the only *)
(* one there is, and only a text of a rune or none has it.                 *)
(***************************************************************************)
Whole == \A i \in DOMAIN input : input[i] \notin {EOF, Failure}
TextErrors == IF Len(input) < 2 THEN {"eof"} ELSE {}

TokenKinds ==
  {"comment", "string", "int", "float", "symbol", "keyword", "EOF", "nil"} \cup brackets \cup {".", "'"}

Kind(t) ==
  /\ t.kind \in TokenKinds
  /\ t.errs # {} => t.kind = "EOF"

ToldOf(t) ==
  /\ t.errs \in {{}, TextErrors, {"bad string"}, TextErrors \cup {"bad string", "unexpected EOF"}}
  /\ t.kind = "EOF" /\ t.errs = {} => current = EOF /\ t.from = Len(seen) + 1

TextIsScanned ==
  Whole =>
    /\ err = TextErrors
    /\ input = << >> => current = EOF /\ next = EOF /\ seen = << >>

Told ==
  /\ TextIsScanned
  /\ \A i \in DOMAIN out : Kind(out[i]) /\ (Whole => ToldOf(out[i]))

LEMMA WholeIs ==
  ASSUME LexInv, ScanInv, TextIsScanned, Whole
  PROVE  /\ current = EOF => next = EOF
         /\ Len(seen) <= Len(input)
<1>1. IsSeq(input) /\ IsSeq(seen)
  BY DEF LexInv, TypeOK, IsSeq
<1>2. CASE input = << >>
  BY <1>1, <1>2, SeqDomain DEF TextIsScanned
<1>3. CASE input # << >>
  <2> PICK n \in Nat, m \in Nat : n = Len(input) /\ m = Len(seen)
    BY <1>1, SeqDomain
  <2>1. n # 0 /\ DOMAIN input = 1 .. n
    BY <1>1, <1>3, SeqDomain
  <2>2. IsText(1)
    BY <2>1 DEF IsText, Whole
  <2>3. (current = EOF => next = EOF) /\ IsText(m)
    BY <2>2 DEF ScanInv, SeenInOrder
  <2>4. m <= n
    <3> SUFFICES ASSUME m # 0 PROVE m <= n
      OBVIOUS
    <3>1. m \in DOMAIN input
      BY <2>3 DEF IsText
    <3> QED BY <2>1, <3>1
  <2> QED BY <2>3, <2>4
<1> QED BY <1>2, <1>3

LEMMA TextInit == LexInit => Told
<1> SUFFICES ASSUME LexInit PROVE Told
  OBVIOUS
<1>1. out = << >> /\ DOMAIN out = {}
  BY EmptySeq DEF LexInit
<1>2. TextIsScanned
  <2> SUFFICES ASSUME NEW in \in Inputs, New(in), Whole
               PROVE  err = TextErrors /\ (input = << >> => current = EOF /\ next = EOF /\ seen = << >>)
    BY DEF LexInit, Init, TextIsScanned
  <2>1. IsSeq(input)
    BY InputsAssumption DEF New, IsSeq
  <2> PICK n \in Nat : n = Len(input) /\ DOMAIN input = 1 .. n /\ (input = << >> <=> n = 0)
    BY <2>1, SeqDomain
  <2>2. input[1] # Failure \/ n < 1
    BY DEF Whole
  <2>3. input[2] # Failure \/ n < 2
    BY DEF Whole
  <2>4. ErrorAt(1) = IF n < 1 THEN {"eof"} ELSE {}
    BY <2>2 DEF ErrorAt
  <2>5. ErrorAt(2) = IF n < 2 THEN {"eof"} ELSE {}
    BY <2>3 DEF ErrorAt
  <2>6. err = TextErrors
    BY <2>4, <2>5 DEF New, TextErrors
  <2>7. n = 0 => RuneAt(1) = EOF /\ RuneAt(2) = EOF
    BY DEF RuneAt
  <2> QED BY <2>6, <2>7 DEF New, Visible
<1> QED BY <1>1, <1>2 DEF Told

LEMMA TextStays ==
  ASSUME TextIsScanned, [Scan]_scanVars
  PROVE  TextIsScanned' /\ Whole' = Whole /\ TextErrors' = TextErrors
<1>1. input' = input
  BY DEF Scan, ScanAtEnd, ScanAdvance, ScanFails
<1>2. Whole' = Whole /\ TextErrors' = TextErrors
  BY <1>1 DEF Whole, TextErrors
<1>3. Whole => ~ScanFails
  BY DEF Whole, ScanFails, ErrorAt
<1> QED BY <1>1, <1>2, <1>3 DEF TextIsScanned, Scan, ScanAtEnd, ScanAdvance

LEMMA AnswerIsTold ==
  ASSUME LexInv, [LexNext]_vars, out' # out, NEW t, t = out'[Len(out')]
  PROVE  /\ Kind(t)
         /\ t.errs \in {{}, err', {"bad string"}, err' \cup {"bad string", "unexpected EOF"}}
         /\ t.kind = "EOF" /\ t.errs = {} /\ (current = EOF => next = EOF) =>
              current' = EOF /\ t.from = Len(seen') + 1
<1>0. out \in Seq(Answers)
  BY DEF LexInv, LexTypes
<1>1. CASE EndOfInput
  <2>1. current = EOF /\ from = Here /\ Scan
    BY <1>1 DEF EndOfInput, LexInv, Reading
  <2>2. next = EOF => current' = EOF /\ seen' = seen /\ from = Len(seen) + 1
    BY <2>1 DEF Scan, ScanAtEnd, ScanAdvance, ScanFails, Here
  <2>3. t.kind = "EOF" /\ t.errs = err' /\ t.from = from
    BY <1>0, <1>1, ReturnIs DEF EndOfInput
  <2> QED BY <2>1, <2>2, <2>3 DEF Kind, TokenKinds
<1>2. ASSUME NEW kind \in TokenKinds \ {"EOF"}, NEW to, NEW es,
             Return(kind, to, es),
             es \in {{}, err', {"bad string"}, err' \cup {"bad string", "unexpected EOF"}}
      PROVE  /\ Kind(t)
             /\ t.errs \in {{}, err', {"bad string"}, err' \cup {"bad string", "unexpected EOF"}}
             /\ ~(t.kind = "EOF" /\ t.errs = {})
  <2>1. t.errs = es /\ t.kind = IF es = {} THEN kind ELSE "EOF"
    BY <1>0, <1>2, ReturnIs
  <2> QED BY <1>2, <2>1 DEF Kind, TokenKinds
<1>3. {"comment", "nil", "string", "int", "float", "symbol", "keyword"} \subseteq TokenKinds \ {"EOF"}
  BY DEF TokenKinds
<1>4. CASE Single
  <2>1. Return(current, from + 1, {}) /\ current \in TokenKinds \ {"EOF"}
    BY <1>4 DEF Single, LexInv, Reading, TokenKinds, brackets
  <2> QED BY <1>2, <2>1
<1>5. CASE CommentEnd
  BY <1>2, <1>3, <1>5 DEF CommentEnd
<1>6. CASE StringAtEnd
  <2>1. Return("nil", Here, err' \cup {"bad string", "unexpected EOF"})
    BY <1>6 DEF StringAtEnd
  <2> QED BY <1>2, <1>3, <2>1
<1>7. CASE StringClose
  BY <1>2, <1>3, <1>7 DEF StringClose
<1>8. CASE StringBadEscape
  BY <1>2, <1>3, <1>8 DEF StringBadEscape
<1>9. CASE NumberEnd
  <2> PICK kind : kind = numberKind(SubSeq(seen, from, Here - 1))
    OBVIOUS
  <2>1. Return(kind, Here, {}) /\ kind \in TokenKinds \ {"EOF"}
    BY <1>3, <1>9, NumberKinds DEF NumberEnd
  <2> QED BY <1>2, <2>1
<1>10. CASE AtomEnd
  BY <1>2, <1>3, <1>10 DEF AtomEnd
<1>11. CASE AtomAtEnd
  BY <1>2, <1>3, <1>11 DEF AtomAtEnd
<1>12. CASE UNCHANGED vars \/ Call \/ SkipSeparator \/ Begin \/ CommentRune \/ StringScan \/ StringEscape
            \/ StringRune \/ NumberRune \/ AtomRune
  BY <1>12 DEF vars, Call, SkipSeparator, Begin, CommentRune, StringScan, StringEscape, StringRune,
     NumberRune, AtomRune, Goto, lexVars
<1> QED BY <1>1, <1>4, <1>5, <1>6, <1>7, <1>8, <1>9, <1>10, <1>11, <1>12 DEF LexNext, Step

LEMMA ToldStep == ReadInv /\ Told /\ [LexNext]_vars => Told'
<1> SUFFICES ASSUME ReadInv, Told, [LexNext]_vars PROVE Told'
  OBVIOUS
<1> PICK n \in Nat : n = Len(out) /\ DOMAIN out = 1 .. n
  BY DEF ReadInv, LexInv, LexTypes
<1> PICK t : t = out'[Len(out')]
  OBVIOUS
<1>1. LexInv /\ ScanInv /\ EndIsSeen /\ Lexing /\ [Scan]_scanVars /\ TextIsScanned
  BY StepScans DEF ReadInv, Told
<1>2. LexInv' /\ ScanInv' /\ TextIsScanned' /\ Whole' = Whole /\ TextErrors' = TextErrors
  BY <1>1, ReadStep, TextStays DEF ReadInv
<1>3. Whole => (current = EOF => next = EOF) /\ err' = TextErrors
  BY <1>1, <1>2, WholeIs DEF TextIsScanned
<1>4. /\ \A j \in DOMAIN out : out'[j] = out[j]
      /\ out' # out => Len(out') = n + 1
  BY <1>1, <1>2, AnswerIsWellRead
<1>5. ASSUME NEW i \in DOMAIN out PROVE Kind(out[i]) /\ (Whole => ToldOf(out[i])')
  <2> PICK u : u = out[i]
    OBVIOUS
  <2>1. Kind(u) /\ (Whole => ToldOf(u))
    BY DEF Told
  <2>2. ASSUME Whole PROVE ToldOf(u)'
    <3>1. next = EOF => (current' = EOF /\ seen' = seen) \/ UNCHANGED scanVars
      BY <1>1 DEF Scan, ScanAtEnd, ScanAdvance, ScanFails
    <3>2. current = EOF => current' = EOF /\ seen' = seen
      BY <1>3, <2>2, <3>1
    <3> QED BY <1>2, <2>1, <2>2, <3>2 DEF ToldOf
  <2> QED BY <1>4, <2>1, <2>2
<1>6. ASSUME out' # out PROVE Kind(t) /\ (Whole => ToldOf(t)')
  BY <1>1, <1>2, <1>3, <1>6, AnswerIsTold DEF ToldOf
<1>7. ASSUME NEW i \in DOMAIN out' PROVE i \in DOMAIN out \/ (out' # out /\ out'[i] = t)
  <2>1. CASE out' = out
    BY <1>7, <2>1
  <2>2. CASE out' # out
    <3>1. DOMAIN out' = 1 .. n + 1
      BY <1>2, <1>4, <2>2 DEF LexInv, LexTypes
    <3> QED BY <1>4, <1>7, <2>2, <3>1
  <2> QED BY <2>1, <2>2
<1>8. ASSUME NEW i \in DOMAIN out' PROVE (Kind(out[i]) /\ (Whole => ToldOf(out[i])))'
  <2>1. CASE i \in DOMAIN out
    BY <1>2, <1>4, <1>5, <2>1 DEF Kind
  <2>2. CASE out' # out /\ out'[i] = t
    BY <1>2, <1>6, <2>2 DEF Kind, ToldOf
  <2> QED BY <1>7, <1>8, <2>1, <2>2
<1> QED BY <1>2, <1>8 DEF Told

(* The answers after which nobody calls again.                             *)
Stops(t) == t.kind = "nil" \/ (t.kind = "EOF" /\ t.errs # {"bad string"})
TakesRunes(t) == ~Stops(t) \/ "bad string" \in t.errs

LEMMA Takes ==
  ASSUME ReadInv, NEW i \in DOMAIN out
  PROVE  /\ i \in Nat \ {0}
         /\ out[i].from \in Nat \ {0} /\ out[i].to \in Nat \ {0} /\ out[i].to <= Len(seen) + 1
         /\ TakesRunes(out[i]) => out[i].from < out[i].to
         /\ i - 1 \in DOMAIN out => out[i - 1].to <= out[i].from
         /\ i # 1 => i - 1 \in DOMAIN out
         /\ Len(seen) \in Nat
<1>1. /\ i \in 1 .. Len(out) /\ Len(out) \in Nat /\ DOMAIN out = 1 .. Len(out)
      /\ out[i].from \in Nat \ {0} /\ out[i].to \in Nat \ {0}
  <2>1. out \in Seq(Answers)
    BY DEF ReadInv, LexInv, LexTypes
  <2>2. out[i] \in Answers
    BY <2>1
  <2> QED BY <2>1, <2>2 DEF Answers
<1>2. Tile(i) /\ WellRead(out[i])
  BY DEF ReadInv, LexInv, AllRead
<1>3. Len(seen) \in Nat
  BY HereIs DEF ReadInv
<1>4. TakesRunes(out[i]) => out[i].from < out[i].to
  BY <1>2 DEF TakesRunes, Stops, Tile, WellRead, Malformed
<1>5. i - 1 \in DOMAIN out => out[i - 1].to <= out[i].from
  BY <1>1, <1>2 DEF Tile, Resumed
<1> QED BY <1>1, <1>2, <1>3, <1>4, <1>5 DEF Tile

LEMMA TwoRunes ==
  ASSUME ReadInv, NEW i \in DOMAIN out, i - 1 \in DOMAIN out,
         TakesRunes(out[i - 1]), TakesRunes(out[i])
  PROVE  Len(seen) >= 2
  BY Takes

(* What follows a malformed string is the atom that the bad escape begins. *)
Escape(t) == t.errs = {} /\ t.kind \in {"symbol", "nil"} /\ (t.kind = "symbol" => Text(t)[1] = "\\")

LEMMA BackslashStarts ==
  ASSUME NEW kind \in TokenKinds \ {"EOF", "nil"}, NEW s, NEW follow, Lexeme(kind, s, follow),
         1 \in DOMAIN s, s[1] = "\\"
  PROVE  kind = "symbol"
<1>1. kind \notin {"comment", "string", "keyword"}
  BY DEF Lexeme, Quote
<1>2. kind \notin {"int", "float"}
  <2>1. ~isNumberRune("\\")
    BY ClassAssumption DEF ClassesApart, isNumberRune, isDigit, strEscapes, numbery, floaty
  <2> QED BY <2>1 DEF Lexeme
<1>3. kind \notin brackets \cup {".", "'"}
  BY DEF Lexeme, brackets
<1> QED BY <1>1, <1>2, <1>3 DEF TokenKinds

LEMMA AnswersFollow ==
  ASSUME ReadInv, Told, Whole, NEW i \in DOMAIN out, \A j \in 1 .. i - 1 : ~Stops(out[j])
  PROVE  /\ "eof" \in out[i].errs => i <= 2 /\ ("bad string" \in out[i].errs => i = 1)
         /\ out[i].errs = {"bad string"} /\ i + 1 \in DOMAIN out => Escape(out[i + 1])
<1>1. ASSUME NEW k \in DOMAIN out, "eof" \in out[k].errs
      PROVE  Len(seen) < 2
  <2>1. TextErrors = {"eof"}
    <3>1. ToldOf(out[k])
      BY DEF Told
    <3> QED BY <1>1, <3>1 DEF ToldOf, TextErrors
  <2>2. Len(input) < 2
    BY <2>1 DEF TextErrors
  <2>3. Len(seen) <= Len(input)
    BY WholeIs DEF ReadInv, Told
  <2>4. Len(input) \in Nat /\ Len(seen) \in Nat
    BY DEF ReadInv, LexInv, TypeOK
  <2> QED BY <2>2, <2>3, <2>4
<1>2. i \in Nat \ {0} /\ (i # 1 => i - 1 \in DOMAIN out) /\ Len(seen) \in Nat
  BY Takes
<1>3. ASSUME "eof" \in out[i].errs PROVE i <= 2
  <2> SUFFICES ASSUME i > 2 PROVE FALSE
    BY <1>2
  <2>1. i - 1 \in DOMAIN out /\ i - 2 \in DOMAIN out /\ (i - 1) - 1 = i - 2
    BY <1>2, Takes
  <2>2. i - 1 \in 1 .. i - 1 /\ i - 2 \in 1 .. i - 1
    BY <1>2
  <2>3. Len(seen) >= 2
    BY <2>1, <2>2, TwoRunes DEF TakesRunes
  <2> QED BY <1>1, <1>2, <1>3, <2>3
<1>4. ASSUME "eof" \in out[i].errs, "bad string" \in out[i].errs PROVE i = 1
  <2> SUFFICES ASSUME i # 1 PROVE FALSE
    OBVIOUS
  <2>1. i - 1 \in DOMAIN out /\ i - 1 \in 1 .. i - 1
    BY <1>2
  <2>2. Len(seen) >= 2
    BY <1>4, <2>1, TwoRunes DEF TakesRunes
  <2>3. Len(seen) < 2
    BY <1>1, <1>4
  <2> QED BY <1>2, <2>2, <2>3
<1>5. ASSUME out[i].errs = {"bad string"}, i + 1 \in DOMAIN out PROVE Escape(out[i + 1])
  <2> PICK t, u, e, f : t = out[i] /\ u = out[i + 1] /\ e = t.to /\ f = u.from
    OBVIOUS
  <2>1. t.from < e /\ e \in 1 .. Len(seen) /\ seen[e] = "\\" /\ t.from \in Nat \ {0}
    <3>1. Malformed(t)
      BY <1>5 DEF ReadInv, AllRead, WellRead
    <3> QED BY <1>5, <3>1, Takes DEF Malformed
  <2>2. f = e
    <3>1. (i + 1) - 1 = i /\ i + 1 # 1 /\ e \in Nat
      BY <1>2, <2>1
    <3>2. Resumed(i + 1) = e
      BY <3>1 DEF Resumed
    <3>3. e <= f /\ Skipped(e, f) /\ f \in Nat
      BY <1>5, <3>2, Takes DEF ReadInv, LexInv, Tile
    <3>4. ~isSpace(seen[e])
      BY <2>1, ClassAssumption DEF isSpace, strEscapes
    <3>5. ~(e < f)
      BY <3>1, <3>3, <3>4 DEF Skipped
    <3> QED BY <3>1, <3>3, <3>5
  <2>3. "bad string" \notin u.errs
    <3>1. "bad string" \in u.errs => seen[f] = Quote
      BY <1>5 DEF ReadInv, AllRead, WellRead, Malformed
    <3> QED BY <2>1, <2>2, <3>1 DEF Quote
  <2>4. "eof" \notin u.errs
    <3>1. Len(seen) >= 2
      BY <1>2, <2>1
    <3>2. "eof" \in out[i + 1].errs => Len(seen) < 2
      BY <1>1, <1>5
    <3> QED BY <1>2, <3>1, <3>2
  <2>5. Kind(u) /\ ToldOf(u)
    BY <1>5 DEF Told
  <2>6. u.errs = {}
    BY <2>3, <2>4, <2>5 DEF ToldOf, TextErrors
  <2>7. u.kind # "EOF"
    BY <1>2, <2>1, <2>2, <2>5, <2>6 DEF ToldOf
  <2>8. ASSUME u.kind # "nil" PROVE u.kind = "symbol" /\ Text(u)[1] = "\\"
    <3> PICK s, h : s = Text(u) /\ h = Follow(u)
      OBVIOUS
    <3>1. f < u.to /\ u.to \in Nat /\ u.to <= Len(seen) + 1 /\ f \in Nat \ {0}
      BY <1>5, <2>6, <2>7, <2>8, Takes DEF TakesRunes, Stops
    <3>2. 1 \in DOMAIN s /\ s[1] = "\\"
      <4>1. IsSeq(seen)
        BY HereIs DEF ReadInv
      <4> PICK n \in Nat \ {0} : u.to = f + n
        <5>1. u.to - f \in Nat \ {0} /\ u.to = f + (u.to - f)
          BY <3>1
        <5> QED BY <5>1
      <4>2. IsStretch(SubSeq(seen, f, u.to - 1), seen, f, n)
        BY <3>1, <4>1, StretchIs
      <4>3. IsStretch(s, seen, f, n)
        BY <4>2 DEF Text
      <4>4. 1 \in 1 .. n /\ f + 1 - 1 = f
        BY <3>1
      <4>5. s[1] = seen[f] /\ DOMAIN s = 1 .. n
        BY <4>3, <4>4, SeqDomain DEF IsStretch
      <4> QED BY <2>1, <2>2, <4>4, <4>5
    <3>3. Lexeme(u.kind, s, h)
      BY <1>5, <2>7, <2>8 DEF ReadInv, AllRead, WellRead
    <3> QED BY <2>5, <2>7, <2>8, <3>2, <3>3, BackslashStarts DEF Kind
  <2> QED BY <2>6, <2>8 DEF Escape
<1> QED BY <1>3, <1>4, <1>5

(* For one who calls until an answer stops him, no answer but the last one *)
(* does.                                                                   *)
OnlyLastStops == \A i \in DOMAIN out : Stops(out[i]) => i = Len(out) /\ mode = "idle"

LEMMA StopStep ==
  ASSUME ReadInv, OnlyLastStops, LexNext, mode = "idle" /\ out # << >> => ~Stops(LastOut)
  PROVE  OnlyLastStops'
<1> PICK n \in Nat : n = Len(out) /\ DOMAIN out = 1 .. n
  BY DEF ReadInv, LexInv, LexTypes
<1>1. \A i \in DOMAIN out : ~Stops(out[i])
  <2>1. CASE mode = "idle" /\ out # << >>
    BY <2>1 DEF OnlyLastStops, LastOut
  <2>2. CASE mode # "idle"
    BY <2>2 DEF OnlyLastStops
  <2>3. CASE out = << >>
    BY <2>3, EmptySeq
  <2> QED BY <2>1, <2>2, <2>3
<1>2. LexInv' /\ ScanInv'
  BY ReadStep DEF ReadInv
<1>3. ASSUME out' # out
      PROVE  Len(out') = n + 1 /\ DOMAIN out' = 1 .. n + 1 /\ mode' = "idle" /\ \A i \in DOMAIN out : out'[i] = out[i]
  <2>1. Len(out') = n + 1 /\ mode' = "idle" /\ \A i \in DOMAIN out : out'[i] = out[i]
    BY <1>2, <1>3, AnswerIsWellRead DEF ReadInv
  <2> QED BY <1>2, <2>1 DEF LexInv, LexTypes
<1>4. ASSUME NEW i \in DOMAIN out', Stops(out[i])' PROVE i = Len(out') /\ mode' = "idle"
  <2>1. CASE out' = out
    BY <1>1, <1>4, <2>1 DEF Stops
  <2>2. CASE out' # out
    <3>1. i \in DOMAIN out => ~Stops(out[i])'
      BY <1>1, <1>3, <2>2 DEF Stops
    <3> QED BY <1>3, <1>4, <2>2, <3>1
  <2> QED BY <2>1, <2>2
<1> QED BY <1>4 DEF OnlyLastStops

(* All that is known of a lexer and of its answers.                        *)
CallInv == ReadInv /\ Told /\ OnlyLastStops

LEMMA CallsBegin == LexInit => CallInv
<1> SUFFICES ASSUME LexInit PROVE CallInv
  OBVIOUS
<1>1. out = << >> /\ DOMAIN << >> = {}
  BY EmptySeq DEF LexInit
<1> QED BY <1>1, ReadInit, TextInit DEF CallInv, OnlyLastStops

LEMMA CallsGoOn ==
  ASSUME CallInv, LexNext, mode = "idle" /\ out # << >> => ~Stops(LastOut)
  PROVE  CallInv' /\ input' = input
<1>1. ReadInv' /\ Told' /\ OnlyLastStops'
  BY ReadStep, ToldStep, StopStep DEF CallInv
<1>2. input' = input
  BY StepScans DEF Scan, ScanAtEnd, ScanAdvance, ScanFails
<1> QED BY <1>1, <1>2 DEF CallInv

LEMMA CallsStay == CallInv /\ UNCHANGED vars => CallInv'
<1> SUFFICES ASSUME CallInv, UNCHANGED vars PROVE CallInv'
  OBVIOUS
<1>1. ReadInv' /\ Told'
  BY ReadStep, ToldStep DEF CallInv
<1>2. OnlyLastStops'
  BY DEF CallInv, OnlyLastStops, vars, lexVars
<1> QED BY <1>1, <1>2 DEF CallInv
=============================================================================
