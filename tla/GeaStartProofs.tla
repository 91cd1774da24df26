--------------------------- MODULE GeaStartProofs ---------------------------
(****************************************************************************)
(* gea_start reads commands without losing a byte and leaves none behind:   *)
(* proofs for every text and every size of the read buffer.                 *)
(*                                                                          *)
(* NothingLost is inductive together with the types.  NoneLeftBehind is not *)
(* as it stands: a closed descriptor leaves nothing because the last byte   *)
(* put into the buffer was the faked newline, which EndsTheLine carries     *)
(* through the rounds of the loop.                                          *)
(* StartedInOrder follows the commands of what has been parsed; ReaderEnds  *)
(* counts down what is left to do.                                          *)
(****************************************************************************)
EXTENDS GeaStart, SequenceTheorems, FiniteSetTheorems, NaturalsInduction, WellFoundedInduction, TLAPS

\* Once read has ended, the buffer is empty or ends with a delimiter.
EndsTheLine ==
    eof # "no" => /\ pc \in {"split", "closed"}
                  /\ line = <<>> \/ line[Len(line)] = "d"

\* Before the first waitFor the buffer is empty.
Fresh == pc = "off" => line = <<>>

IInv == TypeOK /\ NothingLost /\ NoneLeftBehind /\ EndsTheLine /\ Fresh

\* Reading a sequence's front and rest one after the other gives the sequence.
LEMMA FrontAndRest ==
    ASSUME NEW S, NEW s \in Seq(S), NEW d \in 1..Len(s)
    PROVE  /\ SubSeq(s, 1, d) \in Seq(S)
           /\ SubSeq(s, d + 1, Len(s)) \in Seq(S)
           /\ Len(SubSeq(s, d + 1, Len(s))) = Len(s) - d
           /\ \A i \in 1..Len(s) - d : SubSeq(s, d + 1, Len(s))[i] = s[d + i]
           /\ SubSeq(s, 1, d) \o SubSeq(s, d + 1, Len(s)) = s
<1>1. \A i \in 1..Len(s) : s[i] \in S
  BY ElementOfSeq
<1>2. SubSeq(s, 1, d) \in Seq(S)
  BY <1>1, SubSeqProperties
<1>3. /\ SubSeq(s, d + 1, Len(s)) \in Seq(S)
      /\ Len(SubSeq(s, d + 1, Len(s))) = IF d + 1 <= Len(s) THEN Len(s) - (d + 1) + 1 ELSE 0
      /\ \A i \in 1..Len(s) - (d + 1) + 1 : SubSeq(s, d + 1, Len(s))[i] = s[d + 1 + i - 1]
  <2>1. \A i \in d + 1..Len(s) : s[i] \in S
    BY <1>1
  <2>2. d + 1 \in Int /\ Len(s) \in Int
    OBVIOUS
  <2> QED BY <2>1, <2>2, SubSeqProperties
<1>4. SubSeq(s, 1, d) \o SubSeq(s, d + 1, Len(s)) = SubSeq(s, 1, Len(s))
  BY ConcatAdjacentSubSeq
<1>5. SubSeq(s, 1, Len(s)) = s
  BY SubSeqFull
<1>6. Len(SubSeq(s, d + 1, Len(s))) = Len(s) - d
  <2>1. Len(s) \in Nat /\ d <= Len(s) /\ d \in Nat
    BY LenProperties
  <2> QED BY <1>3, <2>1
<1>7. ASSUME NEW i \in 1..Len(s) - d PROVE SubSeq(s, d + 1, Len(s))[i] = s[d + i]
  <2>1. Len(s) \in Nat /\ d \in Nat /\ i \in Nat
    BY LenProperties
  <2>2. i \in 1..Len(s) - (d + 1) + 1 /\ d + 1 + i - 1 = d + i
    BY <2>1
  <2> QED BY <1>3, <2>2
<1> QED BY <1>2, <1>3, <1>4, <1>5, <1>6, <1>7

\* Appended, when length is right, appends.
LEMMA AppendedAppends ==
    ASSUME TypeOK, NothingLost, NEW buf \in Seq(Bytes), Appended(buf)
    PROVE  /\ line' = line \o buf
           /\ line' \in Seq(Bytes)
           /\ length' = Len(line')
           /\ parsed \o line' = Consumed \o buf
           /\ pc' = "split"
<1>1. SubSeq(line, 1, length) = line
  BY SubSeqFull DEF TypeOK, NothingLost
<1>2. line' = line \o buf
  BY <1>1 DEF Appended
<1>3. line' \in Seq(Bytes) /\ Len(line') = Len(line) + Len(buf)
  BY <1>2, ConcatProperties DEF TypeOK
<1>4. (parsed \o line) \o buf = parsed \o (line \o buf)
  BY ConcatAssociative DEF TypeOK
<1> QED BY <1>2, <1>3, <1>4 DEF Appended, NothingLost

\* The initial state.
LEMMA InitIInv == Init => IInv
<1> SUFFICES ASSUME Init PROVE IInv
  OBVIOUS
<1>1. input \in Seq(Bytes)
  BY InputAssumption DEF Init
<1>2. TypeOK
  BY <1>1 DEF Init, TypeOK
<1>3. SubSeq(input, 1, 0) = <<>>
  BY SubSeqEmpty
<1>4. Consumed = <<>>
  BY <1>3 DEF Init, Consumed
<1>5. NothingLost
  BY <1>4 DEF Init, NothingLost
<1> QED BY <1>2, <1>5 DEF Init, IInv, NoneLeftBehind, EndsTheLine, Fresh

\* A piece of the input arrives.
LEMMA ReadStep == ASSUME IInv, NEW n \in 1..bsize, new_input(n) PROVE IInv'
<1> USE DEF IInv
<1> DEFINE buf == SubSeq(input, pos + 1, pos + n)
<1>1. input \in Seq(Bytes) /\ n \in Nat \ {0} /\ pos \in Nat /\ pos + n <= Len(input)
  BY InputAssumption DEF TypeOK, new_input
<1>2. buf \in Seq(Bytes)
  <2>1. \A i \in pos + 1..pos + n : input[i] \in Bytes
    BY <1>1, ElementOfSeq
  <2> QED BY <1>1, <2>1, SubSeqProperties
<1>3. Appended(buf) /\ eof' = eof /\ eof = "no" /\ input' = input /\ pos' = pos + n
      /\ parsed' = parsed /\ started' = started
  BY DEF new_input, EndsTheLine
<1>4. /\ line' \in Seq(Bytes)
      /\ length' = Len(line')
      /\ parsed \o line' = Consumed \o buf
      /\ pc' = "split"
  BY <1>2, <1>3, AppendedAppends
<1>5. TypeOK'
  <2>1. length' \in Nat
    BY <1>4, LenProperties
  <2> QED BY <1>1, <1>3, <1>4, <2>1 DEF TypeOK
<1>6. NothingLost'
  <2>1. SubSeq(input, 1, pos) \in Seq(Bytes)
    BY <1>1, ElementOfSeq, SubSeqProperties
  <2>2. Consumed = SubSeq(input, 1, pos)
    BY <1>3, <2>1, ConcatEmptySeq DEF Consumed
  <2>3. SubSeq(input, 1, pos) \o buf = SubSeq(input, 1, pos + n)
    BY <1>1, ConcatAdjacentSubSeq
  <2>4. SubSeq(input, 1, pos + n) \in Seq(Bytes)
    BY <1>1, ElementOfSeq, SubSeqProperties
  <2>5. Consumed' = SubSeq(input, 1, pos + n)
    BY <1>3, <2>4, ConcatEmptySeq DEF Consumed
  <2> QED BY <1>3, <1>4, <2>2, <2>3, <2>5 DEF NothingLost
<1> QED BY <1>3, <1>4, <1>5, <1>6 DEF NoneLeftBehind, EndsTheLine, Fresh

\* read ends, and a newline takes its place.
LEMMA EndStep == ASSUME IInv, NEW why \in {"end", "error"}, endOfInput(why) PROVE IInv'
<1> USE DEF IInv
<1>1. <<"d">> \in Seq(Bytes) /\ Len(<<"d">>) = 1 /\ <<"d">>[1] = "d"
  BY DEF Bytes
<1>2. Appended(<<"d">>) /\ eof' = why /\ eof = "no" /\ input' = input /\ pos' = pos
      /\ parsed' = parsed /\ started' = started
  BY DEF endOfInput, EndsTheLine
<1>3. /\ line' = line \o <<"d">>
      /\ line' \in Seq(Bytes)
      /\ length' = Len(line')
      /\ parsed \o line' = Consumed \o <<"d">>
      /\ pc' = "split"
  BY <1>1, <1>2, AppendedAppends
<1>4. TypeOK'
  <2>1. length' \in Nat
    BY <1>3, LenProperties
  <2> QED BY <1>2, <1>3, <2>1 DEF TypeOK
<1>5. NothingLost'
  <2>1. input \in Seq(Bytes) /\ pos \in 0..Len(input)
    BY InputAssumption DEF TypeOK
  <2>2. SubSeq(input, 1, pos) \in Seq(Bytes)
    BY <2>1, ElementOfSeq, SubSeqProperties
  <2>3. Consumed = SubSeq(input, 1, pos)
    BY <1>2, <2>2, ConcatEmptySeq DEF Consumed
  <2>4. Consumed' = SubSeq(input, 1, pos) \o <<"d">>
    BY <1>2 DEF Consumed
  <2> QED BY <1>2, <1>3, <2>3, <2>4 DEF NothingLost
<1>6. line'[Len(line')] = "d"
  <2>1. Len(line') = Len(line) + 1 /\ line'[Len(line) + 1] = <<"d">>[Len(line) + 1 - Len(line)]
    BY <1>1, <1>3, ConcatProperties, LenProperties DEF TypeOK
  <2> QED BY <1>1, <2>1, LenProperties DEF TypeOK
<1> QED BY <1>2, <1>3, <1>4, <1>5, <1>6 DEF NoneLeftBehind, EndsTheLine, Fresh

\* A command is parsed.
LEMMA SplitStep == ASSUME IInv, NEW d \in 1..Len(line), split(d) PROVE IInv'
<1> USE DEF IInv
<1> DEFINE front == SubSeq(line, 1, d)
           rest == SubSeq(line, d + 1, Len(line))
<1>1. line \in Seq(Bytes) /\ parsed \in Seq(Bytes)
  BY DEF TypeOK
<1>2. /\ front \in Seq(Bytes) /\ rest \in Seq(Bytes)
      /\ Len(rest) = Len(line) - d
      /\ \A i \in 1..Len(line) - d : rest[i] = line[d + i]
      /\ front \o rest = line
  BY <1>1, FrontAndRest
<1>3. /\ line' = rest /\ parsed' = parsed \o front /\ length' = length - d
      /\ pc = "split" /\ UNCHANGED <<input, pos, eof, pc>>
  BY DEF split
<1>4. started' \in Seq(Seq(Bytes))
  <2>1. SubSeq(line, 1, d - 1) \in Seq(Bytes)
    BY <1>1, ElementOfSeq, SubSeqProperties
  <2> QED BY <2>1, AppendProperties DEF split, TypeOK
<1>5. parsed' \in Seq(Bytes)
  BY <1>1, <1>2, <1>3, ConcatProperties
<1>6. length' = Len(line') /\ length' \in Nat
  BY <1>1, <1>2, <1>3, LenProperties DEF NothingLost
<1>7. parsed' \o line' = parsed \o line
  <2> HIDE DEF front, rest
  <2>1. (parsed \o front) \o rest = parsed \o (front \o rest)
    <3>1. \A p, f, r \in Seq(Bytes) : (p \o f) \o r = p \o (f \o r)
      BY ConcatAssociative, SMTT(30)
    <3> QED BY <1>1, <1>2, <3>1
  <2> QED BY <1>2, <1>3, <2>1
<1>8. TypeOK' /\ NothingLost'
  <2>1. Consumed' = Consumed
    BY <1>3 DEF Consumed
  <2> QED BY <1>2, <1>3, <1>4, <1>5, <1>6, <1>7, <2>1 DEF TypeOK, NothingLost
<1>9. EndsTheLine'
  <2> SUFFICES ASSUME eof # "no", line' # <<>> PROVE line'[Len(line')] = "d"
    BY <1>3 DEF EndsTheLine
  <2>1. Len(rest) # 0
    BY <1>2, <1>3, EmptySeq
  <2>2. Len(rest) \in 1..Len(line) - d /\ d + Len(rest) = Len(line)
    <3> HIDE DEF front, rest
    <3>1. Len(line) \in Nat /\ d \in Nat /\ d <= Len(line)
      BY <1>1, LenProperties
    <3> QED BY <1>2, <2>1, <3>1
  <2>3. line # <<>>
    BY EmptySeq
  <2> QED BY <1>2, <1>3, <2>2, <2>3 DEF EndsTheLine
<1> QED BY <1>3, <1>8, <1>9 DEF NoneLeftBehind, Fresh

\* new_input returns.
LEMMA FinishStep == ASSUME IInv, finish PROVE IInv'
<1> USE DEF IInv
<1>1. UNCHANGED <<input, pos, line, length, eof, parsed, started>>
  BY DEF finish
<1>2. pc' = IF eof = "no" THEN "wait" ELSE "closed"
  BY DEF finish
<1>3. TypeOK' /\ NothingLost'
  BY <1>1, <1>2 DEF TypeOK, NothingLost, Consumed
<1>4. eof # "no" => line = <<>>
  <2> SUFFICES ASSUME eof # "no", line # <<>> PROVE FALSE
    OBVIOUS
  <2>1. Len(line) \in 1..Len(line)
    BY EmptySeq, LenProperties DEF TypeOK
  <2> QED BY <2>1 DEF EndsTheLine, finish
<1>5. NoneLeftBehind'
  BY <1>1, <1>2, <1>4 DEF NoneLeftBehind, finish
<1> QED BY <1>1, <1>2, <1>3, <1>4, <1>5 DEF EndsTheLine, Fresh

\* Every step keeps the inductive invariant.
LEMMA NextIInv == IInv /\ [Next]_vars => IInv'
<1> SUFFICES ASSUME IInv, [Next]_vars PROVE IInv'
  OBVIOUS
<1>1. CASE interactive
  <2>1. line = <<>> /\ line' = <<>> /\ eof' = eof /\ eof = "no" /\ pc' = "wait"
    BY <1>1 DEF interactive, IInv, Fresh, EndsTheLine
  <2>2. TypeOK' /\ NothingLost'
    BY <1>1 DEF interactive, IInv, TypeOK, NothingLost, Consumed
  <2> QED BY <2>1, <2>2 DEF IInv, NoneLeftBehind, EndsTheLine, Fresh
<1>2. CASE timedOut \/ UNCHANGED vars
  BY <1>2 DEF timedOut, vars, IInv, TypeOK, NothingLost, Consumed, NoneLeftBehind, EndsTheLine, Fresh
<1>3. CASE finish
  BY <1>3, FinishStep
<1>4. CASE \E why \in {"end", "error"} : endOfInput(why)
  BY <1>4, EndStep
<1>5. CASE \E n \in 1..bsize : new_input(n)
  BY <1>5, ReadStep
<1>6. CASE \E d \in 1..Len(line) : split(d)
  BY <1>6, SplitStep
<1> QED BY <1>1, <1>2, <1>3, <1>4, <1>5, <1>6 DEF Next

\* The buffer, the position and the flags of new_input keep their types.
THEOREM StartTypeCorrect == Spec => []TypeOK
<1>1. IInv => TypeOK
  BY DEF IInv
<1> QED BY InitIInv, NextIInv, <1>1, PTL DEF Spec

\* However read cuts the text into pieces, new_input parses it without losing,
\* doubling or moving a byte.
THEOREM NothingLostHolds == Spec => []NothingLost
<1>1. IInv => NothingLost
  BY DEF IInv
<1> QED BY InitIInv, NextIInv, <1>1, PTL DEF Spec

\* new_input never waits with a complete command in its buffer, and closes the
\* descriptor with an empty one.
THEOREM NoneLeftBehindHolds == Spec => []NoneLeftBehind
<1>1. IInv => NoneLeftBehind
  BY DEF IInv
<1> QED BY InitIInv, NextIInv, <1>1, PTL DEF Spec
-----------------------------------------------------------------------------
(* The commands of a text.                                                 *)

\* Of the numbers that satisfy a condition and have a bound, one is the greatest.
LEMMA GreatestIn ==
    ASSUME NEW N \in Nat, NEW T \in SUBSET (0..N), T # {}
    PROVE  \E m \in T : \A k \in T : k <= m
<1> DEFINE D == {N - k : k \in T}
           R == {ss \in Nat \X Nat : ss[1] < ss[2]}
<1>1. D \in SUBSET Nat /\ D # {}
  <2>1. \A k \in T : N - k \in Nat
    OBVIOUS
  <2> QED BY <2>1
<1>2. \E m \in D : \A k \in D : <<k, m>> \notin R
  <2>1. IsWellFoundedOn(R, Nat)
    BY NatLessThanWellFounded DEF OpToRel
  <2> HIDE DEF R, D
  <2> QED BY <1>1, <2>1, WFMin
<1>3. PICK m \in D : \A k \in D : <<k, m>> \notin R
  BY <1>2
<1>4. \A k \in D : ~(k < m)
  <2> TAKE k \in D
  <2>1. m \in Nat /\ k \in Nat
    BY <1>1
  <2>2. <<k, m>>[1] = k /\ <<k, m>>[2] = m
    OBVIOUS
  <2> QED BY <1>3, <2>1, <2>2
<1>5. PICK x \in T : m = N - x
  OBVIOUS
<1>6. ASSUME NEW k \in T PROVE k <= x
  <2>1. N - k \in D
    OBVIOUS
  <2>2. ~(N - k < N - x)
    BY <1>4, <1>5, <2>1
  <2>3. k \in Int /\ x \in Int
    OBVIOUS
  <2> QED BY <2>2, <2>3
<1> QED BY <1>6

\* The delimiter before e, or 0, is where the command that ends at e begins.
Begins(text, e, s) ==
    /\ s # 0 => text[s] = "d"
    /\ \A r \in s + 1..e - 1 : text[r] # "d"

\* Every command has one beginning.
LEMMA BeginsOnce ==
    ASSUME NEW text \in Seq(Bytes), NEW e \in 1..Len(text)
    PROVE  /\ \E s \in 0..e - 1 : Begins(text, e, s)
           /\ \A s, u \in 0..e - 1 : Begins(text, e, s) /\ Begins(text, e, u) => s = u
<1> DEFINE T == {s \in 0..e - 1 : s # 0 => text[s] = "d"}
<1>1. e \in Nat /\ e >= 1 /\ e - 1 \in Nat
  BY LenProperties
<1>2. 0 \in T /\ T \in SUBSET (0..e - 1)
  BY <1>1
<1>3. PICK s \in T : \A k \in T : k <= s
  <2> HIDE DEF T
  <2>1. T # {}
    BY <1>2
  <2> QED BY <1>1, <1>2, <2>1, GreatestIn
<1>4. ASSUME NEW r \in s + 1..e - 1 PROVE text[r] # "d"
  <2>1. s \in Int /\ 0 <= s
    BY <1>1
  <2>2. r \in 0..e - 1 /\ r # 0 /\ ~(r <= s)
    BY <1>1, <2>1
  <2>3. r \notin T
    BY <1>3, <2>2
  <2> QED BY <2>2, <2>3
<1>5. Begins(text, e, s) /\ s \in 0..e - 1
  BY <1>4 DEF Begins
<1>6. ASSUME NEW a \in 0..e - 1, NEW b \in 0..e - 1, Begins(text, e, a), Begins(text, e, b), a < b
      PROVE  FALSE
  <2>1. b \in a + 1..e - 1 /\ b # 0
    BY <1>1, <1>6
  <2> QED BY <1>6, <2>1 DEF Begins
<1>7. ASSUME NEW a \in 0..e - 1, NEW b \in 0..e - 1, Begins(text, e, a), Begins(text, e, b)
      PROVE  a = b
  <2>1. a \in Int /\ b \in Int
    BY <1>1
  <2>2. ~(a < b) /\ ~(b < a)
    BY <1>6, <1>7
  <2> QED BY <2>1, <2>2
<1> QED BY <1>5, <1>7

\* CommandAt, by the place where the command begins.
LEMMA CommandFrom ==
    ASSUME NEW text \in Seq(Bytes), NEW e \in 1..Len(text), NEW s \in 0..e - 1,
           Begins(text, e, s)
    PROVE  CommandAt(text, e) = SubSeq(text, s + 1, e - 1)
<1> DEFINE b == CHOOSE u \in 0..e - 1 : Begins(text, e, u)
<1>1. b \in 0..e - 1 /\ Begins(text, e, b)
  OBVIOUS
<1>2. b = s
  BY <1>1, BeginsOnce
<1>3. CommandAt(text, e) = SubSeq(text, 1 + b, e - 1)
  BY DEF CommandAt, Begins
<1>4. 1 + s = s + 1
  OBVIOUS
<1> QED BY <1>2, <1>3, <1>4

\* A command is a sequence of bytes.
LEMMA CommandType ==
    ASSUME NEW text \in Seq(Bytes), NEW e \in 1..Len(text)
    PROVE  CommandAt(text, e) \in Seq(Bytes)
<1>1. PICK s \in 0..e - 1 : Begins(text, e, s)
  BY BeginsOnce
<1>2. \A i \in s + 1..e - 1 : text[i] \in Bytes
  <2>1. e \in Nat /\ e <= Len(text) /\ s \in Nat
    BY LenProperties
  <2>2. \A i \in s + 1..e - 1 : i \in 1..Len(text)
    BY <2>1, LenProperties
  <2> QED BY <2>2, ElementOfSeq
<1>3. s + 1 \in Int /\ e - 1 \in Int
  BY LenProperties
<1>4. SubSeq(text, s + 1, e - 1) \in Seq(Bytes)
  BY <1>2, <1>3, SubSeqProperties
<1> QED BY <1>1, <1>4, CommandFrom

\* text goes on as longer does.
Extends(longer, text) ==
    /\ Len(text) <= Len(longer)
    /\ \A i \in 1..Len(text) : longer[i] = text[i]

\* What follows a text does not change the commands in it.
LEMMA CommandsStay ==
    ASSUME NEW text \in Seq(Bytes), NEW longer \in Seq(Bytes), Extends(longer, text),
           NEW e \in 1..Len(text)
    PROVE  e \in 1..Len(longer) /\ CommandAt(longer, e) = CommandAt(text, e)
<1>1. Len(text) \in Nat /\ Len(longer) \in Nat /\ e \in Nat /\ e <= Len(text)
  BY LenProperties
<1>2. e \in 1..Len(longer)
  BY <1>1 DEF Extends
<1>3. PICK s \in 0..e - 1 : Begins(text, e, s)
  BY BeginsOnce
<1>4. s \in Nat /\ s <= e - 1
  BY <1>1
<1>5. \A i \in s + 1..e - 1 : i \in 1..Len(text)
  BY <1>1, <1>4
<1>6. s # 0 => s \in 1..Len(text)
  BY <1>1, <1>4
<1>7. Begins(longer, e, s)
  BY <1>3, <1>5, <1>6 DEF Begins, Extends
<1>8. CommandAt(text, e) = SubSeq(text, s + 1, e - 1)
  BY <1>3, CommandFrom
<1>9. CommandAt(longer, e) = SubSeq(longer, s + 1, e - 1)
  BY <1>2, <1>7, CommandFrom
<1>10. SubSeq(longer, s + 1, e - 1) = SubSeq(text, s + 1, e - 1)
  <2>1. s + 1 \in Int /\ e - 1 \in Int
    BY <1>1, <1>4
  <2>2. \A i \in s + 1..e - 1 : text[i] \in Bytes /\ longer[i] \in Bytes /\ longer[i] = text[i]
    BY <1>5, ElementOfSeq DEF Extends
  <2> DEFINE p == SubSeq(longer, s + 1, e - 1)
             q == SubSeq(text, s + 1, e - 1)
             n == IF s + 1 <= e - 1 THEN (e - 1) - (s + 1) + 1 ELSE 0
  <2>3. /\ p \in Seq(Bytes) /\ Len(p) = n
        /\ \A i \in 1..(e - 1) - (s + 1) + 1 : p[i] = longer[s + 1 + i - 1]
    BY <2>1, <2>2, SubSeqProperties
  <2>4. /\ q \in Seq(Bytes) /\ Len(q) = n
        /\ \A i \in 1..(e - 1) - (s + 1) + 1 : q[i] = text[s + 1 + i - 1]
    BY <2>1, <2>2, SubSeqProperties
  <2> HIDE DEF p, q
  <2>5. ASSUME NEW i \in 1..Len(p) PROVE p[i] = q[i]
    <3>1. i \in 1..(e - 1) - (s + 1) + 1 /\ s + 1 + i - 1 \in s + 1..e - 1
      BY <1>1, <1>4, <2>3
    <3> QED BY <2>2, <2>3, <2>4, <3>1
  <2>6. p = q
    BY <2>3, <2>4, <2>5, SeqEqual
  <2> QED BY <2>6 DEF p, q
<1> QED BY <1>2, <1>8, <1>9, <1>10

\* Below a bound, the k-th number of a set exists and is one.
LEMMA NthIs ==
    ASSUME NEW N \in Nat, NEW S \in SUBSET (1..N)
    PROVE  /\ IsFiniteSet(S) /\ Cardinality(S) \in Nat
           /\ \A e, f \in S : Cardinality({r \in S : r <= e}) = Cardinality({r \in S : r <= f}) => e = f
           /\ \A k \in 1..Cardinality(S) :
                Nth(S, k) \in S /\ Cardinality({r \in S : r <= Nth(S, k)}) = k
<1> DEFINE Below(e) == {r \in S : r <= e}
           rank == [e \in S |-> Cardinality(Below(e))]
<1>1. IsFiniteSet(S) /\ Cardinality(S) \in Nat
  <2>1. IsFiniteSet(1..N)
    BY FS_Interval
  <2>2. IsFiniteSet(S)
    BY <2>1, FS_Subset
  <2> QED BY <2>2, FS_CardinalityType
<1>2. ASSUME NEW e \in S PROVE rank[e] \in 1..Cardinality(S) /\ IsFiniteSet(Below(e))
  <2>1. Below(e) \in SUBSET S /\ e \in Below(e)
    OBVIOUS
  <2> HIDE DEF Below
  <2>2. IsFiniteSet(Below(e)) /\ Cardinality(Below(e)) <= Cardinality(S)
    BY <1>1, <2>1, FS_Subset
  <2>3. Cardinality(Below(e)) \in Nat /\ Cardinality(Below(e)) # 0
    BY <2>1, <2>2, FS_CardinalityType, FS_EmptySet
  <2> QED BY <1>1, <2>2, <2>3
<1>3. ASSUME NEW e \in S, NEW f \in S, e < f PROVE rank[e] # rank[f]
  <2>1. Below(e) \in SUBSET Below(f) /\ f \in Below(f) /\ f \notin Below(e)
    <3>1. e \in Int /\ f \in Int /\ ~(f <= e) /\ f <= f
      BY <1>3
    <3>2. \A r \in S : r <= e => r <= f
      BY <1>3, <3>1
    <3> QED BY <3>1, <3>2, Zenon
  <2>2. IsFiniteSet(Below(f))
    BY <1>2
  <2> HIDE DEF Below
  <2>3. Cardinality(Below(f)) = Cardinality(Below(e)) => Below(f) = Below(e)
    BY <2>1, <2>2, FS_Subset
  <2> QED BY <2>1, <2>3
<1>4. ASSUME NEW e \in S, NEW f \in S, rank[e] = rank[f] PROVE e = f
  <2>1. e \in Int /\ f \in Int
    OBVIOUS
  <2>2. ~(e < f) /\ ~(f < e)
    BY <1>3, <1>4
  <2> QED BY <2>1, <2>2
<1>5. rank \in Surjection(S, 1..Cardinality(S))
  <2> DEFINE K == 1..Cardinality(S)
  <2>1. rank \in Injection(S, K)
    <3>1. rank \in [S -> K]
      BY <1>2
    <3>2. \A e, f \in S : rank[e] = rank[f] => e = f
      BY <1>4
    <3> HIDE DEF rank, K
    <3> QED BY <3>1, <3>2 DEF Injection, IsInjective
  <2>2. IsFiniteSet(K) /\ Cardinality(K) = Cardinality(S)
    BY <1>1, FS_Interval
  <2> HIDE DEF rank, K
  <2>3. rank \in Surjection(S, K)
    BY <2>1, <2>2, FS_Injection
  <2> QED BY <2>3 DEF K
<1>6. ASSUME NEW k \in 1..Cardinality(S)
      PROVE  Nth(S, k) \in S /\ Cardinality({r \in S : r <= Nth(S, k)}) = k
  <2>1. \E e \in S : rank[e] = k
    <3> HIDE DEF rank
    <3> QED BY <1>5 DEF Surjection
  <2>2. PICK e \in S : Cardinality({r \in S : r <= e}) = k
    BY <2>1
  <2> QED BY <2>2 DEF Nth
<1>7. \A e, f \in S : Cardinality({r \in S : r <= e}) = Cardinality({r \in S : r <= f}) => e = f
  BY <1>4
<1> QED BY <1>1, <1>6, <1>7

\* The k-th number of a set does not change when a greater one is added, which
\* becomes the last.
LEMMA NthAdded ==
    ASSUME NEW N \in Nat, NEW S \in SUBSET (1..N), NEW M \in Nat, M > N
    PROVE  /\ Cardinality(S \cup {M}) = Cardinality(S) + 1
           /\ \A k \in 1..Cardinality(S) : Nth(S \cup {M}, k) = Nth(S, k)
           /\ Nth(S \cup {M}, Cardinality(S) + 1) = M
<1> DEFINE Z == S \cup {M}
<1>1. \A r \in S : r \in Nat /\ r < M
  OBVIOUS
<1>2. Z \in SUBSET (1..M)
  BY <1>1
<1>3. IsFiniteSet(S) /\ Cardinality(S) \in Nat
  BY NthIs
<1>4. Cardinality(Z) = Cardinality(S) + 1
  BY <1>1, <1>3, FS_AddElement
<1>5. ASSUME NEW k \in 1..Cardinality(S) PROVE Nth(Z, k) = Nth(S, k)
  <2>1. Nth(S, k) \in S /\ Cardinality({r \in S : r <= Nth(S, k)}) = k
    BY NthIs
  <2>2. {r \in Z : r <= Nth(S, k)} = {r \in S : r <= Nth(S, k)}
    <3>0. Nth(S, k) \in S
      BY <2>1
    <3>1. ~(M <= Nth(S, k))
      <4>1. \A r \in S : ~(M <= r)
        BY <1>1
      <4> QED BY <3>0, <4>1, Zenon
    <3>2. ASSUME NEW r \in Z, r <= Nth(S, k) PROVE r \in S
      <4>1. r # M
        BY <3>1, <3>2
      <4> QED BY <4>1
    <3>3. S \subseteq Z
      OBVIOUS
    <3> HIDE DEF Z
    <3> QED BY <3>2, <3>3
  <2>3. k \in 1..Cardinality(Z)
    BY <1>3, <1>4
  <2>4. Nth(Z, k) \in Z /\ Cardinality({r \in Z : r <= Nth(Z, k)}) = k
    <3> HIDE DEF Z
    <3> QED BY <1>2, <2>3, NthIs
  <2>5. Nth(S, k) \in Z /\ Cardinality({r \in Z : r <= Nth(S, k)}) = k
    BY <2>1, <2>2
  <2>6. \A e, f \in Z : Cardinality({r \in Z : r <= e}) = Cardinality({r \in Z : r <= f}) => e = f
    <3> HIDE DEF Z
    <3> QED BY <1>2, NthIs
  <2> HIDE DEF Z
  <2> QED BY <2>4, <2>5, <2>6
<1>6. Nth(Z, Cardinality(S) + 1) = M
  <2>1. {r \in Z : r <= M} = Z
    <3>1. \A r \in Z : r <= M
      BY <1>1
    <3> QED BY <3>1, Zenon
  <2>2. Cardinality({r \in Z : r <= M}) = Cardinality(S) + 1 /\ M \in Z
    BY <1>4, <2>1
  <2>3. Cardinality(S) + 1 \in 1..Cardinality(Z)
    BY <1>3, <1>4
  <2> HIDE DEF Z
  <2>4. /\ Nth(Z, Cardinality(S) + 1) \in Z
        /\ Cardinality({r \in Z : r <= Nth(Z, Cardinality(S) + 1)}) = Cardinality(S) + 1
    BY <1>2, <2>3, NthIs
  <2>5. \A e, f \in Z : Cardinality({r \in Z : r <= e}) = Cardinality({r \in Z : r <= f}) => e = f
    BY <1>2, NthIs
  <2> QED BY <2>2, <2>4, <2>5
<1> QED BY <1>4, <1>5, <1>6

\* The commands of a text are sequences of bytes, one for every end.
LEMMA CommandsType ==
    ASSUME NEW text \in Seq(Bytes)
    PROVE  /\ CommandEnds(text) \in SUBSET (1..Len(text)) /\ Len(text) \in Nat
           /\ Cardinality(CommandEnds(text)) \in Nat
           /\ Commands(text) \in Seq(Seq(Bytes))
           /\ Len(Commands(text)) = Cardinality(CommandEnds(text))
<1> DEFINE E == CommandEnds(text)
           n == Cardinality(E)
<1>1. E \in SUBSET (1..Len(text)) /\ Len(text) \in Nat
  BY LenProperties DEF CommandEnds
<1> HIDE DEF E
<1>2. n \in Nat /\ \A k \in 1..n : Nth(E, k) \in E
  BY <1>1, NthIs
<1>3. \A k \in 1..n : CommandAt(text, Nth(E, k)) \in Seq(Bytes)
  BY <1>1, <1>2, CommandType
<1>4. Commands(text) = [k \in 1..n |-> CommandAt(text, Nth(E, k))]
  BY DEF Commands, E
<1>5. Commands(text) \in [1..n -> Seq(Bytes)]
  BY <1>3, <1>4
<1> HIDE DEF n
<1>6. Commands(text) \in Seq(Seq(Bytes))
  BY <1>2, <1>5, IsASeq
<1>7. Len(Commands(text)) = n
  BY <1>2, <1>5
<1> QED BY <1>1, <1>2, <1>6, <1>7 DEF E, n

\* The ends of commands in a text are those of any text that goes on after it.
LEMMA EndsStay ==
    ASSUME NEW text \in Seq(Bytes), NEW longer \in Seq(Bytes), Extends(longer, text)
    PROVE  CommandEnds(text) = {e \in CommandEnds(longer) : e <= Len(text)}
<1>1. Len(text) \in Nat /\ Len(longer) \in Nat /\ Len(text) <= Len(longer)
  BY LenProperties DEF Extends
<1>2. \A e \in 1..Len(longer) : e <= Len(text) <=> e \in 1..Len(text)
  BY <1>1
<1>3. ASSUME NEW e \in 1..Len(text)
      PROVE  /\ e \in 1..Len(longer) /\ longer[e] = text[e]
             /\ CommandAt(longer, e) = CommandAt(text, e)
  BY CommandsStay DEF Extends
<1> QED BY <1>2, <1>3 DEF CommandEnds

\* The beginning of a command starts nothing.
LEMMA PieceStartsNothing ==
    ASSUME NEW text \in Seq(Bytes), NEW longer \in Seq(Bytes), Extends(longer, text),
           \A i \in Len(text) + 1..Len(longer) : longer[i] # "d"
    PROVE  Commands(longer) = Commands(text)
<1>1. Len(text) \in Nat /\ Len(longer) \in Nat
  BY LenProperties
<1>2. CommandEnds(longer) \in SUBSET (1..Len(longer))
  BY DEF CommandEnds
<1>3. \A e \in CommandEnds(longer) : longer[e] = "d"
  BY DEF CommandEnds
<1>4. ASSUME NEW e \in CommandEnds(longer) PROVE e <= Len(text)
  <2>1. e \in Int /\ e <= Len(longer) /\ e \notin Len(text) + 1..Len(longer)
    BY <1>2, <1>3
  <2> QED BY <1>1, <2>1
<1>5. CommandEnds(longer) = CommandEnds(text)
  BY <1>4, EndsStay
<1>6. CommandEnds(text) \in SUBSET (1..Len(text))
  BY DEF CommandEnds
<1>7. \A k \in 1..Cardinality(CommandEnds(text)) : Nth(CommandEnds(text), k) \in 1..Len(text)
  BY <1>1, <1>6, NthIs
<1>8. \A k \in 1..Cardinality(CommandEnds(text)) :
         CommandAt(longer, Nth(CommandEnds(text), k)) = CommandAt(text, Nth(CommandEnds(text), k))
  BY <1>7, CommandsStay
<1> QED BY <1>5, <1>8 DEF Commands

\* A complete command behind a text of complete commands is one command more.
LEMMA CommandAdded ==
    ASSUME NEW text \in Seq(Bytes), text # <<>> => text[Len(text)] = "d",
           NEW front \in Seq(Bytes), front # <<>>,
           front[Len(front)] = "d",
           \A i \in 1..Len(front) - 1 : front[i] # "d"
    PROVE  LET cmd == SubSeq(front, 1, Len(front) - 1)
           IN  Commands(text \o front) = IF NamesModule(cmd) THEN Append(Commands(text), cmd)
                                         ELSE Commands(text)
<1> DEFINE longer == text \o front
           cmd == SubSeq(front, 1, Len(front) - 1)
           N == Len(text)
           M == Len(longer)
<1>1. /\ longer \in Seq(Bytes) /\ M = N + Len(front)
      /\ \A i \in 1..N : longer[i] = text[i]
      /\ \A i \in N + 1..N + Len(front) : longer[i] = front[i - N]
  <2>1. /\ longer \in Seq(Bytes) /\ M = N + Len(front)
        /\ \A i \in 1..M : longer[i] = IF i <= N THEN text[i] ELSE front[i - N]
    BY ConcatProperties
  <2>2. N \in Nat /\ Len(front) \in Nat
    BY LenProperties
  <2>3. \A i \in 1..N : i \in 1..N + Len(front) /\ i <= N
    BY <2>2
  <2>4. \A i \in N + 1..N + Len(front) : i \in 1..N + Len(front) /\ ~(i <= N)
    BY <2>2
  <2> QED BY <2>1, <2>3, <2>4
<1>2. N \in Nat /\ Len(front) \in Nat /\ Len(front) >= 1 /\ M \in Nat /\ M > N /\ M \in 1..M
  <2>1. N \in Nat /\ Len(front) \in Nat /\ Len(front) # 0
    BY LenProperties, EmptySeq
  <2> QED BY <1>1, <2>1
<1>3. Extends(longer, text)
  BY <1>1, <1>2 DEF Extends
<1>4. longer[M] = "d" /\ \A i \in N + 1..M - 1 : longer[i] # "d"
  <2>1. M \in N + 1..N + Len(front) /\ M - N = Len(front)
    BY <1>1, <1>2
  <2>2. \A i \in N + 1..M - 1 : i \in N + 1..N + Len(front) /\ i - N \in 1..Len(front) - 1
    BY <1>1, <1>2
  <2> QED BY <1>1, <2>1, <2>2
<1>5. CommandAt(longer, M) = cmd
  <2>1. Begins(longer, M, N)
    <3>1. N # 0 => longer[N] = "d"
      <4>1. N # 0 => N \in 1..N /\ text # <<>>
        BY <1>2, EmptySeq
      <4> QED BY <1>1, <4>1
    <3> QED BY <1>4, <3>1 DEF Begins
  <2>2. N \in 0..M - 1
    BY <1>2
  <2>3. CommandAt(longer, M) = SubSeq(longer, N + 1, M - 1)
    <3> HIDE DEF longer, N, M
    <3>1. M \in 1..Len(longer)
      BY <1>2 DEF M
    <3> QED BY <1>1, <2>1, <2>2, <3>1, CommandFrom
  <2>4. SubSeq(longer, N + 1, M - 1) = cmd
    <3>1. /\ SubSeq(longer, N + 1, M - 1) \in Seq(Bytes)
          /\ Len(SubSeq(longer, N + 1, M - 1)) = IF N + 1 <= M - 1 THEN M - 1 - (N + 1) + 1 ELSE 0
          /\ \A i \in 1..M - 1 - (N + 1) + 1 : SubSeq(longer, N + 1, M - 1)[i] = longer[N + 1 + i - 1]
      <4>1. \A i \in N + 1..M - 1 : longer[i] \in Bytes
        <5>1. \A i \in N + 1..M - 1 : i \in 1..M
          BY <1>2
        <5> QED BY <1>1, <5>1, ElementOfSeq
      <4>2. N + 1 \in Int /\ M - 1 \in Int
        BY <1>2
      <4> HIDE DEF longer, N, M
      <4> QED BY <4>1, <4>2, SubSeqProperties
    <3>2. /\ cmd \in Seq(Bytes)
          /\ Len(cmd) = IF 1 <= Len(front) - 1 THEN Len(front) - 1 - 1 + 1 ELSE 0
          /\ \A i \in 1..Len(front) - 1 - 1 + 1 : cmd[i] = front[1 + i - 1]
      <4>1. \A i \in 1..Len(front) - 1 : front[i] \in Bytes
        <5>1. \A i \in 1..Len(front) - 1 : i \in 1..Len(front)
          BY <1>2
        <5> QED BY <5>1, ElementOfSeq
      <4>2. 1 \in Int /\ Len(front) - 1 \in Int
        BY <1>2
      <4> QED BY <4>1, <4>2, SubSeqProperties
    <3> DEFINE q == SubSeq(longer, N + 1, M - 1)
    <3> HIDE DEF q, cmd, longer, N, M
    <3>3. Len(q) = Len(cmd) /\ Len(cmd) = Len(front) - 1
      <4>1. N \in Nat /\ Len(front) \in Nat /\ Len(front) >= 1 /\ M = N + Len(front)
        BY <1>1, <1>2
      <4>2. Len(q) = IF N + 1 <= N + Len(front) - 1 THEN N + Len(front) - 1 - (N + 1) + 1 ELSE 0
        BY <3>1, <4>1 DEF q
      <4>6. ASSUME NEW a \in Nat, NEW b \in Nat, a >= 1
            PROVE  /\ (IF b + 1 <= b + a - 1 THEN b + a - 1 - (b + 1) + 1 ELSE 0) = a - 1
                   /\ (IF 1 <= a - 1 THEN a - 1 - 1 + 1 ELSE 0) = a - 1
        <5>1. CASE a = 1
          BY <5>1
        <5>2. CASE a > 1
          BY <5>2
        <5> QED BY <4>6, <5>1, <5>2
      <4>3. Len(q) = Len(front) - 1
        BY <4>1, <4>2, <4>6, Zenon
      <4>4. Len(cmd) = IF 1 <= Len(front) - 1 THEN Len(front) - 1 - 1 + 1 ELSE 0
        BY <3>2
      <4>5. Len(cmd) = Len(front) - 1
        BY <4>1, <4>4, <4>6, Zenon
      <4> QED BY <4>3, <4>5
    <3>4. ASSUME NEW i \in 1..Len(q) PROVE q[i] = cmd[i]
      <4>1. i \in 1..M - 1 - (N + 1) + 1 /\ i \in 1..Len(front) - 1 - 1 + 1
        BY <1>1, <1>2, <3>3
      <4>2. PICK j \in N + 1..N + Len(front) : j = N + 1 + i - 1 /\ j - N = 1 + i - 1
        BY <1>2, <4>1
      <4>3. q[i] = longer[j]
        BY <3>1, <4>1, <4>2 DEF q
      <4>4. longer[j] = front[j - N]
        BY <1>1
      <4>5. cmd[i] = front[j - N]
        BY <3>2, <4>1, <4>2
      <4> QED BY <4>3, <4>4, <4>5
    <3>5. q = cmd
      BY <3>1, <3>2, <3>3, <3>4, SeqEqual DEF q
    <3> QED BY <3>5 DEF q
  <2> QED BY <2>3, <2>4
<1> DEFINE E == CommandEnds(text)
           Z == CommandEnds(longer)
<1> HIDE DEF longer, cmd, N, M
<1>6. E = {e \in Z : e <= N} /\ Z \in SUBSET (1..M) /\ \A e \in Z : longer[e] = "d"
  <2>1. E = {e \in Z : e <= N}
    BY <1>1, <1>3, EndsStay DEF N
  <2> QED BY <2>1 DEF CommandEnds, M
<1>7. \A e \in Z : e <= N \/ e = M
  <2> SUFFICES ASSUME NEW e \in Z, ~(e <= N) PROVE e = M
    OBVIOUS
  <2>1. e \in Nat /\ e <= M /\ e \notin N + 1..M - 1
    BY <1>4, <1>6
  <2> QED BY <1>2, <2>1
<1>8. M \in Z <=> NamesModule(cmd)
  BY <1>2, <1>4, <1>5 DEF CommandEnds, M
<1>9. /\ E \in SUBSET (1..N) /\ Cardinality(E) \in Nat
      /\ Commands(text) \in Seq(Seq(Bytes)) /\ Len(Commands(text)) = Cardinality(E)
  BY CommandsType DEF N
<1>10. ASSUME NEW k \in 1..Cardinality(E)
       PROVE  /\ CommandAt(longer, Nth(E, k)) = Commands(text)[k]
  <2>1. Nth(E, k) \in 1..N
    <3> HIDE DEF E
    <3> QED BY <1>2, <1>9, NthIs
  <2>2. CommandAt(longer, Nth(E, k)) = CommandAt(text, Nth(E, k))
    <3> HIDE DEF E
    <3> QED BY <1>1, <1>3, <2>1, CommandsStay DEF N
  <2> QED BY <2>2 DEF Commands
<1>11. CASE ~NamesModule(cmd)
  <2>1. \A e \in Z : e <= N
    BY <1>7, <1>8, <1>11
  <2>2. Z = E
    <3> HIDE DEF E, Z
    <3> QED BY <1>6, <2>1
  <2>3. Commands(longer) = [k \in 1..Cardinality(E) |-> CommandAt(longer, Nth(E, k))]
    BY <2>2 DEF Commands
  <2>4. Commands(longer) = [k \in 1..Cardinality(E) |-> Commands(text)[k]]
    BY <1>10, <2>3
  <2>5. Commands(text) = [k \in 1..Cardinality(E) |-> Commands(text)[k]]
    <3> HIDE DEF E
    <3> QED BY <1>9
  <2>6. Commands(longer) = Commands(text)
    BY <2>4, <2>5
  <2> QED BY <1>11, <2>6 DEF longer, cmd
<1>12. CASE NamesModule(cmd)
  <2>1. Z = E \cup {M}
    <3>1. M \in Z
      BY <1>8, <1>12
    <3> HIDE DEF E, Z
    <3> QED BY <1>6, <1>7, <3>1
  <2> DEFINE n == Cardinality(E)
  <2>2. /\ Cardinality(Z) = n + 1
        /\ \A k \in 1..n : Nth(Z, k) = Nth(E, k)
        /\ Nth(Z, n + 1) = M
    <3> HIDE DEF E, Z, N, M
    <3>1. N \in Nat /\ M \in Nat /\ M > N /\ E \in SUBSET (1..N)
      BY <1>2, <1>9
    <3>2. /\ Cardinality(E \cup {M}) = Cardinality(E) + 1
          /\ \A k \in 1..Cardinality(E) : Nth(E \cup {M}, k) = Nth(E, k)
          /\ Nth(E \cup {M}, Cardinality(E) + 1) = M
      BY <3>1, NthAdded
    <3> QED BY <2>1, <3>2
  <2> DEFINE p == Commands(longer)
             q == Append(Commands(text), cmd)
  <2>3. /\ p \in Seq(Seq(Bytes)) /\ Len(p) = n + 1
        /\ \A k \in 1..n + 1 : p[k] = CommandAt(longer, Nth(Z, k))
    <3>1. p \in Seq(Seq(Bytes)) /\ Len(p) = Cardinality(Z)
      BY <1>1, CommandsType
    <3>2. \A k \in 1..Cardinality(Z) : p[k] = CommandAt(longer, Nth(Z, k))
      BY DEF Commands
    <3> HIDE DEF p, Z, n
    <3> QED BY <2>2, <3>1, <3>2
  <2>4. /\ cmd \in Seq(Bytes)
        /\ q \in Seq(Seq(Bytes)) /\ Len(q) = n + 1
        /\ \A k \in 1..n : q[k] = Commands(text)[k]
        /\ q[n + 1] = cmd
    <3>1. cmd \in Seq(Bytes)
      BY <1>1, <1>2, <1>5, CommandType DEF M
    <3> HIDE DEF E
    <3> QED BY <1>9, <3>1, AppendProperties
  <2>5. ASSUME NEW k \in 1..n + 1 PROVE p[k] = q[k]
    <3>1. CASE k = n + 1
      BY <1>5, <2>2, <2>3, <2>4, <3>1
    <3>2. CASE k # n + 1
      <4>1. k \in 1..n
        BY <1>9, <3>2
      <4> QED BY <1>10, <2>2, <2>3, <2>4, <4>1
    <3> QED BY <3>1, <3>2
  <2>6. p = q
    <3> HIDE DEF p, q, n
    <3> QED BY <2>3, <2>4, <2>5, SeqEqual
  <2> QED BY <1>12, <2>6 DEF longer, cmd
<1> QED BY <1>11, <1>12 DEF cmd, longer

-----------------------------------------------------------------------------
(* The modules that are started.                                           *)

\* What was parsed are complete commands, and the modules they name have been started.
StartInv ==
    /\ parsed # <<>> => parsed[Len(parsed)] = "d"
    /\ started = Commands(parsed)

\* parse_cmd starts exactly the commands that name a module.
LEMMA StartsNames ==
    ASSUME NEW cmd \in Seq(Bytes), \A i \in 1..Len(cmd) : cmd[i] # "d"
    PROVE  Starts(cmd) <=> NamesModule(cmd)
<1>1. \A i \in 1..Len(cmd) : cmd[i] \in {"#", " ", "c"}
  <2>1. \A i \in 1..Len(cmd) : cmd[i] \in Bytes
    BY ElementOfSeq
  <2> QED BY <2>1 DEF Bytes
<1>2. (\E i \in 1..Len(cmd) : cmd[i] # " ") <=> {"c", "#"} \cap {cmd[i] : i \in 1..Len(cmd)} # {}
  BY <1>1
<1>3. (\E i \in 1..Len(cmd) : cmd[i] # " ") => cmd # <<>>
  <2>1. Len(<<>>) = 0 /\ 1..0 = {}
    BY EmptySeq
  <2> QED BY <2>1
<1> QED BY <1>2, <1>3 DEF Starts, NamesModule

\* Nothing is parsed and nothing started at first.
LEMMA InitStart == Init => StartInv
<1> SUFFICES ASSUME Init PROVE StartInv
  OBVIOUS
<1>1. <<>> \in Seq(Bytes) /\ Len(<<>>) = 0
  BY EmptySeq
<1>2. Commands(<<>>) \in Seq(Seq(Bytes)) /\ Len(Commands(<<>>)) = Cardinality(CommandEnds(<<>>))
  BY <1>1, CommandsType
<1>3. CommandEnds(<<>>) = {}
  BY <1>1 DEF CommandEnds
<1>4. Commands(<<>>) = <<>>
  BY <1>2, <1>3, FS_EmptySet, EmptySeq
<1> QED BY <1>4 DEF Init, StartInv

\* A round of the loop starts the command it has cut off, or nothing.
LEMMA SplitStarts ==
    ASSUME IInv, StartInv, NEW d \in 1..Len(line), split(d)
    PROVE  StartInv'
<1> DEFINE front == SubSeq(line, 1, d)
           cmd == SubSeq(line, 1, d - 1)
<1>1. /\ line \in Seq(Bytes) /\ parsed \in Seq(Bytes)
      /\ Len(line) \in Nat /\ d \in Nat /\ 1 <= d /\ d <= Len(line)
  BY LenProperties DEF IInv, TypeOK
<1>2. /\ parsed' = parsed \o front
      /\ started' = IF Starts(cmd) THEN Append(started, cmd) ELSE started
      /\ line[d] = "d" /\ \A i \in 1..d - 1 : line[i] # "d"
  BY DEF split, IsFirstDelim
<1>3. /\ front \in Seq(Bytes) /\ Len(front) = d
      /\ \A i \in 1..d : front[i] = line[i]
  <2>1. \A i \in 1..d : line[i] \in Bytes
    <3>1. \A i \in 1..d : i \in 1..Len(line)
      BY <1>1
    <3> QED BY <1>1, <3>1, ElementOfSeq
  <2>2. /\ front \in Seq(Bytes) /\ Len(front) = IF 1 <= d THEN d - 1 + 1 ELSE 0
        /\ \A i \in 1..d - 1 + 1 : front[i] = line[1 + i - 1]
    BY <1>1, <2>1, SubSeqProperties
  <2>3. d - 1 + 1 = d /\ \A i \in 1..d : 1 + i - 1 = i
    BY <1>1
  <2> HIDE DEF front
  <2> QED BY <1>1, <2>2, <2>3
<1>4. /\ cmd \in Seq(Bytes) /\ Len(cmd) = d - 1
      /\ \A i \in 1..d - 1 : cmd[i] = line[i]
  <2>1. \A i \in 1..d - 1 : line[i] \in Bytes
    <3>1. \A i \in 1..d - 1 : i \in 1..Len(line)
      BY <1>1
    <3> QED BY <1>1, <3>1, ElementOfSeq
  <2>2. /\ cmd \in Seq(Bytes) /\ Len(cmd) = IF 1 <= d - 1 THEN d - 1 - 1 + 1 ELSE 0
        /\ \A i \in 1..d - 1 - 1 + 1 : cmd[i] = line[1 + i - 1]
    BY <1>1, <2>1, SubSeqProperties
  <2>3. d - 1 - 1 + 1 = d - 1 /\ \A i \in 1..d - 1 : 1 + i - 1 = i
    BY <1>1
  <2> HIDE DEF cmd
  <2> QED BY <1>1, <2>2, <2>3
<1>5. SubSeq(front, 1, d - 1) = cmd
  <2>1. /\ SubSeq(front, 1, d - 1) \in Seq(Bytes) /\ Len(SubSeq(front, 1, d - 1)) = d - 1
        /\ \A i \in 1..d - 1 : SubSeq(front, 1, d - 1)[i] = front[i]
    <3>1. \A i \in 1..d - 1 : front[i] \in Bytes
      <4>1. \A i \in 1..d - 1 : i \in 1..d
        BY <1>1
      <4> HIDE DEF front
      <4> QED BY <1>3, <4>1, ElementOfSeq
    <3> HIDE DEF front
    <3>2. /\ SubSeq(front, 1, d - 1) \in Seq(Bytes)
          /\ Len(SubSeq(front, 1, d - 1)) = IF 1 <= d - 1 THEN d - 1 - 1 + 1 ELSE 0
          /\ \A i \in 1..d - 1 - 1 + 1 : SubSeq(front, 1, d - 1)[i] = front[1 + i - 1]
      BY <1>1, <3>1, SubSeqProperties
    <3>3. d - 1 - 1 + 1 = d - 1 /\ \A i \in 1..d - 1 : 1 + i - 1 = i
      BY <1>1
    <3> DEFINE q == SubSeq(front, 1, d - 1)
    <3> HIDE DEF q
    <3>4. q \in Seq(Bytes) /\ Len(q) = d - 1 /\ \A i \in 1..d - 1 : q[i] = front[i]
      BY <1>1, <3>2, <3>3 DEF q
    <3> QED BY <3>4 DEF q
  <2>2. \A i \in 1..d - 1 : i \in 1..d
    BY <1>1
  <2> DEFINE q == SubSeq(front, 1, d - 1)
  <2> HIDE DEF q, cmd, front
  <2>3. q \in Seq(Bytes) /\ Len(q) = Len(cmd) /\ \A i \in 1..Len(q) : q[i] = cmd[i]
    BY <1>3, <1>4, <2>1, <2>2 DEF q
  <2>4. q = cmd
    BY <1>4, <2>3, SeqEqual
  <2> QED BY <2>4 DEF q
<1> HIDE DEF front, cmd
<1>6. /\ front # <<>> /\ front[Len(front)] = "d"
      /\ \A i \in 1..Len(front) - 1 : front[i] # "d"
  <2>1. Len(front) # 0 /\ d \in 1..d /\ \A i \in 1..d - 1 : i \in 1..d
    BY <1>1, <1>3
  <2>2. front # <<>>
    BY <2>1, EmptySeq
  <2> QED BY <1>2, <1>3, <2>1, <2>2
<1>7. Commands(parsed \o front) = IF NamesModule(cmd) THEN Append(Commands(parsed), cmd)
                                  ELSE Commands(parsed)
  <2>1. SubSeq(front, 1, Len(front) - 1) = cmd
    BY <1>3, <1>5
  <2> QED BY <1>1, <1>3, <1>6, <2>1, CommandAdded DEF StartInv
<1>8. Starts(cmd) <=> NamesModule(cmd)
  BY <1>2, <1>4, StartsNames
<1>9. started' = Commands(parsed')
  BY <1>2, <1>7, <1>8 DEF StartInv
<1>10. parsed'[Len(parsed')] = "d"
  <2>1. /\ Len(parsed') = Len(parsed) + Len(front)
        /\ \A i \in 1..Len(parsed) + Len(front) :
             parsed'[i] = IF i <= Len(parsed) THEN parsed[i] ELSE front[i - Len(parsed)]
    <3>1. /\ Len(parsed \o front) = Len(parsed) + Len(front)
          /\ \A i \in 1..Len(parsed) + Len(front) :
               (parsed \o front)[i] = IF i <= Len(parsed) THEN parsed[i] ELSE front[i - Len(parsed)]
      <4>1. parsed \in Seq(Bytes) /\ front \in Seq(Bytes)
        BY <1>1, <1>3
      <4> QED BY <4>1, ConcatProperties
    <3>2. parsed' = parsed \o front
      BY <1>2
    <3> HIDE DEF front
    <3> QED BY <3>1, <3>2, ZenonT(30)
  <2>2. /\ Len(parsed) + Len(front) \in 1..Len(parsed) + Len(front)
        /\ ~(Len(parsed) + Len(front) <= Len(parsed))
        /\ Len(parsed) + Len(front) - Len(parsed) = Len(front)
    BY <1>1, <1>3, LenProperties
  <2> QED BY <1>6, <2>1, <2>2
<1> QED BY <1>9, <1>10 DEF StartInv

\* Every step keeps StartInv; only the loop over the buffer parses.
LEMMA NextStart == IInv /\ StartInv /\ [Next]_vars => StartInv'
<1> SUFFICES ASSUME IInv, StartInv, [Next]_vars PROVE StartInv'
  OBVIOUS
<1>1. CASE \E d \in 1..Len(line) : split(d)
  BY <1>1, SplitStarts
<1>2. CASE UNCHANGED <<parsed, started>>
  BY <1>2 DEF StartInv
<1>3. CASE ~(\E d \in 1..Len(line) : split(d))
  BY <1>2, <1>3 DEF Next, vars, interactive, timedOut, finish, endOfInput, new_input
<1> QED BY <1>1, <1>3

\* While new_input waits, and at the end, what was started is what the text names.
LEMMA StartedByNow == IInv /\ StartInv => StartedInOrder
<1> SUFFICES ASSUME IInv, StartInv, pc \in {"wait", "closed"} PROVE started = Commands(Consumed)
  BY DEF StartedInOrder
<1>1. parsed \in Seq(Bytes) /\ line \in Seq(Bytes) /\ Consumed = parsed \o line
  BY DEF IInv, TypeOK, NothingLost
<1>2. \A i \in 1..Len(line) : line[i] # "d"
  BY EmptySeq DEF IInv, NoneLeftBehind
<1>3. /\ Consumed \in Seq(Bytes) /\ Len(Consumed) = Len(parsed) + Len(line)
      /\ \A i \in 1..Len(parsed) + Len(line) :
           Consumed[i] = IF i <= Len(parsed) THEN parsed[i] ELSE line[i - Len(parsed)]
  BY <1>1, ConcatProperties
<1>4. Len(parsed) \in Nat /\ Len(line) \in Nat
  BY <1>1, LenProperties
<1> HIDE DEF Consumed
<1>5. Extends(Consumed, parsed)
  <2>1. \A i \in 1..Len(parsed) : i \in 1..Len(parsed) + Len(line) /\ i <= Len(parsed)
    BY <1>4
  <2> QED BY <1>3, <1>4, <2>1 DEF Extends
<1>6. \A i \in Len(parsed) + 1..Len(Consumed) : Consumed[i] # "d"
  <2>1. \A i \in Len(parsed) + 1..Len(parsed) + Len(line) :
          i \in 1..Len(parsed) + Len(line) /\ ~(i <= Len(parsed)) /\ i - Len(parsed) \in 1..Len(line)
    BY <1>4
  <2> QED BY <1>2, <1>3, <2>1
<1>7. Commands(Consumed) = Commands(parsed)
  BY <1>1, <1>3, <1>5, <1>6, PieceStartsNothing
<1> QED BY <1>7 DEF StartInv

\* parse_cmd: the modules started are those the text read so far names, in its
\* order, each once, however read cuts the text.
THEOREM StartedInOrderHolds == Spec => []StartedInOrder
BY InitIInv, NextIInv, InitStart, NextStart, StartedByNow, PTL DEF Spec

-----------------------------------------------------------------------------
(* The end.                                                                *)

\* read returns 0 only when all bytes have been read.
EndInv == eof = "end" => pos = Len(input)

\* The descriptor is closed only then, or after an error.
ClosedByEnd == pc = "closed" => eof # "no"

\* Every step keeps EndInv, for after the end nothing is read.
LEMMA NextEnd == IInv /\ EndInv /\ [Next]_vars => EndInv'
<1> SUFFICES ASSUME IInv, EndInv, [Next]_vars PROVE EndInv'
  OBVIOUS
<1>1. CASE \E n \in 1..bsize : new_input(n)
  BY <1>1 DEF new_input, EndInv, IInv, EndsTheLine
<1>2. CASE \E why \in {"end", "error"} : endOfInput(why)
  BY <1>2 DEF endOfInput, EndInv
<1>3. CASE UNCHANGED <<input, pos, eof>>
  BY <1>3 DEF EndInv
<1> QED BY <1>1, <1>2, <1>3 DEF Next, vars, interactive, timedOut, finish, split

\* What AllStarted promises for the end: if read did not fail, every module the
\* text names has been started when the descriptor is closed.
StartedAtTheEnd ==
    pc = "closed" => eof = "error" \/ started = Commands(input \o <<"d">>)

\* new_input: a text that was read to its end has had its commands carried out, the
\* last one too when no newline follows it.
THEOREM StartedAtTheEndHolds == Spec => []StartedAtTheEnd
<1>1. Init => EndInv
  BY DEF Init, EndInv
<1>2. IInv /\ StartInv /\ EndInv /\ ClosedByEnd => StartedAtTheEnd
  <2> SUFFICES ASSUME IInv, StartInv, EndInv, ClosedByEnd, pc = "closed", eof # "error"
               PROVE  started = Commands(input \o <<"d">>)
    BY DEF StartedAtTheEnd
  <2>1. eof = "end" /\ pos = Len(input)
    BY DEF IInv, TypeOK, EndInv, ClosedByEnd
  <2>2. input \in Seq(Bytes)
    BY InputAssumption DEF IInv, TypeOK
  <2>3. Consumed = input \o <<"d">>
    BY <2>1, <2>2, SubSeqFull DEF Consumed
  <2>4. started = Commands(Consumed)
    BY StartedByNow DEF StartedInOrder
  <2> QED BY <2>3, <2>4
<1>3. Init => ClosedByEnd
  BY DEF Init, ClosedByEnd
<1>4. ClosedByEnd /\ [Next]_vars => ClosedByEnd'
  BY DEF ClosedByEnd, Next, vars, interactive, timedOut, finish, endOfInput, new_input,
         Appended, split
<1> QED BY InitIInv, NextIInv, InitStart, NextStart, <1>1, NextEnd, <1>2, <1>3, <1>4, PTL DEF Spec

\* Left is a number, so it cannot decrease for ever.
LEMMA LeftType == IInv => Left \in Nat
<1> SUFFICES ASSUME IInv PROVE Left \in Nat
  OBVIOUS
<1>1. input \in Seq(Bytes) /\ line \in Seq(Bytes) /\ pos \in 0..Len(input)
  BY InputAssumption DEF IInv, TypeOK
<1>2. Len(line) \in Nat /\ Len(input) - pos \in Nat
  BY <1>1, LenProperties
<1> QED BY <1>2 DEF Left

\* Every step but the timeout uses something up.
LEMMA StepUses == IInv /\ Next => Left' < Left \/ UNCHANGED vars
<1> SUFFICES ASSUME IInv, Next PROVE Left' < Left \/ UNCHANGED vars
  OBVIOUS
<1> USE DEF IInv
<1>1. /\ input \in Seq(Bytes) /\ line \in Seq(Bytes)
      /\ Len(input) \in Nat /\ Len(line) \in Nat /\ pos \in Nat
  BY InputAssumption, LenProperties DEF TypeOK
<1> DEFINE E == IF eof = "no" THEN 1 ELSE 0
           P == IF pc \in {"off", "split"} THEN 1 ELSE 0
           R == Len(input) - pos
<1>a. Left = 3 * (R + E) + Len(line) + P /\ Left' = 3 * (R' + E') + Len(line') + P'
  BY DEF Left
<1>b. E \in Int /\ P \in Int /\ R \in Int
  BY <1>1
<1>2. CASE interactive
  BY <1>1, <1>2 DEF interactive, Left
<1>3. CASE timedOut
  BY <1>3 DEF timedOut
<1>4. CASE finish
  <2>1. pc' \in {"wait", "closed"} /\ pc = "split" /\ UNCHANGED <<input, pos, line, eof>>
    BY <1>4 DEF finish
  <2>2. R' = R /\ E' = E /\ line' = line /\ P = 1 /\ P' = 0
    BY <2>1
  <2> HIDE DEF R, E, P
  <2> QED BY <1>1, <1>a, <1>b, <2>2
<1>5. CASE \E why \in {"end", "error"} : endOfInput(why)
  <2>1. PICK why \in {"end", "error"} : endOfInput(why)
    BY <1>5
  <2>2. <<"d">> \in Seq(Bytes) /\ Len(<<"d">>) = 1
    BY DEF Bytes
  <2>3. /\ eof = "no" /\ eof' # "no" /\ pc = "wait" /\ pc' = "split"
        /\ UNCHANGED <<input, pos>> /\ line' = line \o <<"d">>
    BY <2>1, <2>2, AppendedAppends DEF endOfInput, EndsTheLine
  <2>4. Len(line') = Len(line) + 1
    BY <1>1, <2>2, <2>3, ConcatProperties
  <2> QED BY <1>1, <2>3, <2>4 DEF Left
<1>6. CASE \E n \in 1..bsize : new_input(n)
  <2>1. PICK n \in 1..bsize : new_input(n)
    BY <1>6
  <2> DEFINE buf == SubSeq(input, pos + 1, pos + n)
  <2>2. n \in Nat /\ n >= 1 /\ pos + n <= Len(input)
    BY <2>1, InputAssumption DEF new_input
  <2>3. buf \in Seq(Bytes) /\ Len(buf) = n
    <3>1. \A i \in pos + 1..pos + n : input[i] \in Bytes
      <4>1. \A i \in pos + 1..pos + n : i \in 1..Len(input)
        BY <1>1, <2>2
      <4> QED BY <1>1, <4>1, ElementOfSeq
    <3>2. /\ buf \in Seq(Bytes)
          /\ Len(buf) = IF pos + 1 <= pos + n THEN pos + n - (pos + 1) + 1 ELSE 0
      BY <1>1, <2>2, <3>1, SubSeqProperties
    <3> HIDE DEF buf
    <3> QED BY <1>1, <2>2, <3>2
  <2>4. /\ eof' = eof /\ pc = "wait" /\ pc' = "split"
        /\ input' = input /\ pos' = pos + n /\ line' = line \o buf
    <3>1. Appended(buf)
      BY <2>1 DEF new_input
    <3> HIDE DEF buf
    <3>2. line' = line \o buf /\ pc' = "split"
      BY <2>3, <3>1, AppendedAppends
    <3> QED BY <2>1, <3>2 DEF new_input
  <2>5. Len(line') = Len(line) + n
    <3> HIDE DEF buf
    <3> QED BY <1>1, <2>3, <2>4, ConcatProperties
  <2> HIDE DEF buf
  <2>6. R' = R - n /\ E' = E /\ P = 0 /\ P' = 1
    BY <1>1, <2>2, <2>4
  <2> HIDE DEF R, E, P
  <2> QED BY <1>1, <1>a, <1>b, <2>2, <2>5, <2>6
<1>7. CASE \E d \in 1..Len(line) : split(d)
  <2>1. PICK d \in 1..Len(line) : split(d)
    BY <1>7
  <2>2. d \in Nat /\ d >= 1
    BY <1>1
  <2>3. UNCHANGED <<input, pos, eof, pc>> /\ line' = SubSeq(line, d + 1, Len(line))
    BY <2>1 DEF split
  <2>4. Len(line') = Len(line) - d
    BY <1>1, <2>3, FrontAndRest
  <2>5. R' = R /\ E' = E /\ P' = P
    BY <2>3
  <2> HIDE DEF R, E, P
  <2> QED BY <1>1, <1>a, <1>b, <2>2, <2>4, <2>5
<1> QED BY <1>2, <1>3, <1>4, <1>5, <1>6, <1>7 DEF Next

\* new_input: neither its loop over the commands nor its calling itself goes on for
\* ever; only timeouts may repeat.
THEOREM ReaderEndsHolds == Spec => ReaderEnds /\ [](Left \in Nat)
<1>1. IInv /\ [Next]_vars => [Left' < Left]_vars
  BY StepUses
<1> QED BY InitIInv, NextIInv, LeftType, <1>1, PTL DEF Spec, ReaderEnds
=============================================================================
