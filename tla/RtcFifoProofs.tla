--------------------------- MODULE RtcFifoProofs ---------------------------
(***************************************************************************)
(* Proofs about RtcFifo, for every layout of the RTC memory, every width of*)
(* the bit fields and any samples.                                         *)
(***************************************************************************)
EXTENDS RtcFifo, SequenceTheorems, WellFoundedInduction, TLAPS

----------------------------------------------------------------------------
(* Sequences of writes.                                                    *)

\* A set of numbers has a least one.
LEMMA LeastNat ==
  ASSUME NEW T \in SUBSET Nat, T # {}
  PROVE  \E x \in T : \A y \in T : x <= y
<1> DEFINE R == OpToRel(<, Nat)
<1>1. IsWellFoundedOn(R, Nat)
  BY NatLessThanWellFounded
<1>2. \A x, y \in Nat : y < x => <<y, x>> \in R
  BY DEF OpToRel
<1> HIDE DEF R
<1>3. PICK x \in T : \A y \in T : ~ (<<y, x>> \in R)
  BY <1>1, WFMin
<1>4. \A y \in T : ~ (y < x)
  BY <1>2, <1>3
<1> QED
  BY <1>3, <1>4

\* A bounded set of numbers has a greatest one.
LEMMA GreatestNat ==
  ASSUME NEW n \in Nat, NEW T \in SUBSET (1 .. n), T # {}
  PROVE  \E x \in T : \A y \in T : x >= y
<1> DEFINE D == { k \in 0 .. n : n - k \in T }
<1>1. D \in SUBSET Nat /\ D # {}
  <2>1. PICK x \in T : TRUE
    OBVIOUS
  <2>2. x \in 1 .. n
    BY <2>1
  <2>3. n - x \in 0 .. n /\ n - (n - x) = x
    BY <2>2
  <2>4. n - x \in D
    BY <2>1, <2>3
  <2>5. D \in SUBSET Nat
    OBVIOUS
  <2> QED
    BY <2>4, <2>5, Zenon
<1>2. PICK d \in D : \A e \in D : d <= e
  BY <1>1, LeastNat
<1>3. \A y \in T : n - d >= y
  <2> TAKE y \in T
  <2>1. y \in 1 .. n
    OBVIOUS
  <2>2. n - y \in 0 .. n /\ n - (n - y) = y
    BY <2>1
  <2>3. d <= n - y
    BY <1>2, <2>2
  <2> QED
    BY <1>2, <2>1, <2>3
<1> QED
  BY <1>2, <1>3

Elems(ws) == { ws[i] : i \in 1 .. Len(ws) }

\* ws is a sequence, whatever of.
IsSeq(ws) == ws \in Seq(Elems(ws))

LEMMA SeqIsSeq ==
  ASSUME NEW S, NEW ws \in Seq(S)
  PROVE  IsSeq(ws) /\ Len(ws) \in Nat
BY DEF IsSeq, Elems

LEMMA SeqConcat ==
  ASSUME NEW ws, IsSeq(ws), NEW vs, IsSeq(vs)
  PROVE  /\ IsSeq(ws \o vs)
         /\ Len(ws) \in Nat /\ Len(vs) \in Nat
         /\ Len(ws \o vs) = Len(ws) + Len(vs)
         /\ \A i \in 1 .. Len(ws) : (ws \o vs)[i] = ws[i]
         /\ \A i \in 1 .. Len(vs) : (ws \o vs)[Len(ws) + i] = vs[i]
<1> DEFINE S == Elems(ws) \cup Elems(vs)
<1>1. ws \in Seq(S) /\ vs \in Seq(S)
  BY DEF IsSeq
<1> HIDE DEF S
<1>2. ws \o vs \in Seq(S)
  BY <1>1
<1>3. IsSeq(ws \o vs)
  BY <1>2, SeqIsSeq
<1> QED
  BY <1>1, <1>3

\* Write w goes to this word.
To(w, field, a) == w.field = field /\ w.at = a

\* The value it writes.
Value(w) == w.v

LEMMA WordNone ==
  ASSUME NEW ws, NEW field, NEW a, NEW old,
         \A i \in 1 .. Len(ws) : ~ To(ws[i], field, a)
  PROVE  Word(ws, field, a, old) = old
BY DEF Word, To

LEMMA WordLast ==
  ASSUME NEW ws, IsSeq(ws), NEW field, NEW a, NEW old,
         NEW i \in 1 .. Len(ws), To(ws[i], field, a),
         \A j \in 1 .. Len(ws) : j > i => ~ To(ws[j], field, a)
  PROVE  Word(ws, field, a, old) = Value(ws[i])
<1> DEFINE T == { j \in 1 .. Len(ws) : ws[j].field = field /\ ws[j].at = a }
<1>1. Len(ws) \in Nat
  BY DEF IsSeq
<1>2. i \in T /\ \A j \in T : i >= j
  BY <1>1 DEF To
<1>3. \A k \in T : (\A j \in T : k >= j) => k = i
  BY <1>1, <1>2
<1> HIDE DEF T
<1>4. Max(T) = i
  BY <1>2, <1>3 DEF Max
<1> QED
  BY <1>2, <1>4 DEF Word, T, Value

\* What a word holds was there before or is the last write to it.
LEMMA WordCases ==
  ASSUME NEW ws, IsSeq(ws), NEW field, NEW a
  PROVE  \/ \A i \in 1 .. Len(ws) : ~ To(ws[i], field, a)
         \/ \E i \in 1 .. Len(ws) :
              /\ To(ws[i], field, a)
              /\ \A j \in 1 .. Len(ws) : j > i => ~ To(ws[j], field, a)
<1> DEFINE T == { j \in 1 .. Len(ws) : To(ws[j], field, a) }
<1>1. Len(ws) \in Nat
  BY DEF IsSeq
<1>2. CASE T = {}
  BY <1>2
<1>3. CASE T # {}
  <2>1. T \in SUBSET (1 .. Len(ws))
    OBVIOUS
  <2>2. PICK i \in T : \A j \in T : i >= j
    BY <1>1, <1>3, <2>1, GreatestNat
  <2>3. \A j \in 1 .. Len(ws) : j > i => j \notin T
    BY <1>1, <2>2
  <2> QED
    BY <2>2, <2>3
<1> QED
  BY <1>2, <1>3

LEMMA WordConcat ==
  ASSUME NEW ws, IsSeq(ws), NEW vs, IsSeq(vs), NEW field, NEW a, NEW old
  PROVE  Word(ws \o vs, field, a, old) = Word(vs, field, a, Word(ws, field, a, old))
<1> DEFINE us == ws \o vs
<1>1. /\ IsSeq(us) /\ Len(ws) \in Nat /\ Len(vs) \in Nat
      /\ Len(us) = Len(ws) + Len(vs)
      /\ \A i \in 1 .. Len(ws) : us[i] = ws[i]
      /\ \A i \in 1 .. Len(vs) : us[Len(ws) + i] = vs[i]
  <2>1. IsSeq(us) /\ Len(us) = Len(ws) + Len(vs)
    BY SeqConcat
  <2>2. Len(ws) \in Nat /\ Len(vs) \in Nat
    BY DEF IsSeq
  <2>3. \A i \in 1 .. Len(ws) : us[i] = ws[i]
    BY SeqConcat
  <2>4. \A i \in 1 .. Len(vs) : us[Len(ws) + i] = vs[i]
    BY SeqConcat
  <2> QED
    BY <2>1, <2>2, <2>3, <2>4, Zenon
<1>a. IsSeq(us)
  BY SeqConcat
<1> HIDE DEF us
<1>2. \A j \in 1 .. Len(us) : j > Len(ws) =>
        j - Len(ws) \in 1 .. Len(vs) /\ us[j] = vs[j - Len(ws)]
  <2> TAKE j \in 1 .. Len(us)
  <2> HAVE j > Len(ws)
  <2>1. j - Len(ws) \in 1 .. Len(vs) /\ Len(ws) + (j - Len(ws)) = j
    BY <1>1
  <2> QED
    BY <1>1, <2>1
<1>3. CASE \E i \in 1 .. Len(vs) :
             /\ To(vs[i], field, a)
             /\ \A j \in 1 .. Len(vs) : j > i => ~ To(vs[j], field, a)
  <2>1. PICK i \in 1 .. Len(vs) :
             /\ To(vs[i], field, a)
             /\ \A j \in 1 .. Len(vs) : j > i => ~ To(vs[j], field, a)
    BY <1>3
  <2>2. Len(ws) + i \in 1 .. Len(us) /\ To(us[Len(ws) + i], field, a)
    BY <1>1, <2>1
  <2>3. \A j \in 1 .. Len(us) : j > Len(ws) + i => ~ To(us[j], field, a)
    <3> TAKE j \in 1 .. Len(us)
    <3> HAVE j > Len(ws) + i
    <3>1. j > Len(ws) /\ j - Len(ws) > i
      BY <1>1, <2>1
    <3> QED
      BY <1>2, <2>1, <3>1
  <2>4. Word(us, field, a, old) = Value(us[Len(ws) + i])
    BY <1>a, <2>2, <2>3, WordLast
  <2>5. Word(vs, field, a, Word(ws, field, a, old)) = Value(vs[i])
    BY <2>1, WordLast
  <2> QED
    BY <1>1, <2>1, <2>4, <2>5 DEF us
<1>4. CASE \A i \in 1 .. Len(vs) : ~ To(vs[i], field, a)
  <2>1. Word(vs, field, a, Word(ws, field, a, old)) = Word(ws, field, a, old)
    BY <1>4, WordNone
  <2>2. CASE \A i \in 1 .. Len(ws) : ~ To(ws[i], field, a)
    <3>1. \A j \in 1 .. Len(us) : ~ To(us[j], field, a)
      BY <1>1, <1>2, <1>4, <2>2
    <3> QED
      BY <2>1, <2>2, <3>1, WordNone DEF us
  <2>3. CASE \E i \in 1 .. Len(ws) :
               /\ To(ws[i], field, a)
               /\ \A j \in 1 .. Len(ws) : j > i => ~ To(ws[j], field, a)
    <3>1. PICK i \in 1 .. Len(ws) :
               /\ To(ws[i], field, a)
               /\ \A j \in 1 .. Len(ws) : j > i => ~ To(ws[j], field, a)
      BY <2>3
    <3>2. i \in 1 .. Len(us) /\ To(us[i], field, a)
      BY <1>1, <3>1
    <3>3. \A j \in 1 .. Len(us) : j > i => ~ To(us[j], field, a)
      <4> TAKE j \in 1 .. Len(us)
      <4> HAVE j > i
      <4>1. CASE j > Len(ws)
        BY <1>2, <1>4, <4>1
      <4>2. CASE ~ (j > Len(ws))
        <5>1. j \in 1 .. Len(ws)
          BY <1>1, <4>2
        <5> QED
          BY <1>1, <3>1, <5>1
      <4> QED
        BY <4>1, <4>2
    <3>4. Word(us, field, a, old) = Value(us[i])
      BY <1>a, <3>2, <3>3, WordLast
    <3>5. Word(ws, field, a, old) = Value(ws[i])
      BY <3>1, WordLast
    <3> QED
      BY <1>1, <2>1, <3>1, <3>4, <3>5 DEF us
  <2> QED
    BY <2>2, <2>3, WordCases
<1> QED
  BY <1>3, <1>4, WordCases

\* The writes of two sequences are made one after the other.
LEMMA AfterConcat ==
  ASSUME NEW r, NEW ws, IsSeq(ws), NEW vs, IsSeq(vs)
  PROVE  After(r, ws \o vs) = After(After(r, ws), vs)
<1>1. \A field, a, old :
        Word(ws \o vs, field, a, old) = Word(vs, field, a, Word(ws, field, a, old))
  BY WordConcat
<1>2. \A b \in Slots :
        Word(ws \o vs, "mem", b, r.mem[b]) = Word(vs, "mem", b, Word(ws, "mem", b, r.mem[b]))
  BY <1>1
<1> QED
  BY <1>1, <1>2 DEF After

----------------------------------------------------------------------------
(* A few writes.                                                           *)

LEMMA WordOne ==
  ASSUME NEW w, NEW field, NEW a, NEW old
  PROVE  /\ IsSeq(<<w>>)
         /\ Word(<<w>>, field, a, old) = IF To(w, field, a) THEN Value(w) ELSE old
<1>1. <<w>> \in Seq({w}) /\ Len(<<w>>) = 1 /\ <<w>>[1] = w
  OBVIOUS
<1>2. IsSeq(<<w>>)
  BY <1>1, SeqIsSeq
<1>3. CASE To(w, field, a)
  <2>1. 1 \in 1 .. Len(<<w>>) /\ \A j \in 1 .. Len(<<w>>) : ~ (j > 1)
    BY <1>1
  <2>2. Word(<<w>>, field, a, old) = Value(<<w>>[1])
    BY <1>1, <1>2, <1>3, <2>1, WordLast
  <2> QED
    BY <1>1, <1>2, <1>3, <2>2
<1>4. CASE ~ To(w, field, a)
  <2>1. \A j \in 1 .. Len(<<w>>) : ~ To(<<w>>[j], field, a)
    BY <1>1, <1>4
  <2>2. Word(<<w>>, field, a, old) = old
    BY <2>1, WordNone
  <2> QED
    BY <1>2, <1>4, <2>2
<1> QED
  BY <1>3, <1>4

\* Two to five writes.
LEMMA WordTwo ==
  ASSUME NEW w1, NEW w2, NEW field, NEW a, NEW old
  PROVE  /\ IsSeq(<<w1, w2>>)
         /\ Word(<<w1, w2>>, field, a, old) =
              IF To(w2, field, a) THEN Value(w2)
              ELSE IF To(w1, field, a) THEN Value(w1) ELSE old
<1> DEFINE ws == <<w1, w2>>
<1>1. ws \in Seq({w1, w2}) /\ Len(ws) = 2
  OBVIOUS
<1>2. ws[1] = w1 /\ ws[2] = w2
  OBVIOUS
<1> HIDE DEF ws
<1>3. IsSeq(ws)
  BY <1>1, SeqIsSeq
<1>4. 1 .. Len(ws) = {1, 2}
  BY <1>1
<1>5. CASE To(w2, field, a)
  <2>1. /\ 2 \in 1 .. Len(ws) /\ To(ws[2], field, a)
        /\ \A j \in 1 .. Len(ws) : j > 2 => ~ To(ws[j], field, a)
    BY <1>2, <1>4, <1>5
  <2>2. Word(ws, field, a, old) = Value(ws[2])
    BY <1>3, <2>1, WordLast
  <2> QED
    BY <1>2, <1>3, <1>5, <2>2 DEF ws
<1>6. CASE To(w1, field, a) /\ ~ To(w2, field, a)
  <2>1. /\ 1 \in 1 .. Len(ws) /\ To(ws[1], field, a)
        /\ \A j \in 1 .. Len(ws) : j > 1 => ~ To(ws[j], field, a)
    BY <1>2, <1>4, <1>6
  <2>2. Word(ws, field, a, old) = Value(ws[1])
    BY <1>3, <2>1, WordLast
  <2> QED
    BY <1>2, <1>3, <1>6, <2>2 DEF ws
<1>7. CASE ~ To(w2, field, a) /\ ~ To(w1, field, a)
  <2>1. \A j \in 1 .. Len(ws) : ~ To(ws[j], field, a)
    BY <1>2, <1>4, <1>7
  <2>2. Word(ws, field, a, old) = old
    BY <2>1, WordNone
  <2> QED
    BY <1>3, <1>7, <2>2 DEF ws
<1> QED
  BY <1>5, <1>6, <1>7

LEMMA WordThree ==
  ASSUME NEW w1, NEW w2, NEW w3, NEW field, NEW a, NEW old
  PROVE  /\ IsSeq(<<w1, w2, w3>>)
         /\ Word(<<w1, w2, w3>>, field, a, old) =
              IF To(w3, field, a) THEN Value(w3)
              ELSE IF To(w2, field, a) THEN Value(w2)
              ELSE IF To(w1, field, a) THEN Value(w1) ELSE old
<1> DEFINE ws == <<w1, w2, w3>>
<1>1. ws \in Seq({w1, w2, w3}) /\ Len(ws) = 3
  OBVIOUS
<1>2. ws[1] = w1 /\ ws[2] = w2 /\ ws[3] = w3
  OBVIOUS
<1> HIDE DEF ws
<1>3. IsSeq(ws)
  BY <1>1, SeqIsSeq
<1>4. 1 .. Len(ws) = {1, 2, 3}
  BY <1>1
<1>5. CASE To(w3, field, a)
  <2>1. /\ 3 \in 1 .. Len(ws) /\ To(ws[3], field, a)
        /\ \A j \in 1 .. Len(ws) : j > 3 => ~ To(ws[j], field, a)
    BY <1>2, <1>4, <1>5
  <2>2. Word(ws, field, a, old) = Value(ws[3])
    BY <1>3, <2>1, WordLast
  <2> QED
    BY <1>2, <1>3, <1>5, <2>2 DEF ws
<1>6. CASE To(w2, field, a) /\ ~ To(w3, field, a)
  <2>1. /\ 2 \in 1 .. Len(ws) /\ To(ws[2], field, a)
        /\ \A j \in 1 .. Len(ws) : j > 2 => ~ To(ws[j], field, a)
    BY <1>2, <1>4, <1>6
  <2>2. Word(ws, field, a, old) = Value(ws[2])
    BY <1>3, <2>1, WordLast
  <2> QED
    BY <1>2, <1>3, <1>6, <2>2 DEF ws
<1>7. CASE To(w1, field, a) /\ ~ To(w3, field, a) /\ ~ To(w2, field, a)
  <2>1. /\ 1 \in 1 .. Len(ws) /\ To(ws[1], field, a)
        /\ \A j \in 1 .. Len(ws) : j > 1 => ~ To(ws[j], field, a)
    BY <1>2, <1>4, <1>7
  <2>2. Word(ws, field, a, old) = Value(ws[1])
    BY <1>3, <2>1, WordLast
  <2> QED
    BY <1>2, <1>3, <1>7, <2>2 DEF ws
<1>8. CASE ~ To(w3, field, a) /\ ~ To(w2, field, a) /\ ~ To(w1, field, a)
  <2>1. \A j \in 1 .. Len(ws) : ~ To(ws[j], field, a)
    BY <1>2, <1>4, <1>8
  <2>2. Word(ws, field, a, old) = old
    BY <2>1, WordNone
  <2> QED
    BY <1>3, <1>8, <2>2 DEF ws
<1> QED
  BY <1>5, <1>6, <1>7, <1>8

LEMMA WordFour ==
  ASSUME NEW w1, NEW w2, NEW w3, NEW w4, NEW field, NEW a, NEW old
  PROVE  /\ IsSeq(<<w1, w2, w3, w4>>)
         /\ Word(<<w1, w2, w3, w4>>, field, a, old) =
              IF To(w4, field, a) THEN Value(w4)
              ELSE IF To(w3, field, a) THEN Value(w3)
              ELSE IF To(w2, field, a) THEN Value(w2)
              ELSE IF To(w1, field, a) THEN Value(w1) ELSE old
<1> DEFINE ws == <<w1, w2, w3, w4>>
<1>1. ws \in Seq({w1, w2, w3, w4}) /\ Len(ws) = 4
  OBVIOUS
<1>2. ws[1] = w1 /\ ws[2] = w2 /\ ws[3] = w3 /\ ws[4] = w4
  OBVIOUS
<1> HIDE DEF ws
<1>3. IsSeq(ws)
  BY <1>1, SeqIsSeq
<1>4. 1 .. Len(ws) = {1, 2, 3, 4}
  BY <1>1
<1>5. CASE To(w4, field, a)
  <2>1. /\ 4 \in 1 .. Len(ws) /\ To(ws[4], field, a)
        /\ \A j \in 1 .. Len(ws) : j > 4 => ~ To(ws[j], field, a)
    BY <1>2, <1>4, <1>5
  <2>2. Word(ws, field, a, old) = Value(ws[4])
    BY <1>3, <2>1, WordLast
  <2> QED
    BY <1>2, <1>3, <1>5, <2>2 DEF ws
<1>6. CASE To(w3, field, a) /\ ~ To(w4, field, a)
  <2>1. /\ 3 \in 1 .. Len(ws) /\ To(ws[3], field, a)
        /\ \A j \in 1 .. Len(ws) : j > 3 => ~ To(ws[j], field, a)
    BY <1>2, <1>4, <1>6
  <2>2. Word(ws, field, a, old) = Value(ws[3])
    BY <1>3, <2>1, WordLast
  <2> QED
    BY <1>2, <1>3, <1>6, <2>2 DEF ws
<1>7. CASE To(w2, field, a) /\ ~ To(w4, field, a) /\ ~ To(w3, field, a)
  <2>1. /\ 2 \in 1 .. Len(ws) /\ To(ws[2], field, a)
        /\ \A j \in 1 .. Len(ws) : j > 2 => ~ To(ws[j], field, a)
    BY <1>2, <1>4, <1>7
  <2>2. Word(ws, field, a, old) = Value(ws[2])
    BY <1>3, <2>1, WordLast
  <2> QED
    BY <1>2, <1>3, <1>7, <2>2 DEF ws
<1>8. CASE To(w1, field, a) /\ ~ To(w4, field, a) /\ ~ To(w3, field, a) /\ ~ To(w2, field, a)
  <2>1. /\ 1 \in 1 .. Len(ws) /\ To(ws[1], field, a)
        /\ \A j \in 1 .. Len(ws) : j > 1 => ~ To(ws[j], field, a)
    BY <1>2, <1>4, <1>8
  <2>2. Word(ws, field, a, old) = Value(ws[1])
    BY <1>3, <2>1, WordLast
  <2> QED
    BY <1>2, <1>3, <1>8, <2>2 DEF ws
<1>9. CASE ~ To(w4, field, a) /\ ~ To(w3, field, a) /\ ~ To(w2, field, a) /\ ~ To(w1, field, a)
  <2>1. \A j \in 1 .. Len(ws) : ~ To(ws[j], field, a)
    BY <1>2, <1>4, <1>9
  <2>2. Word(ws, field, a, old) = old
    BY <2>1, WordNone
  <2> QED
    BY <1>3, <1>9, <2>2 DEF ws
<1> QED
  BY <1>5, <1>6, <1>7, <1>8, <1>9

LEMMA WordFive ==
  ASSUME NEW w1, NEW w2, NEW w3, NEW w4, NEW w5, NEW field, NEW a, NEW old
  PROVE  /\ IsSeq(<<w1, w2, w3, w4, w5>>)
         /\ Word(<<w1, w2, w3, w4, w5>>, field, a, old) =
              IF To(w5, field, a) THEN Value(w5)
              ELSE IF To(w4, field, a) THEN Value(w4)
              ELSE IF To(w3, field, a) THEN Value(w3)
              ELSE IF To(w2, field, a) THEN Value(w2)
              ELSE IF To(w1, field, a) THEN Value(w1) ELSE old
<1> DEFINE ws == <<w1, w2, w3, w4, w5>>
<1>1. ws \in Seq({w1, w2, w3, w4, w5}) /\ Len(ws) = 5
  OBVIOUS
<1>2. ws[1] = w1 /\ ws[2] = w2 /\ ws[3] = w3 /\ ws[4] = w4 /\ ws[5] = w5
  OBVIOUS
<1> HIDE DEF ws
<1>3. IsSeq(ws)
  BY <1>1, SeqIsSeq
<1>4. 1 .. Len(ws) = {1, 2, 3, 4, 5}
  BY <1>1
<1>5. CASE To(w5, field, a)
  <2>1. /\ 5 \in 1 .. Len(ws) /\ To(ws[5], field, a)
        /\ \A j \in 1 .. Len(ws) : j > 5 => ~ To(ws[j], field, a)
    BY <1>2, <1>4, <1>5
  <2>2. Word(ws, field, a, old) = Value(ws[5])
    BY <1>3, <2>1, WordLast
  <2> QED
    BY <1>2, <1>3, <1>5, <2>2 DEF ws
<1>6. CASE To(w4, field, a) /\ ~ To(w5, field, a)
  <2>1. /\ 4 \in 1 .. Len(ws) /\ To(ws[4], field, a)
        /\ \A j \in 1 .. Len(ws) : j > 4 => ~ To(ws[j], field, a)
    BY <1>2, <1>4, <1>6
  <2>2. Word(ws, field, a, old) = Value(ws[4])
    BY <1>3, <2>1, WordLast
  <2> QED
    BY <1>2, <1>3, <1>6, <2>2 DEF ws
<1>7. CASE To(w3, field, a) /\ ~ To(w5, field, a) /\ ~ To(w4, field, a)
  <2>1. /\ 3 \in 1 .. Len(ws) /\ To(ws[3], field, a)
        /\ \A j \in 1 .. Len(ws) : j > 3 => ~ To(ws[j], field, a)
    BY <1>2, <1>4, <1>7
  <2>2. Word(ws, field, a, old) = Value(ws[3])
    BY <1>3, <2>1, WordLast
  <2> QED
    BY <1>2, <1>3, <1>7, <2>2 DEF ws
<1>8. CASE To(w2, field, a) /\ ~ To(w5, field, a) /\ ~ To(w4, field, a) /\ ~ To(w3, field, a)
  <2>1. /\ 2 \in 1 .. Len(ws) /\ To(ws[2], field, a)
        /\ \A j \in 1 .. Len(ws) : j > 2 => ~ To(ws[j], field, a)
    BY <1>2, <1>4, <1>8
  <2>2. Word(ws, field, a, old) = Value(ws[2])
    BY <1>3, <2>1, WordLast
  <2> QED
    BY <1>2, <1>3, <1>8, <2>2 DEF ws
<1>9. CASE To(w1, field, a) /\ ~ To(w5, field, a) /\ ~ To(w4, field, a) /\ ~ To(w3, field, a) /\ ~ To(w2, field, a)
  <2>1. /\ 1 \in 1 .. Len(ws) /\ To(ws[1], field, a)
        /\ \A j \in 1 .. Len(ws) : j > 1 => ~ To(ws[j], field, a)
    BY <1>2, <1>4, <1>9
  <2>2. Word(ws, field, a, old) = Value(ws[1])
    BY <1>3, <2>1, WordLast
  <2> QED
    BY <1>2, <1>3, <1>9, <2>2 DEF ws
<1>10. CASE ~ To(w5, field, a) /\ ~ To(w4, field, a) /\ ~ To(w3, field, a) /\ ~ To(w2, field, a) /\ ~ To(w1, field, a)
  <2>1. \A j \in 1 .. Len(ws) : ~ To(ws[j], field, a)
    BY <1>2, <1>4, <1>10
  <2>2. Word(ws, field, a, old) = old
    BY <2>1, WordNone
  <2> QED
    BY <1>3, <1>10, <2>2 DEF ws
<1> QED
  BY <1>5, <1>6, <1>7, <1>8, <1>9, <1>10

\* Nothing is written.
LEMMA WordEmpty ==
  ASSUME NEW field, NEW a, NEW old
  PROVE  IsSeq(<< >>) /\ Word(<< >>, field, a, old) = old
<1>1. << >> \in Seq({}) /\ Len(<< >>) = 0
  OBVIOUS
<1>2. IsSeq(<< >>)
  BY <1>1, SeqIsSeq
<1>3. \A i \in 1 .. Len(<< >>) : FALSE
  BY <1>1
<1>4. Word(<< >>, field, a, old) = old
  BY <1>3, WordNone
<1> QED
  BY <1>2, <1>4

\* What the writes of the control block and of slots are.
LEMMA PutTo ==
  ASSUME NEW f, NEW v, NEW field, NEW a
  PROVE  /\ To(Put(f, v), field, a) <=> f = field /\ a = 0
         /\ Value(Put(f, v)) = v
BY DEF To, Value, Put

LEMMA WriteTo ==
  ASSUME NEW b, NEW v, NEW field, NEW a
  PROVE  /\ To(rtc_mem_write(b, v), field, a) <=> field = "mem" /\ a = b
         /\ Value(rtc_mem_write(b, v)) = v
BY DEF To, Value, rtc_mem_write
LEMMA FunctionIsSeq ==
  ASSUME NEW n \in Nat, NEW ws, ws = [i \in 1 .. n |-> ws[i]]
  PROVE  IsSeq(ws) /\ Len(ws) = n
<1> DEFINE S == { ws[i] : i \in 1 .. n }
<1>1. \A i \in 1 .. n : ws[i] \in S
  OBVIOUS
<1> HIDE DEF S
<1>2. ws \in Seq(S) /\ Len(ws) = n
  BY <1>1
<1> QED
  BY <1>2, SeqIsSeq

\* Slots p to p + n - 1 are cleared.
Cleared(p, n) == [i \in 1 .. n |-> rtc_mem_write(p + i - 1, 0)]

LEMMA WordCleared ==
  ASSUME NEW p \in Int, NEW n \in Nat, NEW field, NEW a, NEW old
  PROVE  /\ IsSeq(Cleared(p, n))
         /\ Word(Cleared(p, n), field, a, old) =
              IF field = "mem" /\ a \in p .. p + n - 1 THEN 0 ELSE old
<1> DEFINE ws == Cleared(p, n)
<1>1. /\ ws = [i \in 1 .. n |-> ws[i]]
      /\ \A i \in 1 .. n : ws[i] = rtc_mem_write(p + i - 1, 0)
  BY DEF Cleared
<1> HIDE DEF ws
<1>2. IsSeq(ws) /\ Len(ws) = n
  BY <1>1, FunctionIsSeq
<1>3. \A i \in 1 .. n : /\ To(ws[i], field, a) <=> field = "mem" /\ a = p + i - 1
                        /\ Value(ws[i]) = 0
  BY <1>1, WriteTo
<1>4. CASE field = "mem" /\ a \in p .. p + n - 1
  <2>1. a - p + 1 \in 1 .. n /\ a = p + (a - p + 1) - 1
    BY <1>4
  <2>2. \A j \in 1 .. n : j > a - p + 1 => a # p + j - 1
    BY <1>4
  <2>3. /\ a - p + 1 \in 1 .. Len(ws) /\ To(ws[a - p + 1], field, a)
        /\ \A j \in 1 .. Len(ws) : j > a - p + 1 => ~ To(ws[j], field, a)
    BY <1>2, <1>3, <1>4, <2>1, <2>2
  <2>4. Word(ws, field, a, old) = Value(ws[a - p + 1])
    BY <1>2, <2>3, WordLast
  <2> QED
    BY <1>2, <1>3, <1>4, <2>1, <2>4 DEF ws
<1>5. CASE ~ (field = "mem" /\ a \in p .. p + n - 1)
  <2>1. \A j \in 1 .. n : p + j - 1 \in p .. p + n - 1
    OBVIOUS
  <2>2. \A j \in 1 .. Len(ws) : ~ To(ws[j], field, a)
    BY <1>2, <1>3, <1>5, <2>1
  <2>3. Word(ws, field, a, old) = old
    BY <2>2, WordNone
  <2> QED
    BY <1>2, <1>5, <2>3 DEF ws
<1> QED
  BY <1>4, <1>5

\* The count goes down by one n times.
Counts(c, n) == [i \in 1 .. n |-> Put("count", c - i)]

LEMMA WordCounts ==
  ASSUME NEW n \in Nat, n > 0, NEW c, NEW field, NEW a, NEW old
  PROVE  /\ IsSeq(Counts(c, n))
         /\ Word(Counts(c, n), field, a, old) =
              IF field = "count" /\ a = 0 THEN c - n ELSE old
<1> DEFINE ws == Counts(c, n)
<1>1. /\ ws = [i \in 1 .. n |-> ws[i]]
      /\ \A i \in 1 .. n : ws[i] = Put("count", c - i)
  BY DEF Counts
<1> HIDE DEF ws
<1>2. IsSeq(ws) /\ Len(ws) = n
  BY <1>1, FunctionIsSeq
<1>3. \A i \in 1 .. n : /\ To(ws[i], field, a) <=> field = "count" /\ a = 0
                        /\ Value(ws[i]) = c - i
  BY <1>1, PutTo
<1>4. CASE field = "count" /\ a = 0
  <2>1. /\ n \in 1 .. Len(ws) /\ To(ws[n], field, a)
        /\ \A j \in 1 .. Len(ws) : j > n => ~ To(ws[j], field, a)
    BY <1>2, <1>3, <1>4
  <2>2. Word(ws, field, a, old) = Value(ws[n])
    BY <1>2, <2>1, WordLast
  <2> QED
    BY <1>2, <1>3, <1>4, <2>2 DEF ws
<1>5. CASE ~ (field = "count" /\ a = 0)
  <2>1. \A j \in 1 .. Len(ws) : ~ To(ws[j], field, a)
    BY <1>2, <1>3, <1>5
  <2>2. Word(ws, field, a, old) = old
    BY <2>1, WordNone
  <2> QED
    BY <1>2, <1>5, <2>2 DEF ws
<1> QED
  BY <1>4, <1>5

LEMMA AfterWords ==
  ASSUME NEW r, NEW ws, NEW s, s = After(r, ws)
  PROVE  /\ s.magic = Word(ws, "magic", 0, r.magic)
         /\ s.loc = Word(ws, "loc", 0, r.loc)
         /\ s.count = Word(ws, "count", 0, r.count)
         /\ s.head = Word(ws, "head", 0, r.head)
         /\ s.tail = Word(ws, "tail", 0, r.tail)
         /\ s.head_t = Word(ws, "head_t", 0, r.head_t)
         /\ s.tail_t = Word(ws, "tail_t", 0, r.tail_t)
         /\ \A a \in Slots : s.mem[a] = Word(ws, "mem", a, r.mem[a])
BY DEF After
----------------------------------------------------------------------------
(* What the operations leave in memory.                                    *)

\* Storages with their tag slots, as rtcfifo_prepare sets them.
Locs == { <<st[1], st[2], n>> : st \in Storages \cup {<<DefaultBegin, DefaultEnd>>},
                                n \in SensorCounts }

LEMMA LocFacts ==
  ASSUME NEW l \in Locs
  PROVE  /\ l[1] \in Nat /\ l[2] \in Nat /\ l[3] \in Nat /\ l[3] >= 1
         /\ l[3] <= TagMod
         /\ l[1] + l[3] < l[2]
         /\ \A a \in Int : l[1] <= a /\ a < l[2] => a \in Slots
         /\ l[1] <= DefaultBegin /\ DefaultBegin + l[3] < l[2]
<1>1. PICK st \in Storages \cup {<<DefaultBegin, DefaultEnd>>}, n \in SensorCounts :
        l = <<st[1], st[2], n>>
  BY DEF Locs
<1>2. l[1] = st[1] /\ l[2] = st[2] /\ l[3] = n
  BY <1>1
<1>3. n \in Nat /\ n >= 1 /\ n <= TagMod
  BY SlotsAssumption, FieldsAssumption DEF Fields
<1>4. st[1] \in Nat /\ st[2] \in Nat
  BY SlotsAssumption
<1>5. st[1] <= DefaultBegin /\ DefaultBegin + n < st[2]
  BY SlotsAssumption
<1>6. \A a \in st[1] .. st[2] - 1 : a \in Slots
  BY SlotsAssumption
<1> QED
  BY <1>2, <1>3, <1>4, <1>5, <1>6, SlotsAssumption

\* s has the same words as r where nothing else is said.
SameControl(r, s) == s.magic = r.magic /\ s.loc = r.loc
SameSlots(r, s) == \A a \in Slots : s.mem[a] = r.mem[a]

\* rtc_fifo_clear_content, as computed for the memory q.
LEMMA AfterClear ==
  ASSUME NEW r, NEW q, rtc_fifo_get_tagpos(q) \in Int, rtc_fifo_get_tagcount(q) \in Nat,
         NEW s, s = After(r, rtc_fifo_clear_content(q))
  PROVE  /\ IsSeq(rtc_fifo_clear_content(q))
         /\ SameControl(r, s)
         /\ s.count = 0
         /\ s.head = rtc_fifo_get_first(q) /\ s.tail = rtc_fifo_get_first(q)
         /\ s.head_t = 0 /\ s.tail_t = 0
         /\ \A a \in Slots :
              s.mem[a] = IF a \in rtc_fifo_get_tagpos(q) ..
                                    rtc_fifo_get_tagpos(q) + rtc_fifo_get_tagcount(q) - 1
                           THEN 0 ELSE r.mem[a]
<1> DEFINE first == rtc_fifo_get_first(q)
           p     == rtc_fifo_get_tagpos(q)
           n     == rtc_fifo_get_tagcount(q)
           x     == <<Put("tail", first), Put("head", first), Put("count", 0),
                      Put("tail_t", 0), Put("head_t", 0)>>
           y     == Cleared(p, n)
           ws    == rtc_fifo_clear_content(q)
<1>1. ws = x \o y
  BY DEF rtc_fifo_clear_content, Cleared
<1>2. p \in Int /\ n \in Nat
  OBVIOUS
<1> HIDE DEF first, p, n, ws
<1>3. IsSeq(x) /\ IsSeq(y)
  BY <1>2, WordFive, WordCleared
<1>4. IsSeq(ws)
  BY <1>1, <1>3, SeqConcat
<1>5. \A f, a, old : Word(y, f, a, old) = IF f = "mem" /\ a \in p .. p + n - 1 THEN 0 ELSE old
  BY <1>2, WordCleared
<1>6. \A f, a, old :
        Word(x, f, a, old) = IF a # 0 THEN old
                             ELSE IF f \in {"count", "tail_t", "head_t"} THEN 0
                             ELSE IF f \in {"head", "tail"} THEN first
                             ELSE old
  BY WordFive, PutTo
<1> HIDE DEF x, y
<1>7. \A f, a, old : Word(ws, f, a, old) = Word(y, f, a, Word(x, f, a, old))
  BY <1>1, <1>3, WordConcat
<1>8. /\ \A old : Word(ws, "magic", 0, old) = old
      /\ \A old : Word(ws, "loc", 0, old) = old
      /\ \A old : Word(ws, "count", 0, old) = 0
      /\ \A old : Word(ws, "head", 0, old) = first
      /\ \A old : Word(ws, "tail", 0, old) = first
      /\ \A old : Word(ws, "head_t", 0, old) = 0
      /\ \A old : Word(ws, "tail_t", 0, old) = 0
      /\ \A a, old : Word(ws, "mem", a, old) = IF a \in p .. p + n - 1 THEN 0 ELSE old
  BY <1>5, <1>6, <1>7
<1>9. s = After(r, ws)
  BY DEF ws
<1> QED
  BY <1>4, <1>8, <1>9, AfterWords DEF SameControl, first, p, n, ws
LEMMA AfterNothing ==
  ASSUME NEW r, NEW s, s = After(r, << >>)
  PROVE  /\ IsSeq(<< >>)
         /\ SameControl(r, s) /\ SameSlots(r, s)
         /\ s.count = r.count /\ s.head = r.head /\ s.tail = r.tail
         /\ s.head_t = r.head_t /\ s.tail_t = r.tail_t
<1>1. IsSeq(<< >>) /\ \A f, a, old : Word(<< >>, f, a, old) = old
  BY WordEmpty
<1> QED
  BY <1>1, AfterWords DEF SameControl, SameSlots

\* rtc_fifo_pop_sample, as computed for the memory q.
LEMMA AfterPop ==
  ASSUME NEW r, NEW q, NEW s, s = After(r, rtc_fifo_pop_sample(q))
  PROVE  /\ IsSeq(rtc_fifo_pop_sample(q))
         /\ SameControl(r, s) /\ SameSlots(r, s)
         /\ s.tail = r.tail /\ s.tail_t = r.tail_t
         /\ s.head = rtc_fifo_normalise_index(q, q.head + 1)
         /\ s.head_t = (q.head_t + rtc_fifo_get_deltat(q.mem[q.head])) % TimeMod
         /\ s.count = q.count - 1
<1> DEFINE h  == rtc_fifo_normalise_index(q, q.head + 1)
           ht == (q.head_t + rtc_fifo_get_deltat(q.mem[q.head])) % TimeMod
           c  == q.count - 1
           ws == rtc_fifo_pop_sample(q)
<1>1. ws = <<Put("head", h), Put("head_t", ht), Put("count", c)>>
  BY DEF rtc_fifo_pop_sample
<1>2. s = After(r, ws)
  OBVIOUS
<1> HIDE DEF h, ht, c, ws
<1>3. /\ IsSeq(ws)
      /\ \A f, a, old : Word(ws, f, a, old) = IF a # 0 THEN old
                                              ELSE IF f = "count" THEN c
                                              ELSE IF f = "head_t" THEN ht
                                              ELSE IF f = "head" THEN h ELSE old
  BY <1>1, WordThree, PutTo
<1>4. \A a, old : Word(ws, "mem", a, old) = old
  BY <1>3
<1> QED
  BY <1>2, <1>3, <1>4, AfterWords DEF SameControl, SameSlots, h, ht, c, ws

\* StoreEntry, as computed for the memory q.
LEMMA AfterEntry ==
  ASSUME NEW r, NEW q, NEW smp, NEW t, NEW ti, NEW dt,
         NEW s, s = After(r, StoreEntry(q, smp, t, ti, dt))
  PROVE  /\ IsSeq(StoreEntry(q, smp, t, ti, dt))
         /\ SameControl(r, s)
         /\ s.head = r.head /\ s.head_t = r.head_t
         /\ s.tail = rtc_fifo_normalise_index(q, q.tail + 1)
         /\ s.tail_t = t
         /\ s.count = q.count + 1
         /\ \A a \in Slots :
              s.mem[a] = IF a = q.tail
                           THEN rtc_fifo_construct_entry(smp.value, ti, smp.decimals, dt)
                           ELSE r.mem[a]
<1> DEFINE e  == rtc_fifo_construct_entry(smp.value, ti, smp.decimals, dt)
           h  == rtc_fifo_normalise_index(q, q.tail + 1)
           c  == q.count + 1
           ws == StoreEntry(q, smp, t, ti, dt)
<1>1. ws = <<rtc_mem_write(q.tail, e), Put("tail", h), Put("tail_t", t), Put("count", c)>>
  BY DEF StoreEntry
<1>2. s = After(r, ws)
  OBVIOUS
<1> HIDE DEF e, h, c, ws
<1>3. /\ IsSeq(ws)
      /\ \A f, a, old : Word(ws, f, a, old) = IF f = "count" /\ a = 0 THEN c
                                              ELSE IF f = "tail_t" /\ a = 0 THEN t
                                              ELSE IF f = "tail" /\ a = 0 THEN h
                                              ELSE IF f = "mem" /\ a = q.tail THEN e
                                              ELSE old
  BY <1>1, WordFour, PutTo, WriteTo
<1>4. \A a, old : Word(ws, "mem", a, old) = IF a = q.tail THEN e ELSE old
  BY <1>3
<1> QED
  BY <1>2, <1>3, <1>4, AfterWords DEF SameControl, e, h, c, ws

\* The time base of a first sample.
LEMMA AfterBase ==
  ASSUME NEW r, NEW t, NEW s, s = After(r, <<Put("head_t", t), Put("tail_t", t)>>)
  PROVE  /\ IsSeq(<<Put("head_t", t), Put("tail_t", t)>>)
         /\ SameControl(r, s) /\ SameSlots(r, s)
         /\ s.count = r.count /\ s.head = r.head /\ s.tail = r.tail
         /\ s.head_t = t /\ s.tail_t = t
<1> DEFINE ws == <<Put("head_t", t), Put("tail_t", t)>>
<1>1. /\ IsSeq(ws)
      /\ \A f, a, old : Word(ws, f, a, old) = IF a # 0 THEN old
                                              ELSE IF f \in {"head_t", "tail_t"} THEN t
                                              ELSE old
  BY WordTwo, PutTo
<1>2. s = After(r, ws)
  OBVIOUS
<1> HIDE DEF ws
<1>3. \A a, old : Word(ws, "mem", a, old) = old
  BY <1>1
<1> QED
  BY <1>1, <1>2, <1>3, AfterWords DEF SameControl, SameSlots, ws

\* The name of a sensor.
LEMMA AfterName ==
  ASSUME NEW r, NEW b, NEW tag, NEW s, s = After(r, <<rtc_mem_write(b, tag)>>)
  PROVE  /\ IsSeq(<<rtc_mem_write(b, tag)>>)
         /\ SameControl(r, s)
         /\ s.count = r.count /\ s.head = r.head /\ s.tail = r.tail
         /\ s.head_t = r.head_t /\ s.tail_t = r.tail_t
         /\ \A a \in Slots : s.mem[a] = IF a = b THEN tag ELSE r.mem[a]
<1> DEFINE ws == <<rtc_mem_write(b, tag)>>
<1>1. /\ IsSeq(ws)
      /\ \A f, a, old : Word(ws, f, a, old) = IF f = "mem" /\ a = b THEN tag ELSE old
  BY WordOne, WriteTo
<1>2. s = After(r, ws)
  OBVIOUS
<1> HIDE DEF ws
<1> QED
  BY <1>1, <1>2, AfterWords DEF SameControl, ws

LEMMA AfterDrop ==
  ASSUME NEW r, NEW n \in Nat, n > 0, NEW s, s = After(r, rtc_fifo_drop_samples(r, n))
  PROVE  /\ IsSeq(rtc_fifo_drop_samples(r, n))
         /\ SameControl(r, s) /\ SameSlots(r, s)
         /\ s.tail = r.tail /\ s.tail_t = r.tail_t
         /\ s.head = SlotOf(r)[n] /\ s.head_t = TimeOf(r)[n - 1]
         /\ s.count = r.count - n
<1> DEFINE h  == SlotOf(r)[n]
           ht == TimeOf(r)[n - 1]
           x  == Counts(r.count, n)
           y  == <<Put("head", h), Put("head_t", ht)>>
           ws == rtc_fifo_drop_samples(r, n)
<1>1. ws = x \o y
  BY DEF rtc_fifo_drop_samples, Counts
<1>2. s = After(r, ws)
  OBVIOUS
<1> HIDE DEF h, ht, ws
<1>3. IsSeq(x) /\ IsSeq(y)
  BY WordTwo, WordCounts
<1>4. IsSeq(ws)
  BY <1>1, <1>3, SeqConcat
<1>5. \A f, a, old : Word(x, f, a, old) = IF f = "count" /\ a = 0 THEN r.count - n ELSE old
  BY WordCounts
<1>6. \A f, a, old : Word(y, f, a, old) = IF f = "head_t" /\ a = 0 THEN ht
                                          ELSE IF f = "head" /\ a = 0 THEN h ELSE old
  BY WordTwo, PutTo
<1> HIDE DEF x, y
<1>7. \A f, a, old : Word(ws, f, a, old) = Word(y, f, a, Word(x, f, a, old))
  BY <1>1, <1>3, WordConcat
<1>8. \A f, a, old : Word(ws, f, a, old) = IF f = "head_t" /\ a = 0 THEN ht
                                           ELSE IF f = "head" /\ a = 0 THEN h
                                           ELSE IF f = "count" /\ a = 0 THEN r.count - n
                                           ELSE old
  BY <1>5, <1>6, <1>7
<1>9. \A a, old : Word(ws, "mem", a, old) = old
  BY <1>8
<1> QED
  BY <1>2, <1>4, <1>8, <1>9, AfterWords DEF SameControl, SameSlots, h, ht, ws
\* The index of a tag is the first slot with its name or none.
LEMMA TagIndex ==
  ASSUME NEW r, NEW tag, r.loc \in Locs, NEW ti, ti = rtc_fifo_find_tag_index(r, tag)
  PROVE  /\ ti \in Int
         /\ ti < 0 => /\ ti = -1
                      /\ \A i \in 0 .. r.loc[3] - 1 : r.mem[r.loc[1] + i] \notin {tag, 0}
         /\ ti >= 0 => /\ ti \in 0 .. r.loc[3] - 1 /\ r.mem[r.loc[1] + ti] \in {tag, 0}
                       /\ \A i \in 0 .. ti - 1 : r.mem[r.loc[1] + i] \notin {tag, 0}
<1> DEFINE U == { i \in 0 .. r.loc[3] - 1 : r.mem[r.loc[1] + i] \in {tag, 0} }
<1>1. ti = IF U = {} THEN -1 ELSE Min(U)
  BY DEF rtc_fifo_find_tag_index, rtc_fifo_get_tagcount, rtc_fifo_get_tagpos
<1>2. r.loc[3] \in Nat
  BY LocFacts
<1>3. CASE U = {}
  BY <1>1, <1>3
<1>4. CASE U # {}
  <2>1. U \in SUBSET Nat
    BY <1>2
  <2>2. \E x \in U : \A y \in U : x <= y
    BY <1>4, <2>1, LeastNat
  <2> HIDE DEF U
  <2>3. ti \in U /\ \A y \in U : ti <= y
    BY <1>1, <1>4, <2>2 DEF Min
  <2>4. ti \in 0 .. r.loc[3] - 1 /\ r.mem[r.loc[1] + ti] \in {tag, 0}
    BY <2>3 DEF U
  <2>5. \A i \in 0 .. ti - 1 : i \notin U /\ i \in 0 .. r.loc[3] - 1
    BY <1>2, <2>3, <2>4
  <2>6. \A i \in 0 .. ti - 1 : r.mem[r.loc[1] + i] \notin {tag, 0}
    BY <2>5 DEF U
  <2> QED
    BY <1>2, <2>4, <2>6
<1> QED
  BY <1>3, <1>4

\* TagWrite: a free slot gets the name.
LEMMA AfterTag ==
  ASSUME NEW r, NEW tag, NEW ti, NEW s, s = After(r, TagWrite(r, tag, ti))
  PROVE  /\ IsSeq(TagWrite(r, tag, ti))
         /\ SameControl(r, s)
         /\ s.count = r.count /\ s.head = r.head /\ s.tail = r.tail
         /\ s.head_t = r.head_t /\ s.tail_t = r.tail_t
         /\ \A a \in Slots :
              s.mem[a] = IF a = r.loc[1] + ti /\ ti >= 0 /\ r.mem[a] = 0
                           THEN tag ELSE r.mem[a]
<1>1. CASE ti >= 0 /\ r.mem[r.loc[1] + ti] = 0
  <2>1. TagWrite(r, tag, ti) = <<rtc_mem_write(r.loc[1] + ti, tag)>>
    BY <1>1 DEF TagWrite, rtc_fifo_get_tagpos
  <2>2. /\ IsSeq(TagWrite(r, tag, ti))
        /\ SameControl(r, s)
        /\ s.count = r.count /\ s.head = r.head /\ s.tail = r.tail
        /\ s.head_t = r.head_t /\ s.tail_t = r.tail_t
    BY <2>1, AfterName
  <2>3. \A a \in Slots : s.mem[a] = IF a = r.loc[1] + ti THEN tag ELSE r.mem[a]
    BY <2>1, AfterName
  <2> QED
    BY <1>1, <2>2, <2>3
<1>2. CASE ~ (ti >= 0 /\ r.mem[r.loc[1] + ti] = 0)
  <2>1. TagWrite(r, tag, ti) = << >>
    BY <1>2 DEF TagWrite, rtc_fifo_get_tagpos
  <2>2. /\ IsSeq(TagWrite(r, tag, ti))
        /\ SameControl(r, s)
        /\ s.count = r.count /\ s.head = r.head /\ s.tail = r.tail
        /\ s.head_t = r.head_t /\ s.tail_t = r.tail_t
    BY <2>1, AfterNothing
  <2>3. \A a \in Slots : s.mem[a] = r.mem[a]
    BY <2>1, AfterNothing DEF SameSlots
  <2> QED
    BY <1>2, <2>2, <2>3
<1> QED
  BY <1>1, <1>2

Evicts(r) == r.head = r.tail /\ r.count > 0

\* The parts of rtc_fifo_store_sample that are left out or not.
BaseWrites(r, t) == IF r.count = 0 THEN <<Put("head_t", t), Put("tail_t", t)>> ELSE << >>
EvictWrites(r) == IF Evicts(r) THEN rtc_fifo_pop_sample(r) ELSE << >>
Deltat(r, t) == IF r.count = 0 THEN 0 ELSE rtc_fifo_delta_t(t, r.tail_t)

LEMMA AfterBaseWrites ==
  ASSUME NEW r, NEW q, NEW t, NEW s, s = After(r, BaseWrites(q, t))
  PROVE  /\ IsSeq(BaseWrites(q, t))
         /\ SameControl(r, s) /\ SameSlots(r, s)
         /\ s.count = r.count /\ s.head = r.head /\ s.tail = r.tail
         /\ s.head_t = IF q.count = 0 THEN t ELSE r.head_t
         /\ s.tail_t = IF q.count = 0 THEN t ELSE r.tail_t
<1>1. CASE q.count = 0
  BY <1>1, AfterBase DEF BaseWrites
<1>2. CASE q.count # 0
  BY <1>2, AfterNothing DEF BaseWrites
<1> QED
  BY <1>1, <1>2

LEMMA AfterEvictWrites ==
  ASSUME NEW r, NEW q, NEW s, s = After(r, EvictWrites(q))
  PROVE  /\ IsSeq(EvictWrites(q))
         /\ SameControl(r, s) /\ SameSlots(r, s)
         /\ s.tail = r.tail /\ s.tail_t = r.tail_t
         /\ s.head = IF Evicts(q) THEN rtc_fifo_normalise_index(q, q.head + 1) ELSE r.head
         /\ s.head_t = IF Evicts(q)
                         THEN (q.head_t + rtc_fifo_get_deltat(q.mem[q.head])) % TimeMod
                         ELSE r.head_t
         /\ s.count = IF Evicts(q) THEN q.count - 1 ELSE r.count
<1>1. CASE Evicts(q)
  BY <1>1, AfterPop DEF EvictWrites
<1>2. CASE ~ Evicts(q)
  BY <1>2, AfterNothing DEF EvictWrites
<1> QED
  BY <1>1, <1>2

LEMMA SameNormalise ==
  ASSUME NEW r, NEW s, s.loc = r.loc, NEW i
  PROVE  /\ rtc_fifo_normalise_index(s, i) = rtc_fifo_normalise_index(r, i)
         /\ rtc_fifo_get_first(s) = rtc_fifo_get_first(r)
         /\ rtc_fifo_get_tagpos(s) = rtc_fifo_get_tagpos(r)
         /\ rtc_fifo_get_tagcount(s) = rtc_fifo_get_tagcount(r)
BY DEF rtc_fifo_normalise_index, rtc_fifo_get_last, rtc_fifo_get_first,
       rtc_fifo_get_tagpos, rtc_fifo_get_tagcount

\* A sample that fits.
LEMMA AfterFit ==
  ASSUME NEW r, NEW smp, NEW t, ~ Misfit(r, smp, t), r.count \in Int,
         NEW ti, ti = rtc_fifo_find_tag_index(r, smp.tag),
         NEW s, s = After(r, rtc_fifo_store_sample(r, smp, t))
  PROVE  /\ IsSeq(rtc_fifo_store_sample(r, smp, t))
         /\ SameControl(r, s)
         /\ s.head = IF Evicts(r) THEN rtc_fifo_normalise_index(r, r.head + 1) ELSE r.head
         /\ s.head_t = IF Evicts(r)
                         THEN (r.head_t + rtc_fifo_get_deltat(r.mem[r.head])) % TimeMod
                       ELSE IF r.count = 0 THEN t ELSE r.head_t
         /\ s.tail = rtc_fifo_normalise_index(r, r.tail + 1)
         /\ s.tail_t = t
         /\ s.count = IF Evicts(r) THEN r.count ELSE r.count + 1
         /\ \A a \in Slots :
              s.mem[a] = IF a = r.tail
                           THEN rtc_fifo_construct_entry(smp.value, ti, smp.decimals,
                                                         Deltat(r, t))
                         ELSE IF a = r.loc[1] + ti /\ ti >= 0 /\ r.mem[a] = 0 THEN smp.tag
                         ELSE r.mem[a]
<1> DEFINE w1 == TagWrite(r, smp.tag, ti)
           w2 == BaseWrites(r, t)
           w3 == EvictWrites(r)
           q  == After(r, w3)
           w4 == StoreEntry(q, smp, t, ti, Deltat(r, t))
           s1 == After(r, w1)
           s2 == After(s1, w2)
           s3 == After(s2, w3)
           s4 == After(s3, w4)
<1>1. rtc_fifo_store_sample(r, smp, t) = w1 \o w2 \o w3 \o w4
  BY DEF rtc_fifo_store_sample, BaseWrites, EvictWrites, Evicts, Deltat
<1>2. IsSeq(w1) /\ IsSeq(w2) /\ IsSeq(w3) /\ IsSeq(w4)
  BY AfterTag, AfterBaseWrites, AfterEvictWrites, AfterEntry
<1> HIDE DEF w1, w2, w3, w4
<1>3. IsSeq(w1 \o w2) /\ IsSeq(w1 \o w2 \o w3) /\ IsSeq(w1 \o w2 \o w3 \o w4)
  BY <1>2, SeqConcat
<1>4. s = s4
  BY <1>1, <1>2, <1>3, AfterConcat
<1> HIDE DEF q, s1, s2, s3, s4
<1>5. q.loc = r.loc /\ q.tail = r.tail /\ q.count = IF Evicts(r) THEN r.count - 1 ELSE r.count
  BY AfterEvictWrites DEF q, w3, SameControl
<1>6. /\ SameControl(r, s1)
      /\ s1.count = r.count /\ s1.head = r.head /\ s1.tail = r.tail
      /\ s1.head_t = r.head_t /\ s1.tail_t = r.tail_t
      /\ \A a \in Slots :
           s1.mem[a] = IF a = r.loc[1] + ti /\ ti >= 0 /\ r.mem[a] = 0
                         THEN smp.tag ELSE r.mem[a]
  BY AfterTag DEF s1, w1
<1>7. /\ SameControl(s1, s2) /\ SameSlots(s1, s2)
      /\ s2.count = s1.count /\ s2.head = s1.head /\ s2.tail = s1.tail
      /\ s2.head_t = IF r.count = 0 THEN t ELSE s1.head_t
      /\ s2.tail_t = IF r.count = 0 THEN t ELSE s1.tail_t
  BY AfterBaseWrites DEF s2, w2
<1>8. /\ SameControl(s2, s3) /\ SameSlots(s2, s3)
      /\ s3.tail = s2.tail /\ s3.tail_t = s2.tail_t
      /\ s3.head = IF Evicts(r) THEN rtc_fifo_normalise_index(r, r.head + 1) ELSE s2.head
      /\ s3.head_t = IF Evicts(r)
                       THEN (r.head_t + rtc_fifo_get_deltat(r.mem[r.head])) % TimeMod
                       ELSE s2.head_t
  BY AfterEvictWrites DEF s3, w3
<1>9. /\ SameControl(s3, s4)
      /\ s4.head = s3.head /\ s4.head_t = s3.head_t
      /\ s4.tail = rtc_fifo_normalise_index(q, q.tail + 1)
      /\ s4.tail_t = t
      /\ s4.count = q.count + 1
      /\ \A a \in Slots :
           s4.mem[a] = IF a = q.tail
                         THEN rtc_fifo_construct_entry(smp.value, ti, smp.decimals,
                                                       Deltat(r, t))
                         ELSE s3.mem[a]
  BY AfterEntry DEF s4, w4
<1>10. SameControl(r, s4)
  BY <1>6, <1>7, <1>8, <1>9 DEF SameControl
<1>11. s4.tail = rtc_fifo_normalise_index(r, r.tail + 1)
  BY <1>5, <1>9, SameNormalise
<1>12. s4.count = IF Evicts(r) THEN r.count ELSE r.count + 1
  BY <1>5, <1>9
<1>13. \A a \in Slots :
         s4.mem[a] = IF a = r.tail
                       THEN rtc_fifo_construct_entry(smp.value, ti, smp.decimals,
                                                     Deltat(r, t))
                     ELSE IF a = r.loc[1] + ti /\ ti >= 0 /\ r.mem[a] = 0 THEN smp.tag
                     ELSE r.mem[a]
  BY <1>5, <1>6, <1>7, <1>8, <1>9 DEF SameSlots
<1>14. /\ s4.head = IF Evicts(r) THEN rtc_fifo_normalise_index(r, r.head + 1) ELSE r.head
       /\ s4.head_t = IF Evicts(r)
                        THEN (r.head_t + rtc_fifo_get_deltat(r.mem[r.head])) % TimeMod
                      ELSE IF r.count = 0 THEN t ELSE r.head_t
  BY <1>6, <1>7, <1>8, <1>9
<1> QED
  BY <1>1, <1>3, <1>4, <1>9, <1>10, <1>11, <1>12, <1>13, <1>14
\* The store is emptied for a sample that does not fit.
ClearWrites(r, smp, t) ==
  rtc_fifo_clear_content(r)
    \o <<Put("head_t", t), Put("tail_t", t)>>
    \o <<rtc_mem_write(rtc_fifo_get_tagpos(r), smp.tag)>>

LEMMA AfterClearWrites ==
  ASSUME NEW r, NEW q, NEW smp, NEW t, q.loc \in Locs,
         NEW s, s = After(r, ClearWrites(q, smp, t))
  PROVE  /\ IsSeq(ClearWrites(q, smp, t))
         /\ SameControl(r, s)
         /\ s.count = 0
         /\ s.head = rtc_fifo_get_first(q) /\ s.tail = rtc_fifo_get_first(q)
         /\ s.head_t = t /\ s.tail_t = t
         /\ \A a \in Slots :
              s.mem[a] = IF a = q.loc[1] THEN smp.tag
                         ELSE IF a \in q.loc[1] .. q.loc[1] + q.loc[3] - 1 THEN 0
                         ELSE r.mem[a]
<1> DEFINE w1 == rtc_fifo_clear_content(q)
           w2 == <<Put("head_t", t), Put("tail_t", t)>>
           w3 == <<rtc_mem_write(q.loc[1], smp.tag)>>
           s1 == After(r, w1)
           s2 == After(s1, w2)
           s3 == After(s2, w3)
<1>1. ClearWrites(q, smp, t) = w1 \o w2 \o w3
  BY DEF ClearWrites, rtc_fifo_get_tagpos
<1>2. /\ q.loc[1] \in Int /\ q.loc[3] \in Nat
      /\ rtc_fifo_get_tagpos(q) = q.loc[1] /\ rtc_fifo_get_tagcount(q) = q.loc[3]
  BY LocFacts DEF rtc_fifo_get_tagpos, rtc_fifo_get_tagcount
<1>3. IsSeq(w1) /\ IsSeq(w2) /\ IsSeq(w3)
  BY <1>2, AfterClear, AfterBase, AfterName
<1> HIDE DEF w1, w2, w3
<1>4. IsSeq(w1 \o w2) /\ IsSeq(w1 \o w2 \o w3)
  BY <1>3, SeqConcat
<1>5. s = s3
  BY <1>1, <1>3, <1>4, AfterConcat
<1> HIDE DEF s1, s2, s3
<1>6. /\ SameControl(r, s1) /\ s1.count = 0
      /\ s1.head = rtc_fifo_get_first(q) /\ s1.tail = rtc_fifo_get_first(q)
      /\ \A a \in Slots :
           s1.mem[a] = IF a \in q.loc[1] .. q.loc[1] + q.loc[3] - 1 THEN 0 ELSE r.mem[a]
  <2>1. rtc_fifo_get_tagpos(q) \in Int /\ rtc_fifo_get_tagcount(q) \in Nat
    BY <1>2
  <2>2. s1 = After(r, rtc_fifo_clear_content(q))
    BY DEF s1, w1
  <2> QED
    BY <1>2, <2>1, <2>2, AfterClear
<1>7. /\ SameControl(s1, s2) /\ SameSlots(s1, s2)
      /\ s2.count = s1.count /\ s2.head = s1.head /\ s2.tail = s1.tail
      /\ s2.head_t = t /\ s2.tail_t = t
  BY AfterBase DEF s2, w2
<1>8. /\ SameControl(s2, s3)
      /\ s3.count = s2.count /\ s3.head = s2.head /\ s3.tail = s2.tail
      /\ s3.head_t = s2.head_t /\ s3.tail_t = s2.tail_t
      /\ \A a \in Slots : s3.mem[a] = IF a = q.loc[1] THEN smp.tag ELSE s2.mem[a]
  BY AfterName DEF s3, w3
<1>9. SameControl(r, s3)
  BY <1>6, <1>7, <1>8 DEF SameControl
<1>10. \A a \in Slots :
         s3.mem[a] = IF a = q.loc[1] THEN smp.tag
                     ELSE IF a \in q.loc[1] .. q.loc[1] + q.loc[3] - 1 THEN 0
                     ELSE r.mem[a]
  BY <1>6, <1>7, <1>8 DEF SameSlots
<1> QED
  BY <1>1, <1>4, <1>5, <1>6, <1>7, <1>8, <1>9, <1>10

\* A sample that does not fit.
LEMMA AfterMisfit ==
  ASSUME NEW r, NEW smp, NEW t, Misfit(r, smp, t), r.loc \in Locs,
         NEW s, s = After(r, rtc_fifo_store_sample(r, smp, t))
  PROVE  /\ IsSeq(rtc_fifo_store_sample(r, smp, t))
         /\ SameControl(r, s)
         /\ s.head = rtc_fifo_get_first(r) /\ s.head_t = t
         /\ s.tail = rtc_fifo_normalise_index(r, rtc_fifo_get_first(r) + 1)
         /\ s.tail_t = t
         /\ s.count = 1
         /\ \A a \in Slots :
              s.mem[a] = IF a = rtc_fifo_get_first(r)
                           THEN rtc_fifo_construct_entry(smp.value, 0, smp.decimals,
                                                         Deltat(r, t))
                         ELSE IF a = r.loc[1] THEN smp.tag
                         ELSE IF a \in r.loc[1] .. r.loc[1] + r.loc[3] - 1 THEN 0
                         ELSE r.mem[a]
<1> DEFINE ti == rtc_fifo_find_tag_index(r, smp.tag)
           w1 == TagWrite(r, smp.tag, ti)
           w2 == BaseWrites(r, t)
           w3 == ClearWrites(r, smp, t)
           q  == After(r, w3)
           w4 == StoreEntry(q, smp, t, 0, Deltat(r, t))
           s1 == After(r, w1)
           s2 == After(s1, w2)
           s3 == After(s2, w3)
           s4 == After(s3, w4)
<1>1. rtc_fifo_store_sample(r, smp, t) = w1 \o w2 \o w3 \o w4
  BY DEF rtc_fifo_store_sample, BaseWrites, ClearWrites, Deltat
<1>2. IsSeq(w1) /\ IsSeq(w2) /\ IsSeq(w3) /\ IsSeq(w4)
  <2>1. IsSeq(w3)
    BY AfterClearWrites
  <2>2. IsSeq(w1) /\ IsSeq(w2) /\ IsSeq(w4)
    BY AfterTag, AfterBaseWrites, AfterEntry
  <2> QED
    BY <2>1, <2>2
<1>3. /\ r.loc[1] \in Int /\ r.loc[3] \in Nat
      /\ ti \in Int /\ (ti >= 0 => ti \in 0 .. r.loc[3] - 1)
  BY LocFacts, TagIndex
<1> HIDE DEF ti, w1, w2, w3, w4
<1>4. IsSeq(w1 \o w2) /\ IsSeq(w1 \o w2 \o w3) /\ IsSeq(w1 \o w2 \o w3 \o w4)
  BY <1>2, SeqConcat
<1>5. s = s4
  BY <1>1, <1>2, <1>4, AfterConcat
<1> HIDE DEF q, s1, s2, s3, s4
<1>6. q.loc = r.loc /\ q.tail = rtc_fifo_get_first(r) /\ q.count = 0
  BY AfterClearWrites DEF q, w3, SameControl
<1>7. /\ SameControl(r, s1)
      /\ \A a \in Slots :
           s1.mem[a] = IF a = r.loc[1] + ti /\ ti >= 0 /\ r.mem[a] = 0
                         THEN smp.tag ELSE r.mem[a]
  BY AfterTag DEF s1, w1
<1>8. SameControl(s1, s2) /\ SameSlots(s1, s2)
  BY AfterBaseWrites DEF s2, w2
<1>9. /\ SameControl(s2, s3)
      /\ s3.head = rtc_fifo_get_first(r) /\ s3.head_t = t
      /\ \A a \in Slots :
           s3.mem[a] = IF a = r.loc[1] THEN smp.tag
                       ELSE IF a \in r.loc[1] .. r.loc[1] + r.loc[3] - 1 THEN 0
                       ELSE s2.mem[a]
  BY AfterClearWrites DEF s3, w3
<1>10. /\ SameControl(s3, s4)
       /\ s4.head = s3.head /\ s4.head_t = s3.head_t
       /\ s4.tail = rtc_fifo_normalise_index(q, q.tail + 1)
       /\ s4.tail_t = t
       /\ s4.count = q.count + 1
       /\ \A a \in Slots :
            s4.mem[a] = IF a = q.tail
                          THEN rtc_fifo_construct_entry(smp.value, 0, smp.decimals,
                                                        Deltat(r, t))
                          ELSE s3.mem[a]
  BY AfterEntry DEF s4, w4
<1>11. SameControl(r, s4)
  BY <1>7, <1>8, <1>9, <1>10 DEF SameControl
<1>12. s4.tail = rtc_fifo_normalise_index(r, rtc_fifo_get_first(r) + 1)
  BY <1>6, <1>10, SameNormalise
<1>13. \A a \in Slots : a \notin r.loc[1] .. r.loc[1] + r.loc[3] - 1 => s2.mem[a] = r.mem[a]
  <2>1. ti >= 0 => r.loc[1] + ti \in r.loc[1] .. r.loc[1] + r.loc[3] - 1
    BY <1>3
  <2> QED
    BY <1>7, <1>8, <2>1 DEF SameSlots
<1>14. \A a \in Slots :
         s4.mem[a] = IF a = rtc_fifo_get_first(r)
                       THEN rtc_fifo_construct_entry(smp.value, 0, smp.decimals,
                                                     Deltat(r, t))
                     ELSE IF a = r.loc[1] THEN smp.tag
                     ELSE IF a \in r.loc[1] .. r.loc[1] + r.loc[3] - 1 THEN 0
                     ELSE r.mem[a]
  BY <1>6, <1>9, <1>10, <1>13
<1>15. s4.count = 1
  BY <1>6, <1>10
<1> QED
  BY <1>1, <1>4, <1>5, <1>9, <1>10, <1>11, <1>12, <1>14, <1>15
LEMMA AfterPut ==
  ASSUME NEW r, NEW f, f # "mem", NEW v, NEW s, s = After(r, <<Put(f, v)>>)
  PROVE  /\ IsSeq(<<Put(f, v)>>)
         /\ s.magic = IF f = "magic" THEN v ELSE r.magic
         /\ s.loc = IF f = "loc" THEN v ELSE r.loc
         /\ s.count = IF f = "count" THEN v ELSE r.count
         /\ s.head = IF f = "head" THEN v ELSE r.head
         /\ s.tail = IF f = "tail" THEN v ELSE r.tail
         /\ s.head_t = IF f = "head_t" THEN v ELSE r.head_t
         /\ s.tail_t = IF f = "tail_t" THEN v ELSE r.tail_t
         /\ SameSlots(r, s)
<1> DEFINE ws == <<Put(f, v)>>
<1>1. /\ IsSeq(ws)
      /\ \A g, a, old : Word(ws, g, a, old) = IF g = f /\ a = 0 THEN v ELSE old
  BY WordOne, PutTo
<1>2. s = After(r, ws)
  OBVIOUS
<1> HIDE DEF ws
<1> QED
  BY <1>1, <1>2, AfterWords DEF SameSlots, ws

\* The location the last write of rtcfifo_prepare leaves.
Final(n, other) == IF other = << >> THEN <<DefaultBegin, DefaultEnd, n>> ELSE other[1].v

LEMMA OtherWrites ==
  ASSUME NEW n \in SensorCounts, NEW other \in OtherStorage(n)
  PROVE  /\ <<DefaultBegin, DefaultEnd, n>> \in Locs
         /\ Final(n, other) \in Locs /\ Final(n, other)[3] = n
         /\ other = << >> \/ other = <<Put("loc", Final(n, other))>>
<1>1. <<DefaultBegin, DefaultEnd, n>> \in Locs
  <2> DEFINE st == <<DefaultBegin, DefaultEnd>>
  <2>1. st[1] = DefaultBegin /\ st[2] = DefaultEnd
    OBVIOUS
  <2>2. st \in Storages \cup {<<DefaultBegin, DefaultEnd>>}
    OBVIOUS
  <2> HIDE DEF st
  <2>3. <<st[1], st[2], n>> \in Locs
    BY <2>2 DEF Locs
  <2> QED
    BY <2>1, <2>3
<1>2. CASE other = << >>
  BY <1>1, <1>2 DEF Final
<1>3. CASE other # << >>
  <2>1. PICK st \in Storages : other = <<Put("loc", <<st[1], st[2], n>>)>>
    BY <1>3 DEF OtherStorage
  <2>2. other[1].v = <<st[1], st[2], n>>
    BY <2>1 DEF Put
  <2>3. <<st[1], st[2], n>> \in Locs
    BY DEF Locs
  <2> QED
    BY <1>1, <1>3, <2>1, <2>2, <2>3 DEF Final
<1> QED
  BY <1>2, <1>3

\* rtcfifo_prepare.
LEMMA AfterPrepare ==
  ASSUME NEW r, NEW n \in SensorCounts, NEW other \in OtherStorage(n),
         NEW s, s = After(r, rtcfifo_prepare(r, n, other))
  PROVE  /\ IsSeq(rtcfifo_prepare(r, n, other))
         /\ s.magic = TRUE /\ s.loc = Final(n, other)
         /\ s.count = 0
         /\ s.head = DefaultBegin + n /\ s.tail = DefaultBegin + n
         /\ s.head_t = 0 /\ s.tail_t = 0
         /\ \A a \in Slots : s.mem[a] \in {0, r.mem[a]}
<1> DEFINE loc == <<DefaultBegin, DefaultEnd, n>>
           w1 == <<Put("loc", loc)>>
           s1 == After(r, w1)
           w2 == rtc_fifo_clear_content(s1)
           w3 == <<Put("magic", TRUE)>>
           s2 == After(s1, w2)
           s3 == After(s2, w3)
           s4 == After(s3, other)
<1>1. rtcfifo_prepare(r, n, other) = w1 \o w2 \o w3 \o other
  BY DEF rtcfifo_prepare
<1>2. s1.loc = loc /\ SameSlots(r, s1)
  BY AfterPut
<1>3. loc[1] = DefaultBegin /\ loc[3] = n /\ DefaultBegin \in Int /\ n \in Nat
  BY SlotsAssumption, FieldsAssumption DEF Fields
<1>4. /\ rtc_fifo_get_tagpos(s1) \in Int /\ rtc_fifo_get_tagcount(s1) \in Nat
      /\ rtc_fifo_get_first(s1) = DefaultBegin + n
  BY <1>2, <1>3 DEF rtc_fifo_get_tagpos, rtc_fifo_get_tagcount, rtc_fifo_get_first
<1> HIDE DEF loc, s1
<1>5. IsSeq(w1) /\ IsSeq(w3)
  BY AfterPut
<1>6. IsSeq(w2)
  BY <1>4, AfterClear
<1>7. IsSeq(other)
  BY OtherWrites, AfterPut, AfterNothing
<1> HIDE DEF w1, w2, w3
<1>8. IsSeq(w1 \o w2) /\ IsSeq(w1 \o w2 \o w3) /\ IsSeq(w1 \o w2 \o w3 \o other)
  BY <1>5, <1>6, <1>7, SeqConcat
<1>9. s = s4
  BY <1>1, <1>5, <1>6, <1>7, <1>8, AfterConcat DEF s1
<1> HIDE DEF s2, s3, s4
<1>10. /\ s2.loc = loc /\ s2.count = 0
       /\ s2.head = DefaultBegin + n /\ s2.tail = DefaultBegin + n
       /\ s2.head_t = 0 /\ s2.tail_t = 0
       /\ \A a \in Slots : s2.mem[a] \in {0, s1.mem[a]}
  BY <1>2, <1>4, AfterClear DEF s2, w2, SameControl
<1>11. /\ s3.magic = TRUE /\ s3.loc = s2.loc /\ s3.count = s2.count
       /\ s3.head = s2.head /\ s3.tail = s2.tail
       /\ s3.head_t = s2.head_t /\ s3.tail_t = s2.tail_t
       /\ SameSlots(s2, s3)
  <2> DEFINE v == TRUE
  <2>1. s3 = After(s2, <<Put("magic", v)>>)
    BY Zenon DEF s3, w3
  <2> HIDE DEF v
  <2>2. /\ s3.magic = v /\ s3.loc = s2.loc /\ s3.count = s2.count
        /\ s3.head = s2.head /\ s3.tail = s2.tail
        /\ s3.head_t = s2.head_t /\ s3.tail_t = s2.tail_t
        /\ SameSlots(s2, s3)
    BY <2>1, AfterPut
  <2> QED
    BY <2>2, Zenon DEF v
<1>12. /\ s4.magic = s3.magic /\ s4.count = s3.count
       /\ s4.head = s3.head /\ s4.tail = s3.tail
       /\ s4.head_t = s3.head_t /\ s4.tail_t = s3.tail_t
       /\ SameSlots(s3, s4)
       /\ s4.loc = IF other = << >> THEN s3.loc ELSE Final(n, other)
  <2>1. CASE other = << >>
    BY <2>1, AfterNothing DEF s4, SameControl
  <2>2. CASE other # << >>
    <3>1. s4 = After(s3, <<Put("loc", Final(n, other))>>)
      BY <2>2, OtherWrites DEF s4
    <3> QED
      BY <2>2, <3>1, AfterPut
  <2> QED
    BY <2>1, <2>2
<1>13. s4.loc = Final(n, other)
  BY <1>10, <1>11, <1>12 DEF Final, loc
<1>14. \A a \in Slots : s4.mem[a] \in {0, r.mem[a]}
  BY <1>2, <1>10, <1>11, <1>12 DEF SameSlots
<1> QED
  BY <1>1, <1>8, <1>9, <1>10, <1>11, <1>12, <1>13, <1>14

----------------------------------------------------------------------------
(* The slots of the samples.                                               *)

\* The slots samples are stored in.
Room(l) == l[1] + l[3] .. l[2] - 1

LEMMA RoomFacts ==
  ASSUME NEW r, r.loc \in Locs
  PROVE  /\ rtc_fifo_get_first(r) = r.loc[1] + r.loc[3]
         /\ rtc_fifo_get_last(r) = r.loc[2]
         /\ rtc_fifo_get_first(r) \in Room(r.loc)
         /\ Room(r.loc) \subseteq Slots /\ Room(r.loc) \subseteq Int
         /\ \A i \in Room(r.loc) : rtc_fifo_normalise_index(r, i + 1) \in Room(r.loc)
<1>1. /\ r.loc[1] \in Nat /\ r.loc[2] \in Nat /\ r.loc[3] \in Nat /\ r.loc[3] >= 1
      /\ r.loc[1] + r.loc[3] < r.loc[2]
      /\ \A a \in Int : r.loc[1] <= a /\ a < r.loc[2] => a \in Slots
  BY LocFacts
<1>2. rtc_fifo_get_first(r) = r.loc[1] + r.loc[3] /\ rtc_fifo_get_last(r) = r.loc[2]
  BY DEF rtc_fifo_get_first, rtc_fifo_get_last, rtc_fifo_get_tagpos, rtc_fifo_get_tagcount
<1>3. \A i : rtc_fifo_normalise_index(r, i) =
               IF i >= r.loc[2] THEN r.loc[1] + r.loc[3] ELSE i
  BY <1>2 DEF rtc_fifo_normalise_index
<1>4. \A i \in Room(r.loc) : rtc_fifo_normalise_index(r, i + 1) \in Room(r.loc)
  BY <1>1, <1>3 DEF Room
<1>5. Room(r.loc) \subseteq Slots /\ Room(r.loc) \subseteq Int
  BY <1>1 DEF Room
<1>6. rtc_fifo_get_first(r) \in Room(r.loc)
  BY <1>1, <1>2 DEF Room
<1> QED
  BY <1>2, <1>4, <1>5, <1>6

\* f are the slots of the first n samples and the one behind.
AreSlots(r, n, f) ==
  f = [k \in 0 .. n |-> IF k = 0 THEN r.head
                        ELSE rtc_fifo_normalise_index(r, f[k - 1] + 1)]

LEMMA SlotsExist ==
  ASSUME NEW r, NEW n \in Nat
  PROVE  \E f : AreSlots(r, n, f)
<1> DEFINE T == { m \in Nat : ~ \E f : AreSlots(r, m, f) }
<1>1. ASSUME T # {} PROVE FALSE
  <2>1. T \in SUBSET Nat
    OBVIOUS
  <2>2. PICK x \in T : \A y \in T : x <= y
    BY <1>1, <2>1, LeastNat
  <2>3. x # 0
    <3> SUFFICES ASSUME x = 0 PROVE FALSE
      OBVIOUS
    <3>1. AreSlots(r, 0, [k \in 0 .. 0 |-> r.head])
      BY DEF AreSlots
    <3> QED
      BY <2>2, <3>1
  <2>4. x - 1 \in Nat /\ x - 1 \notin T
    BY <2>1, <2>2, <2>3
  <2>5. PICK f : AreSlots(r, x - 1, f)
    BY <2>4
  <2> DEFINE g == [k \in 0 .. x |-> IF k = x THEN rtc_fifo_normalise_index(r, f[x - 1] + 1)
                                    ELSE f[k]]
  <2>6. AreSlots(r, x, g)
    <3>1. x \in Nat
      BY <2>1, <2>2
    <3>2. /\ g[x] = rtc_fifo_normalise_index(r, f[x - 1] + 1)
          /\ \A k \in 0 .. x - 1 : g[k] = f[k]
      BY <3>1
    <3>3. \A k \in 0 .. x - 1 :
            f[k] = IF k = 0 THEN r.head ELSE rtc_fifo_normalise_index(r, f[k - 1] + 1)
      BY <2>5 DEF AreSlots
    <3>4. \A k \in 0 .. x :
            g[k] = IF k = 0 THEN r.head ELSE rtc_fifo_normalise_index(r, g[k - 1] + 1)
      <4> TAKE k \in 0 .. x
      <4>1. CASE k = 0
        BY <2>3, <3>1, <3>2, <3>3, <4>1
      <4>2. CASE k # 0 /\ k < x
        <5>1. k \in 0 .. x - 1 /\ k - 1 \in 0 .. x - 1
          BY <3>1, <4>2
        <5> QED
          BY <3>2, <3>3, <4>2, <5>1
      <4>3. CASE k = x
        <5>1. x - 1 \in 0 .. x - 1
          BY <2>3, <3>1
        <5> QED
          BY <2>3, <3>2, <4>3, <5>1
      <4> QED
        BY <3>1, <4>1, <4>2, <4>3
    <3>5. g = [k \in 0 .. x |-> g[k]]
      OBVIOUS
    <3> HIDE DEF g
    <3> QED
      BY <3>4, <3>5 DEF AreSlots
  <2> QED
    BY <2>2, <2>6
<1> QED
  BY <1>1

LEMMA SlotOfIs ==
  ASSUME NEW r, r.count \in Nat
  PROVE  /\ SlotOf(r)[0] = r.head
         /\ \A k \in 1 .. r.count :
              SlotOf(r)[k] = rtc_fifo_normalise_index(r, SlotOf(r)[k - 1] + 1)
<1>1. PICK g : AreSlots(r, r.count, g)
  BY SlotsExist
<1>2. SlotOf(r) = CHOOSE f : AreSlots(r, r.count, f)
  BY DEF SlotOf, AreSlots
<1>3. AreSlots(r, r.count, SlotOf(r))
  BY <1>1, <1>2
<1> QED
  BY <1>3 DEF AreSlots

\* The slots stay in the storage.
LEMMA SlotsInRoom ==
  ASSUME NEW r, r.loc \in Locs, r.head \in Room(r.loc), r.count \in Nat
  PROVE  \A k \in 0 .. r.count : SlotOf(r)[k] \in Room(r.loc)
<1> DEFINE f == SlotOf(r)
           T == { k \in 0 .. r.count : f[k] \notin Room(r.loc) }
<1>1. /\ f[0] = r.head
      /\ \A k \in 1 .. r.count : f[k] = rtc_fifo_normalise_index(r, f[k - 1] + 1)
  BY SlotOfIs
<1> HIDE DEF f
<1>2. ASSUME T # {} PROVE FALSE
  <2>1. T \in SUBSET Nat
    OBVIOUS
  <2>2. PICK x \in T : \A y \in T : x <= y
    BY <1>2, <2>1, LeastNat
  <2>3. x # 0 /\ x \in 0 .. r.count
    BY <1>1, <2>2
  <2>4. x - 1 \in 0 .. r.count /\ x - 1 \notin T /\ x \in 1 .. r.count
    BY <2>2, <2>3
  <2>5. f[x] \in Room(r.loc)
    BY <1>1, <2>4, RoomFacts
  <2> QED
    BY <2>2, <2>5
<1> QED
  BY <1>2 DEF f
----------------------------------------------------------------------------
(* Head and tail stay in the storage, wherever a reset strikes.            *)

Typed(r) == r.count \in Int /\ r.tail_t \in Int /\ \A a \in Slots : r.mem[a] \in Nat

\* What keeps the types, and what keeps head and tail in the storage l.
KeepsTypes(w) ==
  /\ w.field = "loc" => w.v \in Locs
  /\ w.field \in {"count", "tail_t"} => w.v \in Int
  /\ w.field = "mem" => w.v \in Nat

KeepsRoom(w, l) ==
  /\ w.field \notin {"magic", "loc"}
  /\ w.field \in {"head", "tail"} => w.v \in Room(l)

\* A word holds what it held or what one of the writes brought.
LEMMA WordOrigin ==
  ASSUME NEW ws, IsSeq(ws), NEW field, NEW a, NEW old
  PROVE  \/ /\ Word(ws, field, a, old) = old
            /\ \A i \in 1 .. Len(ws) : ~ To(ws[i], field, a)
         \/ \E i \in 1 .. Len(ws) : To(ws[i], field, a) /\ Word(ws, field, a, old) = Value(ws[i])
<1>1. CASE \A i \in 1 .. Len(ws) : ~ To(ws[i], field, a)
  BY <1>1, WordNone
<1>2. CASE \E i \in 1 .. Len(ws) :
              /\ To(ws[i], field, a)
              /\ \A j \in 1 .. Len(ws) : j > i => ~ To(ws[j], field, a)
  BY <1>2, WordLast
<1> QED
  BY <1>1, <1>2, WordCases

LEMMA AfterTyped ==
  ASSUME NEW r, Typed(r), NEW ws, IsSeq(ws), \A i \in 1 .. Len(ws) : KeepsTypes(ws[i]),
         NEW s, s = After(r, ws)
  PROVE  Typed(s) /\ (r.loc \in Locs => s.loc \in Locs)
<1>1. \A i \in 1 .. Len(ws) :
        /\ To(ws[i], "loc", 0) => Value(ws[i]) \in Locs
        /\ To(ws[i], "count", 0) => Value(ws[i]) \in Int
        /\ To(ws[i], "tail_t", 0) => Value(ws[i]) \in Int
        /\ \A a : To(ws[i], "mem", a) => Value(ws[i]) \in Nat
  BY DEF KeepsTypes, To, Value
<1>2. \/ s.count = r.count
      \/ \E i \in 1 .. Len(ws) : To(ws[i], "count", 0) /\ s.count = Value(ws[i])
  <2>1. s.count = Word(ws, "count", 0, r.count)
    BY AfterWords
  <2> QED
    BY <2>1, WordOrigin
<1>3. \/ s.tail_t = r.tail_t
      \/ \E i \in 1 .. Len(ws) : To(ws[i], "tail_t", 0) /\ s.tail_t = Value(ws[i])
  <2>1. s.tail_t = Word(ws, "tail_t", 0, r.tail_t)
    BY AfterWords
  <2> QED
    BY <2>1, WordOrigin
<1>4. \/ s.loc = r.loc
      \/ \E i \in 1 .. Len(ws) : To(ws[i], "loc", 0) /\ s.loc = Value(ws[i])
  <2>1. s.loc = Word(ws, "loc", 0, r.loc)
    BY AfterWords
  <2> QED
    BY <2>1, WordOrigin
<1>5. ASSUME NEW a \in Slots PROVE s.mem[a] \in Nat
  <2>1. s.mem[a] = Word(ws, "mem", a, r.mem[a]) /\ r.mem[a] \in Nat
    BY AfterWords DEF Typed
  <2>2. \/ s.mem[a] = r.mem[a]
        \/ \E i \in 1 .. Len(ws) : To(ws[i], "mem", a) /\ s.mem[a] = Value(ws[i])
    BY <2>1, WordOrigin
  <2> QED
    BY <1>1, <2>1, <2>2
<1>6. r.count \in Int /\ r.tail_t \in Int
  BY DEF Typed
<1>7. s.count \in Int /\ s.tail_t \in Int
  BY <1>1, <1>2, <1>3, <1>6
<1>8. r.loc \in Locs => s.loc \in Locs
  BY <1>1, <1>4
<1> QED
  BY <1>5, <1>7, <1>8 DEF Typed

LEMMA AfterRoom ==
  ASSUME NEW r, {r.head, r.tail} \subseteq Room(r.loc), NEW ws, IsSeq(ws),
         \A i \in 1 .. Len(ws) : KeepsRoom(ws[i], r.loc),
         NEW s, s = After(r, ws)
  PROVE  SameControl(r, s) /\ {s.head, s.tail} \subseteq Room(s.loc)
<1>1. \A i \in 1 .. Len(ws) :
        /\ ~ To(ws[i], "magic", 0) /\ ~ To(ws[i], "loc", 0)
        /\ To(ws[i], "head", 0) => Value(ws[i]) \in Room(r.loc)
        /\ To(ws[i], "tail", 0) => Value(ws[i]) \in Room(r.loc)
  BY DEF KeepsRoom, To, Value
<1>2. \/ s.head = r.head
      \/ \E i \in 1 .. Len(ws) : To(ws[i], "head", 0) /\ s.head = Value(ws[i])
  <2>1. s.head = Word(ws, "head", 0, r.head)
    BY AfterWords
  <2> QED
    BY <2>1, WordOrigin
<1>3. \/ s.tail = r.tail
      \/ \E i \in 1 .. Len(ws) : To(ws[i], "tail", 0) /\ s.tail = Value(ws[i])
  <2>1. s.tail = Word(ws, "tail", 0, r.tail)
    BY AfterWords
  <2> QED
    BY <2>1, WordOrigin
<1>4. \/ s.loc = r.loc
      \/ \E i \in 1 .. Len(ws) : To(ws[i], "loc", 0) /\ s.loc = Value(ws[i])
  <2>1. s.loc = Word(ws, "loc", 0, r.loc)
    BY AfterWords
  <2> QED
    BY <2>1, WordOrigin
<1>5. s.magic = r.magic
  <2>1. s.magic = Word(ws, "magic", 0, r.magic)
    BY AfterWords
  <2>2. Word(ws, "magic", 0, r.magic) = r.magic
    BY <1>1, WordNone
  <2> QED
    BY <2>1, <2>2
<1>6. s.loc = r.loc
  BY <1>1, <1>4
<1>7. s.head \in Room(r.loc) /\ s.tail \in Room(r.loc)
  BY <1>1, <1>2, <1>3
<1> QED
  BY <1>5, <1>6, <1>7 DEF SameControl

\* The first writes of a sequence.
LEMMA Prefix ==
  ASSUME NEW ws, IsSeq(ws), NEW k \in 1 .. Len(ws) - 1, NEW vs, vs = SubSeq(ws, 1, k)
  PROVE  /\ IsSeq(vs) /\ Len(vs) = k /\ k \in Nat /\ Len(ws) \in Nat
         /\ \A i \in 1 .. Len(vs) : i \in 1 .. Len(ws) /\ vs[i] = ws[i]
<1>1. ws \in Seq(Elems(ws)) /\ Len(ws) \in Nat
  BY DEF IsSeq
<1>2. vs \in Seq(Elems(ws)) /\ Len(vs) = k /\ \A i \in 1 .. k : vs[i] = ws[i]
  BY <1>1
<1>3. IsSeq(vs)
  BY <1>2, SeqIsSeq
<1>4. k \in Nat /\ \A i \in 1 .. k : i \in 1 .. Len(ws)
  BY <1>1
<1> QED
  BY <1>1, <1>2, <1>3, <1>4

\* The writes of a concatenation.
LEMMA WritesConcat ==
  ASSUME NEW ws, IsSeq(ws), NEW vs, IsSeq(vs)
  PROVE  \A i \in 1 .. Len(ws \o vs) :
           \/ \E j \in 1 .. Len(ws) : (ws \o vs)[i] = ws[j]
           \/ \E j \in 1 .. Len(vs) : (ws \o vs)[i] = vs[j]
<1> DEFINE us == ws \o vs
<1>1. Len(us) = Len(ws) + Len(vs) /\ Len(ws) \in Nat /\ Len(vs) \in Nat
  BY SeqConcat
<1>2. \A i \in 1 .. Len(ws) : us[i] = ws[i]
  BY SeqConcat
<1>3. \A i \in 1 .. Len(vs) : us[Len(ws) + i] = vs[i]
  BY SeqConcat
<1> HIDE DEF us
<1>4. ASSUME NEW i \in 1 .. Len(us)
      PROVE  \/ \E j \in 1 .. Len(ws) : us[i] = ws[j]
             \/ \E j \in 1 .. Len(vs) : us[i] = vs[j]
  <2>1. CASE i <= Len(ws)
    BY <1>1, <1>2, <2>1
  <2>2. CASE i > Len(ws)
    <3>1. i - Len(ws) \in 1 .. Len(vs) /\ Len(ws) + (i - Len(ws)) = i
      BY <1>1, <2>2
    <3> QED
      BY <1>3, <3>1
  <2> QED
    BY <1>1, <2>1, <2>2
<1> QED
  BY <1>4 DEF us

\* All of the writes ws keep types, and head and tail in storage l.
AllKeepTypes(ws) == IsSeq(ws) /\ \A i \in 1 .. Len(ws) : KeepsTypes(ws[i])
AllKeepRoom(ws, l) == IsSeq(ws) /\ \A i \in 1 .. Len(ws) : KeepsRoom(ws[i], l)

LEMMA KeepConcat ==
  ASSUME NEW ws, NEW vs, NEW l
  PROVE  /\ AllKeepTypes(ws) /\ AllKeepTypes(vs) => AllKeepTypes(ws \o vs)
         /\ AllKeepRoom(ws, l) /\ AllKeepRoom(vs, l) => AllKeepRoom(ws \o vs, l)
<1>1. ASSUME AllKeepTypes(ws), AllKeepTypes(vs) PROVE AllKeepTypes(ws \o vs)
  <2>1. IsSeq(ws \o vs)
    BY <1>1, SeqConcat DEF AllKeepTypes
  <2>2. \A i \in 1 .. Len(ws \o vs) :
           \/ \E j \in 1 .. Len(ws) : (ws \o vs)[i] = ws[j]
           \/ \E j \in 1 .. Len(vs) : (ws \o vs)[i] = vs[j]
    BY <1>1, WritesConcat DEF AllKeepTypes
  <2> QED
    BY <1>1, <2>1, <2>2 DEF AllKeepTypes
<1>2. ASSUME AllKeepRoom(ws, l), AllKeepRoom(vs, l) PROVE AllKeepRoom(ws \o vs, l)
  <2>1. IsSeq(ws \o vs)
    BY <1>2, SeqConcat DEF AllKeepRoom
  <2>2. \A i \in 1 .. Len(ws \o vs) :
           \/ \E j \in 1 .. Len(ws) : (ws \o vs)[i] = ws[j]
           \/ \E j \in 1 .. Len(vs) : (ws \o vs)[i] = vs[j]
    BY <1>2, WritesConcat DEF AllKeepRoom
  <2> QED
    BY <1>2, <2>1, <2>2 DEF AllKeepRoom
<1> QED
  BY <1>1, <1>2
\* A few writes that do.
LEMMA KeepOne ==
  ASSUME NEW w1, NEW l
  PROVE  /\ KeepsTypes(w1) => AllKeepTypes(<<w1>>)
         /\ KeepsRoom(w1, l)
              => AllKeepRoom(<<w1>>, l)
<1> DEFINE ws == <<w1>>
<1>1. Len(ws) = 1 /\ ws[1] = w1
  OBVIOUS
<1>2. IsSeq(ws)
  BY WordOne
<1> HIDE DEF ws
<1>3. 1 .. Len(ws) = {1}
  BY <1>1
<1>4. /\ KeepsTypes(w1) => AllKeepTypes(ws)
      /\ KeepsRoom(w1, l) => AllKeepRoom(ws, l)
  BY <1>1, <1>2, <1>3 DEF AllKeepTypes, AllKeepRoom
<1> QED
  BY <1>4 DEF ws

LEMMA KeepTwo ==
  ASSUME NEW w1, NEW w2, NEW l
  PROVE  /\ KeepsTypes(w1) /\ KeepsTypes(w2) => AllKeepTypes(<<w1, w2>>)
         /\ KeepsRoom(w1, l) /\ KeepsRoom(w2, l)
              => AllKeepRoom(<<w1, w2>>, l)
<1> DEFINE ws == <<w1, w2>>
<1>1. Len(ws) = 2 /\ ws[1] = w1 /\ ws[2] = w2
  OBVIOUS
<1>2. IsSeq(ws)
  BY WordTwo
<1> HIDE DEF ws
<1>3. 1 .. Len(ws) = {1, 2}
  BY <1>1
<1>4. /\ KeepsTypes(w1) /\ KeepsTypes(w2) => AllKeepTypes(ws)
      /\ KeepsRoom(w1, l) /\ KeepsRoom(w2, l) => AllKeepRoom(ws, l)
  BY <1>1, <1>2, <1>3 DEF AllKeepTypes, AllKeepRoom
<1> QED
  BY <1>4 DEF ws

LEMMA KeepThree ==
  ASSUME NEW w1, NEW w2, NEW w3, NEW l
  PROVE  /\ KeepsTypes(w1) /\ KeepsTypes(w2) /\ KeepsTypes(w3) => AllKeepTypes(<<w1, w2, w3>>)
         /\ KeepsRoom(w1, l) /\ KeepsRoom(w2, l) /\ KeepsRoom(w3, l)
              => AllKeepRoom(<<w1, w2, w3>>, l)
<1> DEFINE ws == <<w1, w2, w3>>
<1>1. Len(ws) = 3 /\ ws[1] = w1 /\ ws[2] = w2 /\ ws[3] = w3
  OBVIOUS
<1>2. IsSeq(ws)
  BY WordThree
<1> HIDE DEF ws
<1>3. 1 .. Len(ws) = {1, 2, 3}
  BY <1>1
<1>4. /\ KeepsTypes(w1) /\ KeepsTypes(w2) /\ KeepsTypes(w3) => AllKeepTypes(ws)
      /\ KeepsRoom(w1, l) /\ KeepsRoom(w2, l) /\ KeepsRoom(w3, l) => AllKeepRoom(ws, l)
  BY <1>1, <1>2, <1>3 DEF AllKeepTypes, AllKeepRoom
<1> QED
  BY <1>4 DEF ws

LEMMA KeepFour ==
  ASSUME NEW w1, NEW w2, NEW w3, NEW w4, NEW l
  PROVE  /\ KeepsTypes(w1) /\ KeepsTypes(w2) /\ KeepsTypes(w3) /\ KeepsTypes(w4) => AllKeepTypes(<<w1, w2, w3, w4>>)
         /\ KeepsRoom(w1, l) /\ KeepsRoom(w2, l) /\ KeepsRoom(w3, l) /\ KeepsRoom(w4, l)
              => AllKeepRoom(<<w1, w2, w3, w4>>, l)
<1> DEFINE ws == <<w1, w2, w3, w4>>
<1>1. Len(ws) = 4 /\ ws[1] = w1 /\ ws[2] = w2 /\ ws[3] = w3 /\ ws[4] = w4
  OBVIOUS
<1>2. IsSeq(ws)
  BY WordFour
<1> HIDE DEF ws
<1>3. 1 .. Len(ws) = {1, 2, 3, 4}
  BY <1>1
<1>4. /\ KeepsTypes(w1) /\ KeepsTypes(w2) /\ KeepsTypes(w3) /\ KeepsTypes(w4) => AllKeepTypes(ws)
      /\ KeepsRoom(w1, l) /\ KeepsRoom(w2, l) /\ KeepsRoom(w3, l) /\ KeepsRoom(w4, l) => AllKeepRoom(ws, l)
  BY <1>1, <1>2, <1>3 DEF AllKeepTypes, AllKeepRoom
<1> QED
  BY <1>4 DEF ws

LEMMA KeepFive ==
  ASSUME NEW w1, NEW w2, NEW w3, NEW w4, NEW w5, NEW l
  PROVE  /\ KeepsTypes(w1) /\ KeepsTypes(w2) /\ KeepsTypes(w3) /\ KeepsTypes(w4) /\ KeepsTypes(w5) => AllKeepTypes(<<w1, w2, w3, w4, w5>>)
         /\ KeepsRoom(w1, l) /\ KeepsRoom(w2, l) /\ KeepsRoom(w3, l) /\ KeepsRoom(w4, l) /\ KeepsRoom(w5, l)
              => AllKeepRoom(<<w1, w2, w3, w4, w5>>, l)
<1> DEFINE ws == <<w1, w2, w3, w4, w5>>
<1>1. Len(ws) = 5 /\ ws[1] = w1 /\ ws[2] = w2 /\ ws[3] = w3 /\ ws[4] = w4 /\ ws[5] = w5
  OBVIOUS
<1>2. IsSeq(ws)
  BY WordFive
<1> HIDE DEF ws
<1>3. 1 .. Len(ws) = {1, 2, 3, 4, 5}
  BY <1>1
<1>4. /\ KeepsTypes(w1) /\ KeepsTypes(w2) /\ KeepsTypes(w3) /\ KeepsTypes(w4) /\ KeepsTypes(w5) => AllKeepTypes(ws)
      /\ KeepsRoom(w1, l) /\ KeepsRoom(w2, l) /\ KeepsRoom(w3, l) /\ KeepsRoom(w4, l) /\ KeepsRoom(w5, l) => AllKeepRoom(ws, l)
  BY <1>1, <1>2, <1>3 DEF AllKeepTypes, AllKeepRoom
<1> QED
  BY <1>4 DEF ws

LEMMA PutKeeps ==
  ASSUME NEW f, NEW v, NEW l
  PROVE  /\ f \notin {"loc", "count", "tail_t", "mem"} => KeepsTypes(Put(f, v))
         /\ f = "loc" /\ v \in Locs => KeepsTypes(Put(f, v))
         /\ f \in {"count", "tail_t"} /\ v \in Int => KeepsTypes(Put(f, v))
         /\ f \notin {"magic", "loc", "head", "tail"} => KeepsRoom(Put(f, v), l)
         /\ f \in {"head", "tail"} /\ v \in Room(l) => KeepsRoom(Put(f, v), l)
BY DEF Put, KeepsTypes, KeepsRoom

LEMMA WriteKeeps ==
  ASSUME NEW a, NEW v \in Nat, NEW l
  PROVE  KeepsTypes(rtc_mem_write(a, v)) /\ KeepsRoom(rtc_mem_write(a, v), l)
BY DEF rtc_mem_write, KeepsTypes, KeepsRoom

LEMMA NothingKeeps ==
  ASSUME NEW l
  PROVE  AllKeepTypes(<< >>) /\ AllKeepRoom(<< >>, l)
<1>1. IsSeq(<< >>)
  BY WordEmpty
<1> QED
  BY <1>1 DEF AllKeepTypes, AllKeepRoom

LEMMA ClearKeeps ==
  ASSUME NEW q, q.loc \in Locs
  PROVE  AllKeepTypes(rtc_fifo_clear_content(q)) /\ AllKeepRoom(rtc_fifo_clear_content(q), q.loc)
<1> DEFINE first == rtc_fifo_get_first(q)
           p == rtc_fifo_get_tagpos(q)
           n == rtc_fifo_get_tagcount(q)
           x == <<Put("tail", first), Put("head", first), Put("count", 0),
                  Put("tail_t", 0), Put("head_t", 0)>>
           y == Cleared(p, n)
<1>1. rtc_fifo_clear_content(q) = x \o y
  BY DEF rtc_fifo_clear_content, Cleared
<1>2. first \in Room(q.loc) /\ p \in Int /\ n \in Nat
  BY RoomFacts, LocFacts DEF rtc_fifo_get_tagpos, rtc_fifo_get_tagcount
<1> HIDE DEF first, p, n
<1>3. AllKeepTypes(x) /\ AllKeepRoom(x, q.loc)
  <2>1. /\ KeepsTypes(Put("tail", first)) /\ KeepsTypes(Put("head", first))
        /\ KeepsTypes(Put("count", 0)) /\ KeepsTypes(Put("tail_t", 0))
        /\ KeepsTypes(Put("head_t", 0))
    <3> DEFINE zero == 0
    <3>1. zero \in Int
      OBVIOUS
    <3> HIDE DEF zero
    <3>2. /\ KeepsTypes(Put("tail", first)) /\ KeepsTypes(Put("head", first))
          /\ KeepsTypes(Put("count", zero)) /\ KeepsTypes(Put("tail_t", zero))
          /\ KeepsTypes(Put("head_t", zero))
      BY <3>1, PutKeeps
    <3> QED
      BY <3>2 DEF zero
  <2>2. /\ KeepsRoom(Put("tail", first), q.loc) /\ KeepsRoom(Put("head", first), q.loc)
        /\ KeepsRoom(Put("count", 0), q.loc) /\ KeepsRoom(Put("tail_t", 0), q.loc)
        /\ KeepsRoom(Put("head_t", 0), q.loc)
    BY <1>2, PutKeeps
  <2> QED
    BY <2>1, <2>2, KeepFive
<1>4. AllKeepTypes(y) /\ AllKeepRoom(y, q.loc)
  <2>1. y = [i \in 1 .. n |-> y[i]] /\ \A i \in 1 .. n : y[i] = rtc_mem_write(p + i - 1, 0)
    BY DEF Cleared
  <2> HIDE DEF y
  <2>2. IsSeq(y) /\ Len(y) = n
    BY <1>2, <2>1, FunctionIsSeq
  <2>3. \A a : KeepsTypes(rtc_mem_write(a, 0)) /\ KeepsRoom(rtc_mem_write(a, 0), q.loc)
    BY WriteKeeps
  <2> QED
    BY <2>1, <2>2, <2>3 DEF AllKeepTypes, AllKeepRoom
<1> HIDE DEF x, y
<1> QED
  BY <1>1, <1>3, <1>4, KeepConcat

LEMMA PopKeeps ==
  ASSUME NEW q, q.count \in Int
  PROVE  /\ AllKeepTypes(rtc_fifo_pop_sample(q))
         /\ q.loc \in Locs /\ q.head \in Room(q.loc) =>
              AllKeepRoom(rtc_fifo_pop_sample(q), q.loc)
<1> DEFINE h  == rtc_fifo_normalise_index(q, q.head + 1)
           ht == (q.head_t + rtc_fifo_get_deltat(q.mem[q.head])) % TimeMod
           c  == q.count - 1
<1>1. rtc_fifo_pop_sample(q) = <<Put("head", h), Put("head_t", ht), Put("count", c)>>
  BY DEF rtc_fifo_pop_sample
<1>2. c \in Int /\ (q.loc \in Locs /\ q.head \in Room(q.loc) => h \in Room(q.loc))
  BY RoomFacts
<1> HIDE DEF h, ht, c
<1>3. /\ KeepsTypes(Put("head", h)) /\ KeepsTypes(Put("head_t", ht))
      /\ KeepsTypes(Put("count", c))
  BY <1>2, PutKeeps
<1>4. h \in Room(q.loc) =>
        /\ KeepsRoom(Put("head", h), q.loc) /\ KeepsRoom(Put("head_t", ht), q.loc)
        /\ KeepsRoom(Put("count", c), q.loc)
  BY PutKeeps
<1> QED
  BY <1>1, <1>2, <1>3, <1>4, KeepThree

LEMMA DropKeeps ==
  ASSUME NEW r, r.count \in Int, NEW n \in 1 .. r.count
  PROVE  /\ AllKeepTypes(rtc_fifo_drop_samples(r, n))
         /\ r.loc \in Locs /\ r.head \in Room(r.loc) =>
              AllKeepRoom(rtc_fifo_drop_samples(r, n), r.loc)
<1> DEFINE h  == SlotOf(r)[n]
           ht == TimeOf(r)[n - 1]
           x  == Counts(r.count, n)
           y  == <<Put("head", h), Put("head_t", ht)>>
<1>1. rtc_fifo_drop_samples(r, n) = x \o y
  BY DEF rtc_fifo_drop_samples, Counts
<1>2. r.loc \in Locs /\ r.head \in Room(r.loc) => h \in Room(r.loc)
  <2>1. r.count \in Nat /\ n \in 0 .. r.count
    OBVIOUS
  <2> QED
    BY <2>1, SlotsInRoom
<1> HIDE DEF h, ht
<1>3. AllKeepTypes(x) /\ AllKeepRoom(x, r.loc)
  <2>1. x = [i \in 1 .. n |-> x[i]] /\ \A i \in 1 .. n : x[i] = Put("count", r.count - i)
    BY DEF Counts
  <2> HIDE DEF x
  <2>2. IsSeq(x) /\ Len(x) = n
    BY <2>1, FunctionIsSeq
  <2>3. \A i \in 1 .. n : r.count - i \in Int
    OBVIOUS
  <2>4. \A i \in 1 .. n : /\ KeepsTypes(Put("count", r.count - i))
                          /\ KeepsRoom(Put("count", r.count - i), r.loc)
    BY <2>3, PutKeeps
  <2> QED
    BY <2>1, <2>2, <2>4 DEF AllKeepTypes, AllKeepRoom
<1>4. AllKeepTypes(y) /\ (h \in Room(r.loc) => AllKeepRoom(y, r.loc))
  <2>1. KeepsTypes(Put("head", h)) /\ KeepsTypes(Put("head_t", ht))
    BY PutKeeps
  <2>2. h \in Room(r.loc) => KeepsRoom(Put("head", h), r.loc) /\ KeepsRoom(Put("head_t", ht), r.loc)
    BY PutKeeps
  <2> QED
    BY <2>1, <2>2, KeepTwo
<1> HIDE DEF x, y
<1> QED
  BY <1>1, <1>2, <1>3, <1>4, KeepConcat

LEMMA DeltatInt ==
  ASSUME NEW r, r.tail_t \in Int, NEW t \in Times
  PROVE  /\ t \in Int /\ Deltat(r, t) \in Int
         /\ rtc_fifo_delta_t(t, r.tail_t) >= 0 =>
              /\ rtc_fifo_delta_t(t, r.tail_t) = (t - r.tail_t) % TimeMod
              /\ rtc_fifo_delta_t(t, r.tail_t) \in 0 .. DeltaMod - 1
<1>1. TimeMod \in Nat \ {0} /\ DeltaMod \in Nat \ {0} /\ t \in Int
  BY FieldsAssumption, SamplesAssumption DEF Fields
<1>2. (t - r.tail_t) % TimeMod \in Nat
  BY <1>1
<1> QED
  BY <1>1, <1>2 DEF Deltat, rtc_fifo_delta_t

LEMMA EntryNat ==
  ASSUME NEW v \in Nat, NEW ti \in Int, NEW d \in Nat, NEW dt \in Int
  PROVE  rtc_fifo_construct_entry(v, ti, d, dt) \in Nat
<1>1. /\ ValueMod \in Nat \ {0} /\ DeltaMod \in Nat \ {0}
      /\ DecimalsMod \in Nat \ {0} /\ TagMod \in Nat \ {0}
  BY FieldsAssumption DEF Fields
<1>2. /\ v % ValueMod \in Nat /\ dt % DeltaMod \in Nat
      /\ d % DecimalsMod \in Nat /\ ti % TagMod \in Nat
  BY <1>1
<1>3. \A x, y, z \in Nat : x + y * z \in Nat
  OBVIOUS
<1>4. (d % DecimalsMod) + DecimalsMod * (ti % TagMod) \in Nat
  BY <1>1, <1>2, <1>3
<1>5. (dt % DeltaMod) + DeltaMod * ((d % DecimalsMod) + DecimalsMod * (ti % TagMod)) \in Nat
  BY <1>1, <1>2, <1>3, <1>4
<1>6. (v % ValueMod) + ValueMod *
        ((dt % DeltaMod) + DeltaMod * ((d % DecimalsMod) + DecimalsMod * (ti % TagMod))) \in Nat
  BY <1>1, <1>2, <1>3, <1>5
<1> QED
  BY <1>6 DEF rtc_fifo_construct_entry

LEMMA EntryKeeps ==
  ASSUME NEW q, q.count \in Int, NEW smp \in Samples, NEW t \in Times,
         NEW ti \in Int, NEW dt \in Int
  PROVE  /\ AllKeepTypes(StoreEntry(q, smp, t, ti, dt))
         /\ q.loc \in Locs /\ q.tail \in Room(q.loc) =>
              AllKeepRoom(StoreEntry(q, smp, t, ti, dt), q.loc)
<1> DEFINE e == rtc_fifo_construct_entry(smp.value, ti, smp.decimals, dt)
           h == rtc_fifo_normalise_index(q, q.tail + 1)
           c == q.count + 1
<1>1. StoreEntry(q, smp, t, ti, dt)
        = <<rtc_mem_write(q.tail, e), Put("tail", h), Put("tail_t", t), Put("count", c)>>
  BY DEF StoreEntry
<1>2. e \in Nat /\ t \in Int
  <2>1. smp.value \in Nat /\ smp.decimals \in Nat
    BY SamplesAssumption DEF Samples
  <2>2. t \in Int
    BY SamplesAssumption, FieldsAssumption DEF Fields
  <2>3. e \in Nat
    BY <2>1, EntryNat
  <2> QED
    BY <2>2, <2>3
<1>3. c \in Int /\ (q.loc \in Locs /\ q.tail \in Room(q.loc) => h \in Room(q.loc))
  BY RoomFacts
<1> HIDE DEF e, h, c
<1>4. /\ KeepsTypes(rtc_mem_write(q.tail, e)) /\ KeepsTypes(Put("tail", h))
      /\ KeepsTypes(Put("tail_t", t)) /\ KeepsTypes(Put("count", c))
  BY <1>2, <1>3, PutKeeps, WriteKeeps
<1>5. h \in Room(q.loc) =>
        /\ KeepsRoom(rtc_mem_write(q.tail, e), q.loc) /\ KeepsRoom(Put("tail", h), q.loc)
        /\ KeepsRoom(Put("tail_t", t), q.loc) /\ KeepsRoom(Put("count", c), q.loc)
  BY <1>2, PutKeeps, WriteKeeps
<1> QED
  BY <1>1, <1>3, <1>4, <1>5, KeepFour

LEMMA StoreKeeps ==
  ASSUME NEW r, r.loc \in Locs, Typed(r), NEW smp \in Samples, NEW t \in Times
  PROVE  /\ AllKeepTypes(rtc_fifo_store_sample(r, smp, t))
         /\ {r.head, r.tail} \subseteq Room(r.loc) =>
              AllKeepRoom(rtc_fifo_store_sample(r, smp, t), r.loc)
<1> DEFINE ti == rtc_fifo_find_tag_index(r, smp.tag)
           w1 == TagWrite(r, smp.tag, ti)
           w2 == BaseWrites(r, t)
           x3 == EvictWrites(r)
           y3 == ClearWrites(r, smp, t)
           x4 == StoreEntry(After(r, x3), smp, t, ti, Deltat(r, t))
           y4 == StoreEntry(After(r, y3), smp, t, 0, Deltat(r, t))
<1>1. rtc_fifo_store_sample(r, smp, t) = IF Misfit(r, smp, t) THEN w1 \o w2 \o y3 \o y4
                                                             ELSE w1 \o w2 \o x3 \o x4
  BY DEF rtc_fifo_store_sample, BaseWrites, EvictWrites, ClearWrites, Evicts, Deltat
<1>2. /\ r.count \in Int /\ r.tail_t \in Int /\ ti \in Int /\ Deltat(r, t) \in Int
      /\ t \in Int /\ smp.tag \in Nat /\ 0 \in Int
  <2>1. r.count \in Int /\ r.tail_t \in Int
    BY DEF Typed
  <2>2. ti \in Int
    BY TagIndex
  <2>3. smp.tag \in Nat
    BY SamplesAssumption DEF Samples
  <2> QED
    BY <2>1, <2>2, <2>3, DeltatInt
<1> HIDE DEF ti
<1>3. AllKeepTypes(w1) /\ AllKeepRoom(w1, r.loc)
  <2>1. \A a : /\ AllKeepTypes(<<rtc_mem_write(a, smp.tag)>>)
               /\ AllKeepRoom(<<rtc_mem_write(a, smp.tag)>>, r.loc)
    BY <1>2, WriteKeeps, KeepOne
  <2> QED
    BY <2>1, NothingKeeps DEF TagWrite
<1>4. AllKeepTypes(w2) /\ AllKeepRoom(w2, r.loc)
  <2>1. /\ KeepsTypes(Put("head_t", t)) /\ KeepsTypes(Put("tail_t", t))
        /\ KeepsRoom(Put("head_t", t), r.loc) /\ KeepsRoom(Put("tail_t", t), r.loc)
    BY <1>2, PutKeeps
  <2>2. /\ AllKeepTypes(<<Put("head_t", t), Put("tail_t", t)>>)
        /\ AllKeepRoom(<<Put("head_t", t), Put("tail_t", t)>>, r.loc)
    BY <2>1, KeepTwo
  <2> QED
    BY <2>2, NothingKeeps DEF BaseWrites
<1>5. AllKeepTypes(x3) /\ (r.head \in Room(r.loc) => AllKeepRoom(x3, r.loc))
  BY <1>2, PopKeeps, NothingKeeps DEF EvictWrites
<1>6. AllKeepTypes(y3) /\ AllKeepRoom(y3, r.loc)
  <2> DEFINE z1 == rtc_fifo_clear_content(r)
             z2 == <<Put("head_t", t), Put("tail_t", t)>>
             z3 == <<rtc_mem_write(rtc_fifo_get_tagpos(r), smp.tag)>>
  <2>1. AllKeepTypes(z1) /\ AllKeepRoom(z1, r.loc)
    BY ClearKeeps
  <2>2. AllKeepTypes(z2) /\ AllKeepRoom(z2, r.loc)
    <3>1. /\ KeepsTypes(Put("head_t", t)) /\ KeepsTypes(Put("tail_t", t))
          /\ KeepsRoom(Put("head_t", t), r.loc) /\ KeepsRoom(Put("tail_t", t), r.loc)
      BY <1>2, PutKeeps
    <3> QED
      BY <3>1, KeepTwo
  <2>3. AllKeepTypes(z3) /\ AllKeepRoom(z3, r.loc)
    BY <1>2, WriteKeeps, KeepOne
  <2>4. y3 = z1 \o z2 \o z3
    BY DEF ClearWrites
  <2> HIDE DEF z1, z2, z3, y3
  <2>5. AllKeepTypes(z1 \o z2) /\ AllKeepRoom(z1 \o z2, r.loc)
    BY <2>1, <2>2, KeepConcat
  <2> QED
    BY <2>3, <2>4, <2>5, KeepConcat
<1>7. AllKeepTypes(x4) /\ (r.tail \in Room(r.loc) => AllKeepRoom(x4, r.loc))
  <2> DEFINE q == After(r, x3)
  <2>1. q.loc = r.loc /\ q.tail = r.tail /\ q.count = IF Evicts(r) THEN r.count - 1 ELSE r.count
    BY AfterEvictWrites DEF SameControl
  <2> HIDE DEF q
  <2>2. q.count \in Int
    BY <1>2, <2>1
  <2>3. /\ AllKeepTypes(StoreEntry(q, smp, t, ti, Deltat(r, t)))
        /\ q.loc \in Locs /\ q.tail \in Room(q.loc) =>
             AllKeepRoom(StoreEntry(q, smp, t, ti, Deltat(r, t)), q.loc)
    BY <1>2, <2>2, EntryKeeps
  <2> QED
    BY <2>1, <2>3 DEF q
<1>8. AllKeepTypes(y4) /\ AllKeepRoom(y4, r.loc)
  <2> DEFINE q == After(r, y3)
  <2>1. q.loc = r.loc /\ q.tail = rtc_fifo_get_first(r) /\ q.count = 0
    BY AfterClearWrites DEF SameControl
  <2> HIDE DEF q
  <2>2. q.count \in Int /\ q.tail \in Room(q.loc)
    BY <2>1, RoomFacts
  <2>3. /\ AllKeepTypes(StoreEntry(q, smp, t, 0, Deltat(r, t)))
        /\ q.loc \in Locs /\ q.tail \in Room(q.loc) =>
             AllKeepRoom(StoreEntry(q, smp, t, 0, Deltat(r, t)), q.loc)
    BY <1>2, <2>2, EntryKeeps
  <2> QED
    BY <2>1, <2>2, <2>3 DEF q
<1> HIDE DEF w1, w2, x3, y3, x4, y4
<1>9. AllKeepTypes(w1 \o w2) /\ AllKeepRoom(w1 \o w2, r.loc)
  BY <1>3, <1>4, KeepConcat
<1>10. AllKeepTypes(w1 \o w2 \o y3) /\ AllKeepRoom(w1 \o w2 \o y3, r.loc)
  BY <1>6, <1>9, KeepConcat
<1>11. AllKeepTypes(w1 \o w2 \o y3 \o y4) /\ AllKeepRoom(w1 \o w2 \o y3 \o y4, r.loc)
  BY <1>8, <1>10, KeepConcat
<1>12. /\ AllKeepTypes(w1 \o w2 \o x3)
       /\ r.head \in Room(r.loc) => AllKeepRoom(w1 \o w2 \o x3, r.loc)
  BY <1>5, <1>9, KeepConcat
<1>13. /\ AllKeepTypes(w1 \o w2 \o x3 \o x4)
       /\ {r.head, r.tail} \subseteq Room(r.loc) => AllKeepRoom(w1 \o w2 \o x3 \o x4, r.loc)
  BY <1>7, <1>12, KeepConcat
<1> QED
  BY <1>1, <1>11, <1>13

\* A first write stays the first when others follow.
LEMMA FirstOfConcat ==
  ASSUME NEW us, NEW vs, AllKeepTypes(us), AllKeepTypes(vs), Len(us) >= 1
  PROVE  /\ Len(us \o vs) \in Nat
         /\ Len(us \o vs) >= 1
         /\ (us \o vs)[1] = us[1]
<1>1. IsSeq(us) /\ IsSeq(vs)
  BY DEF AllKeepTypes
<1>2. /\ Len(us) \in Nat /\ Len(vs) \in Nat /\ Len(us \o vs) = Len(us) + Len(vs)
  BY <1>1, SeqConcat
<1>3. \A i \in 1 .. Len(us) : (us \o vs)[i] = us[i]
  BY <1>1, SeqConcat
<1>4. 1 \in 1 .. Len(us)
  BY <1>2
<1> QED
  BY <1>2, <1>3, <1>4

LEMMA PrepareKeeps ==
  ASSUME NEW r, NEW n \in SensorCounts, NEW other \in OtherStorage(n)
  PROVE  /\ AllKeepTypes(rtcfifo_prepare(r, n, other))
         /\ Len(rtcfifo_prepare(r, n, other)) \in Nat
         /\ Len(rtcfifo_prepare(r, n, other)) >= 1
         /\ rtcfifo_prepare(r, n, other)[1] = Put("loc", <<DefaultBegin, DefaultEnd, n>>)
<1> DEFINE loc == <<DefaultBegin, DefaultEnd, n>>
           w1 == <<Put("loc", loc)>>
           s1 == After(r, w1)
           w2 == rtc_fifo_clear_content(s1)
           w3 == <<Put("magic", TRUE)>>
<1>1. rtcfifo_prepare(r, n, other) = w1 \o w2 \o w3 \o other
  BY DEF rtcfifo_prepare
<1>2. loc \in Locs
  BY OtherWrites
<1> HIDE DEF loc
<1>3. s1.loc = loc
  BY AfterPut
<1>4. AllKeepTypes(w1)
  BY <1>2, PutKeeps, KeepOne
<1>5. AllKeepTypes(w2)
  <2> HIDE DEF s1
  <2> QED
    BY <1>2, <1>3, ClearKeeps
<1>6. AllKeepTypes(w3)
  <2>1. KeepsTypes(Put("magic", TRUE))
    BY DEF KeepsTypes, Put
  <2> QED
    BY <2>1, KeepOne
<1>7. AllKeepTypes(other)
  <2>1. CASE other = << >>
    BY <2>1, NothingKeeps
  <2>2. CASE other # << >>
    <3>1. other = <<Put("loc", Final(n, other))>> /\ Final(n, other) \in Locs
      BY <2>2, OtherWrites
    <3>2. KeepsTypes(Put("loc", Final(n, other)))
      BY <3>1, PutKeeps
    <3>3. AllKeepTypes(<<Put("loc", Final(n, other))>>)
      BY <3>2, KeepOne
    <3> QED
      BY <3>1, <3>3
  <2> QED
    BY <2>1, <2>2
<1>8. Len(w1) = 1 /\ w1[1] = Put("loc", loc)
  OBVIOUS
<1> HIDE DEF w1, w2, w3
<1>9. AllKeepTypes(w1 \o w2) /\ AllKeepTypes(w1 \o w2 \o w3)
  BY <1>4, <1>5, <1>6, KeepConcat
<1>10. AllKeepTypes(w1 \o w2 \o w3 \o other)
  BY <1>7, <1>9, KeepConcat
<1>11. Len(w1) >= 1
  BY <1>8
<1>12. Len(w1 \o w2) >= 1 /\ (w1 \o w2)[1] = w1[1]
  BY <1>4, <1>5, <1>11, FirstOfConcat
<1>13. Len(w1 \o w2 \o w3) >= 1 /\ (w1 \o w2 \o w3)[1] = (w1 \o w2)[1]
  BY <1>6, <1>9, <1>12, FirstOfConcat
<1>14. /\ Len(w1 \o w2 \o w3 \o other) \in Nat /\ Len(w1 \o w2 \o w3 \o other) >= 1
       /\ (w1 \o w2 \o w3 \o other)[1] = (w1 \o w2 \o w3)[1]
  BY <1>7, <1>9, <1>13, FirstOfConcat
<1> QED
  BY <1>1, <1>8, <1>10, <1>12, <1>13, <1>14 DEF loc

\* What is left when rtcfifo_prepare is interrupted.
LEMMA PrefixOfPrepare ==
  ASSUME NEW r, Typed(r), NEW n \in SensorCounts, NEW other \in OtherStorage(n),
         NEW k \in 1 .. Len(rtcfifo_prepare(r, n, other)) - 1,
         NEW s, s = After(r, SubSeq(rtcfifo_prepare(r, n, other), 1, k))
  PROVE  Typed(s) /\ s.loc \in Locs
<1> DEFINE ws == rtcfifo_prepare(r, n, other)
           vs == SubSeq(ws, 1, k)
<1>1. /\ AllKeepTypes(ws) /\ Len(ws) \in Nat /\ Len(ws) >= 1
      /\ ws[1] = Put("loc", <<DefaultBegin, DefaultEnd, n>>)
  BY PrepareKeeps
<1>2. s = After(r, vs) /\ k \in 1 .. Len(ws) - 1
  OBVIOUS
<1> HIDE DEF ws
<1>3. /\ IsSeq(vs) /\ Len(vs) = k
      /\ \A i \in 1 .. Len(vs) : i \in 1 .. Len(ws) /\ vs[i] = ws[i]
  BY <1>1, <1>2, Prefix DEF AllKeepTypes
<1> HIDE DEF vs
<1>4. \A i \in 1 .. Len(vs) : KeepsTypes(vs[i])
  BY <1>1, <1>3 DEF AllKeepTypes
<1>5. Typed(s)
  BY <1>2, <1>3, <1>4, AfterTyped
<1>6. 1 \in 1 .. Len(vs) /\ To(vs[1], "loc", 0)
  <2>1. 1 \in 1 .. Len(vs)
    BY <1>1, <1>2, <1>3
  <2>2. vs[1] = Put("loc", <<DefaultBegin, DefaultEnd, n>>)
    BY <1>1, <1>3, <2>1
  <2> QED
    BY <2>1, <2>2, PutTo
<1>7. s.loc = Word(vs, "loc", 0, r.loc)
  BY <1>2, AfterWords
<1>8. \E i \in 1 .. Len(vs) : To(vs[i], "loc", 0) /\ s.loc = Value(vs[i])
  BY <1>3, <1>6, <1>7, WordOrigin
<1>9. \A i \in 1 .. Len(vs) : To(vs[i], "loc", 0) => Value(vs[i]) \in Locs
  BY <1>4 DEF KeepsTypes, To, Value
<1> QED
  BY <1>5, <1>8, <1>9

\* What is left when an operation on samples is interrupted.
LEMMA PrefixOfOperation ==
  ASSUME NEW r, Typed(r), {r.head, r.tail} \subseteq Room(r.loc),
         NEW ws, AllKeepTypes(ws), AllKeepRoom(ws, r.loc),
         NEW k \in 1 .. Len(ws) - 1, NEW s, s = After(r, SubSeq(ws, 1, k))
  PROVE  Typed(s) /\ SameControl(r, s) /\ {s.head, s.tail} \subseteq Room(s.loc)
<1> DEFINE vs == SubSeq(ws, 1, k)
<1>1. s = After(r, vs)
  OBVIOUS
<1>2. IsSeq(vs) /\ \A i \in 1 .. Len(vs) : i \in 1 .. Len(ws) /\ vs[i] = ws[i]
  BY Prefix DEF AllKeepTypes
<1> HIDE DEF vs
<1>3. \A i \in 1 .. Len(vs) : KeepsTypes(vs[i]) /\ KeepsRoom(vs[i], r.loc)
  BY <1>2 DEF AllKeepTypes, AllKeepRoom
<1>4. Typed(s)
  BY <1>1, <1>2, <1>3, AfterTyped
<1>5. SameControl(r, s) /\ {s.head, s.tail} \subseteq Room(s.loc)
  BY <1>1, <1>2, <1>3, AfterRoom
<1> QED
  BY <1>4, <1>5
Placed ==
  /\ Typed(rtc)
  /\ rtc.magic => rtc.loc \in Locs
  /\ torn \in {"no", "samples", "prepare"}
  /\ IndexesInStorage

\* IndexesInStorage says that head and tail are in the room for samples.
LEMMA InRoom ==
  ASSUME Placed, rtc.magic, torn # "prepare"
  PROVE  {rtc.head, rtc.tail} \subseteq Room(rtc.loc) /\ rtc.loc \in Locs
<1>1. rtc.loc \in Locs
  BY DEF Placed
<1> QED
  BY <1>1, RoomFacts DEF Placed, IndexesInStorage, Room

LEMMA PlacedNext ==
  ASSUME Typed(rtc'), rtc'.loc \in Locs, torn' \in {"no", "samples", "prepare"},
         torn' # "prepare" => {rtc'.head, rtc'.tail} \subseteq Room(rtc'.loc)
  PROVE  Placed'
<1>1. rtc_fifo_get_first(rtc') .. rtc_fifo_get_last(rtc') - 1 = Room(rtc'.loc)
  BY RoomFacts DEF Room
<1> QED
  BY <1>1 DEF Placed, IndexesInStorage, Typed, rtc_fifo_get_first, rtc_fifo_get_last,
              rtc_fifo_get_tagpos, rtc_fifo_get_tagcount

LEMMA PlacedInit == Init => Placed
<1> SUFFICES ASSUME Init PROVE Placed
  OBVIOUS
<1>1. PICK junk \in {0} \cup Tags :
        rtc = [magic |-> FALSE, loc |-> <<0, 0, 0>>, count |-> 0, head |-> 0,
               tail |-> 0, head_t |-> 0, tail_t |-> 0,
               mem |-> [a \in Slots |-> junk]]
  BY DEF Init
<1>2. junk \in Nat
  BY SamplesAssumption
<1>3. /\ rtc.count = 0 /\ rtc.tail_t = 0 /\ ~ rtc.magic
      /\ \A a \in Slots : rtc.mem[a] = junk
  BY <1>1
<1>4. torn = "no"
  BY DEF Init
<1> QED
  BY <1>2, <1>3, <1>4 DEF Placed, Typed, IndexesInStorage

\* An operation that keeps head and tail where they belong.
LEMMA PlacedOperation ==
  ASSUME Placed, rtc.magic, NEW ws, AllKeepTypes(ws),
         {rtc.head, rtc.tail} \subseteq Room(rtc.loc) => AllKeepRoom(ws, rtc.loc),
         rtc' = After(rtc, ws), torn' = torn
  PROVE  Placed'
<1>1. rtc.loc \in Locs /\ Typed(rtc) /\ torn \in {"no", "samples", "prepare"}
  BY DEF Placed
<1>2. IsSeq(ws) /\ \A i \in 1 .. Len(ws) : KeepsTypes(ws[i])
  BY DEF AllKeepTypes
<1>3. Typed(rtc') /\ rtc'.loc \in Locs
  BY <1>1, <1>2, AfterTyped
<1>4. ASSUME torn # "prepare" PROVE {rtc'.head, rtc'.tail} \subseteq Room(rtc'.loc)
  <2>1. {rtc.head, rtc.tail} \subseteq Room(rtc.loc)
    BY <1>4, InRoom
  <2>2. \A i \in 1 .. Len(ws) : KeepsRoom(ws[i], rtc.loc)
    BY <2>1 DEF AllKeepRoom
  <2> QED
    BY <1>2, <2>1, <2>2, AfterRoom
<1> QED
  BY <1>1, <1>3, <1>4, PlacedNext

LEMMA PlacedCut ==
  ASSUME Placed, rtc.magic, torn = "no", NEW ws, AllKeepTypes(ws),
         {rtc.head, rtc.tail} \subseteq Room(rtc.loc) => AllKeepRoom(ws, rtc.loc),
         CutShort(ws, "samples")
  PROVE  Placed'
<1>1. /\ rtc.loc \in Locs /\ Typed(rtc) /\ {rtc.head, rtc.tail} \subseteq Room(rtc.loc)
  BY InRoom DEF Placed
<1>2. PICK k \in 1 .. Len(ws) - 1 : rtc' = After(rtc, SubSeq(ws, 1, k))
  BY DEF CutShort
<1>3. /\ Typed(rtc') /\ SameControl(rtc, rtc')
      /\ {rtc'.head, rtc'.tail} \subseteq Room(rtc'.loc)
  BY <1>1, <1>2, PrefixOfOperation
<1>4. rtc'.loc \in Locs
  BY <1>1, <1>3 DEF SameControl
<1>5. torn' = "samples"
  BY DEF CutShort
<1> QED
  BY <1>3, <1>4, <1>5, PlacedNext

LEMMA PlacedStep == Placed /\ [Next]_vars => Placed'
<1> SUFFICES ASSUME Placed, [Next]_vars PROVE Placed'
  OBVIOUS
<1>0. Typed(rtc) /\ (rtc.magic => rtc.loc \in Locs) /\ rtc.count \in Int
  BY DEF Placed, Typed
<1>1. CASE prepare
  <2>0. PICK n \in SensorCounts : \E other \in OtherStorage(n) :
          /\ rtc' = After(rtc, rtcfifo_prepare(rtc, n, other))
          /\ torn' = "no"
    BY <1>1 DEF prepare
  <2>1. PICK other \in OtherStorage(n) :
          /\ rtc' = After(rtc, rtcfifo_prepare(rtc, n, other))
          /\ torn' = "no"
    BY <2>0
  <2>2. /\ rtc'.loc = Final(n, other)
        /\ rtc'.head = DefaultBegin + n /\ rtc'.tail = DefaultBegin + n
    BY <2>1, AfterPrepare
  <2>3. /\ Final(n, other) \in Locs /\ Final(n, other)[3] = n
    BY OtherWrites
  <2>4. Typed(rtc')
    <3>1. AllKeepTypes(rtcfifo_prepare(rtc, n, other))
      BY PrepareKeeps
    <3> QED
      BY <1>0, <2>1, <3>1, AfterTyped DEF AllKeepTypes
  <2>5. DefaultBegin + n \in Room(Final(n, other))
    BY <2>3, LocFacts, SlotsAssumption DEF Room
  <2> QED
    BY <2>1, <2>2, <2>3, <2>4, <2>5, PlacedNext
<1>2. CASE put
  <2>1. PICK s \in Samples, t \in Times :
          /\ rtc.magic
          /\ rtc' = After(rtc, rtc_fifo_store_sample(rtc, s, t))
          /\ IF Misfit(rtc, s, t) THEN torn' = "no" ELSE torn' = torn
    BY <1>2 DEF put
  <2>2. /\ AllKeepTypes(rtc_fifo_store_sample(rtc, s, t))
        /\ {rtc.head, rtc.tail} \subseteq Room(rtc.loc) =>
             AllKeepRoom(rtc_fifo_store_sample(rtc, s, t), rtc.loc)
    BY <1>0, <2>1, StoreKeeps
  <2>3. CASE ~ Misfit(rtc, s, t)
    BY <2>1, <2>2, <2>3, PlacedOperation
  <2>4. CASE Misfit(rtc, s, t)
    <3>1. /\ SameControl(rtc, rtc')
          /\ rtc'.head = rtc_fifo_get_first(rtc)
          /\ rtc'.tail = rtc_fifo_normalise_index(rtc, rtc_fifo_get_first(rtc) + 1)
      BY <1>0, <2>1, <2>4, AfterMisfit
    <3>2. rtc'.loc = rtc.loc /\ rtc'.loc \in Locs
      BY <1>0, <2>1, <3>1 DEF SameControl
    <3>3. {rtc'.head, rtc'.tail} \subseteq Room(rtc'.loc)
      BY <3>1, <3>2, RoomFacts
    <3>4. Typed(rtc')
      BY <1>0, <2>1, <2>2, AfterTyped DEF AllKeepTypes
    <3> QED
      BY <2>1, <2>4, <3>2, <3>3, <3>4, PlacedNext
  <2> QED
    BY <2>3, <2>4
<1>3. CASE pop
  <2>1. rtc.magic /\ rtc' = After(rtc, rtc_fifo_pop_sample(rtc)) /\ torn' = torn
    BY <1>3 DEF pop
  <2>2. /\ AllKeepTypes(rtc_fifo_pop_sample(rtc))
        /\ {rtc.head, rtc.tail} \subseteq Room(rtc.loc) =>
             AllKeepRoom(rtc_fifo_pop_sample(rtc), rtc.loc)
    BY <1>0, <2>1, PopKeeps
  <2> QED
    BY <2>1, <2>2, PlacedOperation
<1>4. CASE drop
  <2>1. PICK n \in 1 .. rtc.count :
          rtc.magic /\ rtc' = After(rtc, rtc_fifo_drop_samples(rtc, n)) /\ torn' = torn
    BY <1>4 DEF drop
  <2>2. /\ AllKeepTypes(rtc_fifo_drop_samples(rtc, n))
        /\ {rtc.head, rtc.tail} \subseteq Room(rtc.loc) =>
             AllKeepRoom(rtc_fifo_drop_samples(rtc, n), rtc.loc)
    BY <1>0, <2>1, DropKeeps
  <2> QED
    BY <2>1, <2>2, PlacedOperation
<1>5. CASE reset_in_prepare
  <2>0. PICK n \in SensorCounts : \E other \in OtherStorage(n) :
          CutShort(rtcfifo_prepare(rtc, n, other), "prepare")
    BY <1>5 DEF reset_in_prepare
  <2>1. PICK other \in OtherStorage(n) :
          CutShort(rtcfifo_prepare(rtc, n, other), "prepare")
    BY <2>0
  <2>2. PICK k \in 1 .. Len(rtcfifo_prepare(rtc, n, other)) - 1 :
          rtc' = After(rtc, SubSeq(rtcfifo_prepare(rtc, n, other), 1, k))
    BY <2>1 DEF CutShort
  <2>3. torn' = "prepare"
    BY <2>1 DEF CutShort
  <2>4. Typed(rtc') /\ rtc'.loc \in Locs
    BY <1>0, <2>2, PrefixOfPrepare
  <2> QED
    BY <2>3, <2>4, PlacedNext
<1>6. CASE reset_in_operation
  <2>1. rtc.magic /\ torn = "no"
    BY <1>6 DEF reset_in_operation
  <2>2. ASSUME NEW s \in Samples, NEW t \in Times,
               CutShort(rtc_fifo_store_sample(rtc, s, t), "samples")
        PROVE  Placed'
    <3>1. /\ AllKeepTypes(rtc_fifo_store_sample(rtc, s, t))
          /\ {rtc.head, rtc.tail} \subseteq Room(rtc.loc) =>
               AllKeepRoom(rtc_fifo_store_sample(rtc, s, t), rtc.loc)
      BY <1>0, <2>1, StoreKeeps
    <3> QED
      BY <2>1, <2>2, <3>1, PlacedCut
  <2>3. ASSUME NEW n \in 1 .. rtc.count, CutShort(rtc_fifo_drop_samples(rtc, n), "samples")
        PROVE  Placed'
    <3>1. /\ AllKeepTypes(rtc_fifo_drop_samples(rtc, n))
          /\ {rtc.head, rtc.tail} \subseteq Room(rtc.loc) =>
               AllKeepRoom(rtc_fifo_drop_samples(rtc, n), rtc.loc)
      BY <1>0, <2>1, DropKeeps
    <3> QED
      BY <2>1, <2>3, <3>1, PlacedCut
  <2>4. ASSUME CutShort(rtc_fifo_pop_sample(rtc), "samples") PROVE Placed'
    <3>1. /\ AllKeepTypes(rtc_fifo_pop_sample(rtc))
          /\ {rtc.head, rtc.tail} \subseteq Room(rtc.loc) =>
               AllKeepRoom(rtc_fifo_pop_sample(rtc), rtc.loc)
      BY <1>0, <2>1, PopKeeps
    <3> QED
      BY <2>1, <2>4, <3>1, PlacedCut
  <2> QED
    BY <1>6, <2>2, <2>3, <2>4 DEF reset_in_operation
<1>7. CASE UNCHANGED vars
  BY <1>7 DEF vars, Placed, Typed, IndexesInStorage, rtc_fifo_get_first,
              rtc_fifo_get_last, rtc_fifo_get_tagpos, rtc_fifo_get_tagcount
<1> QED
  BY <1>1, <1>2, <1>3, <1>4, <1>5, <1>6, <1>7 DEF Next

\* Samples are stored and read in the slots behind the sensor names only, also
\* when a reset has stopped an operation on samples after any of its writes.
THEOREM IndexesStay == Spec => []IndexesInStorage
<1>1. Placed => IndexesInStorage
  BY DEF Placed
<1> QED
  BY <1>1, PlacedInit, PlacedStep, PTL DEF Spec
============================================================================
