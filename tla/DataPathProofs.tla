--------------------------- MODULE DataPathProofs ---------------------------
(***************************************************************************)
(* Proofs about the frame check, the live events and the layout of frames, *)
(* which share no state: every frame of a byte stream that nothing         *)
(* overlaps is handed over, however the stream is cut, the loop that looks *)
(* for them ends, and what waits is bounded; each stream of the console    *)
(* shows the events of a publisher in their order; no byte is read beyond  *)
(* the end of a frame; an answer goes back to its sender, and what a       *)
(* bridge sends names its terminal, for any addresses.                     *)
(***************************************************************************)
EXTENDS FrameCheck, LiveEvents, FrameLayout,
        SequenceTheorems, NaturalsInduction, WellFoundedInduction, TLAPS

(* The frame check (zptl/ptlchk.go) *)

USE CheckAssumption

Bytes == Seq(Nat)

LEMMA Least ==
  ASSUME NEW S, S \subseteq Nat, S # {}
  PROVE  \E m \in S : \A k \in S : m <= k
<1> DEFINE R == {p \in Nat \X Nat : p[1] < p[2]}
<1>1. IsWellFoundedOn(R, Nat)
  BY NatLessThanWellFounded DEF OpToRel
<1>2. PICK m \in S : \A k \in S : ~(<<k, m>> \in R)
  <2> HIDE DEF R
  <2> QED  BY <1>1, WFMin
<1>3. ASSUME NEW k \in S PROVE m <= k
  <2>1. ~(k < m) /\ k \in Nat /\ m \in Nat
    BY <1>2
  <2> HIDE DEF R
  <2> QED  BY <2>1
<1> QED  BY <1>3

(* What follows a place in a sequence.                                     *)
LEMMA FromFacts ==
  ASSUME NEW b \in Bytes, NEW i \in 1..(Len(b) + 1)
  PROVE  /\ From(b, i) \in Bytes /\ Len(From(b, i)) = Len(b) - i + 1
         /\ \A k \in 1..Len(From(b, i)) : From(b, i)[k] = b[i + k - 1]
<1>1. Len(b) \in Nat
  BY DEF Bytes
<1>2. /\ SubSeq(b, i, Len(b)) \in Seq(Nat) /\ Len(SubSeq(b, i, Len(b))) = Len(b) - i + 1
      /\ \A k \in 1..(Len(b) - i + 1) : SubSeq(b, i, Len(b))[k] = b[i + k - 1]
  BY <1>1 DEF Bytes
<1> QED  BY <1>2 DEF From, Bytes

LEMMA FromFrom ==
  ASSUME NEW b \in Bytes, NEW i \in 1..(Len(b) + 1), NEW j \in 1..(Len(b) - i + 2)
  PROVE  From(From(b, i), j) = From(b, i + j - 1)
<1>1. PICK c \in Bytes : c = From(b, i)
  BY FromFacts
<1>2. Len(b) \in Nat /\ Len(c) = Len(b) - i + 1 /\ \A k \in 1..Len(c) : c[k] = b[i + k - 1]
  BY <1>1, FromFacts, SMTT(20) DEF Bytes
<1>3. j \in 1..(Len(c) + 1) /\ i + j - 1 \in 1..(Len(b) + 1)
  BY <1>2
<1>4. /\ From(c, j) \in Bytes /\ Len(From(c, j)) = Len(c) - j + 1
      /\ \A k \in 1..Len(From(c, j)) : From(c, j)[k] = c[j + k - 1]
  BY <1>3, FromFacts
<1>5. PICK m \in 1..(Len(b) + 1) : m = i + j - 1
  BY <1>3
<1>6. /\ From(b, m) \in Bytes /\ Len(From(b, m)) = Len(b) - m + 1
      /\ \A k \in 1..Len(From(b, m)) : From(b, m)[k] = b[m + k - 1]
  BY FromFacts
<1>7. Len(From(c, j)) = Len(From(b, m))
  BY <1>2, <1>4, <1>5, <1>6
<1>8. \A k \in 1..Len(From(c, j)) : From(c, j)[k] = From(b, m)[k]
  BY <1>2, <1>4, <1>5, <1>6, <1>7, SMTT(20)
<1>9. From(c, j) = From(b, m)
  BY <1>4, <1>6, <1>7, <1>8, SeqEqual DEF Bytes
<1> QED  BY <1>1, <1>5, <1>9

LEMMA FromMore ==
  ASSUME NEW b \in Bytes, NEW x \in Bytes, NEW i \in 1..(Len(b) + 1)
  PROVE  From(b \o x, i) = From(b, i) \o x
<1>1. /\ b \o x \in Bytes /\ Len(b \o x) = Len(b) + Len(x) /\ Len(b) \in Nat /\ Len(x) \in Nat
      /\ \A k \in 1..Len(b) : (b \o x)[k] = b[k]
      /\ \A k \in 1..Len(x) : (b \o x)[Len(b) + k] = x[k]
  BY DEF Bytes
<1>2. PICK y \in Bytes : y = b \o x
  BY <1>1
<1>3. i \in 1..(Len(y) + 1)
  BY <1>1, <1>2
<1>4. /\ From(y, i) \in Bytes /\ Len(From(y, i)) = Len(y) - i + 1
      /\ \A k \in 1..Len(From(y, i)) : From(y, i)[k] = y[i + k - 1]
  BY <1>3, FromFacts
<1>5. PICK c \in Bytes : c = From(b, i)
  BY FromFacts
<1>6. Len(c) = Len(b) - i + 1 /\ \A k \in 1..Len(c) : c[k] = b[i + k - 1]
  BY <1>5, FromFacts
<1>7. /\ c \o x \in Bytes /\ Len(c \o x) = Len(c) + Len(x)
      /\ \A k \in 1..Len(c) : (c \o x)[k] = c[k]
      /\ \A k \in 1..Len(x) : (c \o x)[Len(c) + k] = x[k]
  BY DEF Bytes
<1>8. Len(From(y, i)) = Len(c \o x)
  BY <1>1, <1>2, <1>4, <1>6, <1>7
<1>9. ASSUME NEW k \in 1..Len(From(y, i)) PROVE From(y, i)[k] = (c \o x)[k]
  <2>0. Len(c) \in Nat /\ k \in 1..(Len(c) + Len(x))
    BY <1>1, <1>6, <1>7, <1>8
  <2>1. CASE k <= Len(c)
    <3>1. k \in 1..Len(c) /\ i + k - 1 \in 1..Len(b)
      BY <1>1, <1>6, <2>0, <2>1
    <3>2. From(y, i)[k] = y[i + k - 1] /\ (c \o x)[k] = c[k] /\ c[k] = b[i + k - 1]
      BY <1>4, <1>6, <1>7, <3>1
    <3>3. PICK m \in 1..Len(b) : m = i + k - 1
      BY <3>1
    <3>4. y[m] = b[m]
      BY <1>1, <1>2
    <3> QED  BY <3>2, <3>3, <3>4
  <2>2. CASE k > Len(c)
    <3>0. k - Len(c) \in 1..Len(x)
      BY <1>1, <2>0, <2>2
    <3>1. PICK n \in 1..Len(x) : n = k - Len(c)
      BY <3>0
    <3>2. i + k - 1 = Len(b) + n /\ k = Len(c) + n
      BY <1>1, <1>6, <3>1
    <3>3. From(y, i)[k] = y[Len(b) + n]
      BY <1>4, <3>2
    <3>4. y[Len(b) + n] = x[n] /\ (c \o x)[Len(c) + n] = x[n]
      BY <1>1, <1>2, <1>7
    <3> QED  BY <3>2, <3>3, <3>4
  <2> QED  BY <1>1, <2>0, <2>1, <2>2
<1>10. From(y, i) = c \o x
  BY <1>4, <1>7, <1>8, <1>9, SeqEqual DEF Bytes
<1> QED  BY <1>2, <1>5, <1>10

LEMMA TailIsFrom ==
  ASSUME NEW b \in Bytes, b # <<>>
  PROVE  Len(b) >= 1 /\ Tail(b) = From(b, 2)
<1>1. Len(b) \in Nat /\ Len(b) >= 1
  BY EmptySeq DEF Bytes
<1>2. Tail(b) \in Seq(Nat) /\ Len(Tail(b)) = Len(b) - 1
      /\ \A k \in 1..Len(Tail(b)) : Tail(b)[k] = b[k + 1]
  BY <1>1, HeadTailProperties DEF Bytes
<1>3. 2 \in 1..(Len(b) + 1)
  BY <1>1
<1>4. /\ From(b, 2) \in Bytes /\ Len(From(b, 2)) = Len(b) - 1
      /\ \A k \in 1..Len(From(b, 2)) : From(b, 2)[k] = b[2 + k - 1]
  BY <1>1, <1>3, FromFacts
<1>5. \A k \in 1..Len(Tail(b)) : Tail(b)[k] = From(b, 2)[k]
  BY <1>1, <1>2, <1>4
<1> QED  BY <1>1, <1>2, <1>4, <1>5, SeqEqual DEF Bytes

LEMMA SumMore ==
  ASSUME NEW b \in Bytes, NEW x \in Bytes, NEW i \in Nat \ {0}, NEW j \in Nat, j <= Len(b)
  PROVE  Sum(b \o x, i, j) = Sum(b, i, j)
<1>1. /\ b \o x \in Seq(Nat) /\ Len(b \o x) = Len(b) + Len(x) /\ Len(b) \in Nat /\ Len(x) \in Nat
      /\ \A k \in 1..Len(b) : (b \o x)[k] = b[k]
  BY DEF Bytes
<1>2. PICK y \in Seq(Nat) : y = b \o x
  BY <1>1
<1>3. SubSeq(y, i, j) = SubSeq(b, i, j)
  <2>1. \A k \in i..j : y[k] \in Nat /\ b[k] \in Nat /\ y[k] = b[k]
    BY <1>1, <1>2 DEF Bytes
  <2>2. /\ SubSeq(y, i, j) \in Seq(Nat) /\ SubSeq(b, i, j) \in Seq(Nat)
        /\ Len(SubSeq(y, i, j)) = (IF i <= j THEN j - i + 1 ELSE 0)
        /\ Len(SubSeq(b, i, j)) = (IF i <= j THEN j - i + 1 ELSE 0)
        /\ \A k \in 1..(j - i + 1) : SubSeq(y, i, j)[k] = y[i + k - 1]
        /\ \A k \in 1..(j - i + 1) : SubSeq(b, i, j)[k] = b[i + k - 1]
    <3>1. /\ SubSeq(y, i, j) \in Seq(Nat)
          /\ Len(SubSeq(y, i, j)) = (IF i <= j THEN j - i + 1 ELSE 0)
          /\ \A k \in 1..(j - i + 1) : SubSeq(y, i, j)[k] = y[i + k - 1]
      BY <2>1, SubSeqProperties
    <3>2. /\ SubSeq(b, i, j) \in Seq(Nat)
          /\ Len(SubSeq(b, i, j)) = (IF i <= j THEN j - i + 1 ELSE 0)
          /\ \A k \in 1..(j - i + 1) : SubSeq(b, i, j)[k] = b[i + k - 1]
      BY <2>1, SubSeqProperties
    <3> QED  BY <3>1, <3>2
  <2>3. \A k \in 1..Len(SubSeq(y, i, j)) : SubSeq(y, i, j)[k] = SubSeq(b, i, j)[k]
    <3>1. ASSUME NEW k \in 1..(j - i + 1)
          PROVE  SubSeq(y, i, j)[k] = SubSeq(b, i, j)[k]
      <4>1. i + k - 1 \in i..j
        OBVIOUS
      <4> QED  BY <2>1, <2>2, <4>1
    <3> QED  BY <2>2, <3>1
  <2> QED  BY <2>2, <2>3, SeqEqual
<1> QED  BY <1>2, <1>3 DEF Sum

(* What a verdict means, and that more bytes never change one that is made.*)
LEMMA Verdict698 ==
  ASSUME NEW b \in Bytes, NEW v, v = ptl698_45IsValid(b)
  PROVE  /\ v \in Int /\ v <= Len(b)
         /\ Len(b) >= 1 /\ b[1] # Start => v = -1
         /\ v = 0 => Len(b) < Max698 + 2 \/ Len(b) < 3 + AddrSpace
         /\ \A x \in Bytes : v # 0 => ptl698_45IsValid(b \o x) = v
<1>1. Len(b) \in Nat /\ \A k \in 1..Len(b) : b[k] \in Nat
  BY DEF Bytes
<1> DEFINE L(c)    == c[2]
           head(c) == 4 + (c[3] % AddrSpace)
           seen(c) == Len(c) >= 3 /\ Len(c) >= head(c)
           bad(c)  == \/ Len(c) >= 1 /\ c[1] # Start
                      \/ Len(c) >= 2 /\ (L(c) > Max698 \/ L(c) < 3)
                      \/ seen(c) /\ c[head(c)] # Sum(c, 2, head(c) - 1)
                      \/ seen(c) /\ Len(c) >= L(c) + 1 /\ c[L(c) + 1] # Sum(c, 2, L(c))
                      \/ seen(c) /\ Len(c) >= L(c) + 2 /\ c[L(c) + 2] # End
           full(c) == seen(c) /\ Len(c) >= L(c) + 2
<1>2. \A c : ptl698_45IsValid(c) = IF bad(c) THEN -1 ELSE IF full(c) THEN L(c) + 2 ELSE 0
  BY DEF ptl698_45IsValid
<1>3. Len(b) >= 2 => L(b) \in Nat
  BY <1>1
<1>4. Len(b) >= 3 => head(b) \in 4..(3 + AddrSpace)
  <2> SUFFICES ASSUME Len(b) >= 3 PROVE head(b) \in 4..(3 + AddrSpace)
    OBVIOUS
  <2>1. PICK n \in Nat : n = b[3]
    BY <1>1
  <2>2. (n % AddrSpace) \in 0..(AddrSpace - 1)
    OBVIOUS
  <2> QED  BY <2>1, <2>2
<1>5. ASSUME NEW x \in Bytes, v # 0
      PROVE  ptl698_45IsValid(b \o x) = v
  <2>0. b \o x \in Bytes
    BY DEF Bytes
  <2>1. PICK c \in Bytes : c = b \o x
    BY <2>0
  <2>2. Len(c) \in Nat /\ Len(c) >= Len(b) /\ \A k \in 1..Len(b) : c[k] = b[k]
    BY <1>1, <2>1 DEF Bytes
  <2>3. \A i \in Nat \ {0}, j \in Nat : j <= Len(b) => Sum(c, i, j) = Sum(b, i, j)
    <3> SUFFICES ASSUME NEW i \in Nat \ {0}, NEW j \in Nat, j <= Len(b)
                 PROVE  Sum(c, i, j) = Sum(b, i, j)
      OBVIOUS
    <3>1. Sum(b \o x, i, j) = Sum(b, i, j)
      BY SumMore
    <3> QED  BY <2>1, <3>1
  <2>4. Len(b) >= 1 => c[1] = b[1]
    BY <1>1, <2>2
  <2>5. Len(b) >= 2 => L(c) = L(b)
    BY <1>1, <2>2
  <2>6. Len(b) >= 3 => head(c) = head(b)
    BY <1>1, <2>2
  <2>7. seen(b) => seen(c) /\ c[head(b)] = b[head(b)] /\ Sum(c, 2, head(b) - 1) = Sum(b, 2, head(b) - 1)
    BY <1>1, <1>4, <2>2, <2>3, <2>6
  <2>8. seen(b) /\ Len(b) >= L(b) + 1 => c[L(b) + 1] = b[L(b) + 1] /\ Sum(c, 2, L(b)) = Sum(b, 2, L(b))
    BY <1>1, <1>3, <2>2, <2>3
  <2>9. seen(b) /\ Len(b) >= L(b) + 2 => c[L(b) + 2] = b[L(b) + 2]
    BY <1>1, <1>3, <2>2
  <2> HIDE DEF head
  <2>10. CASE bad(b)
    <3>1. bad(c)
      BY <1>1, <1>3, <2>2, <2>4, <2>5, <2>6, <2>7, <2>8, <2>9, <2>10
    <3> QED  BY <1>2, <2>1, <2>10, <3>1
  <2>11. CASE ~bad(b) /\ full(b)
    <3>1. ~bad(c) /\ full(c) /\ L(c) = L(b)
      BY <1>1, <1>3, <2>2, <2>4, <2>5, <2>6, <2>7, <2>8, <2>9, <2>11, SMTT(20)
    <3> QED  BY <1>2, <2>1, <2>11, <3>1
  <2> QED  BY <1>2, <1>5, <2>10, <2>11
<1>6. v \in Int /\ v <= Len(b)
  BY <1>1, <1>2, <1>3
<1>7. Len(b) >= 1 /\ b[1] # Start => v = -1
  BY <1>2
<1>8. v = 0 => Len(b) < Max698 + 2 \/ Len(b) < 3 + AddrSpace
  <2> SUFFICES ASSUME v = 0 PROVE Len(b) < Max698 + 2 \/ Len(b) < 3 + AddrSpace
    OBVIOUS
  <2>1. ~bad(b) /\ (full(b) => L(b) + 2 = 0)
    <3>1. v = IF bad(b) THEN -1 ELSE IF full(b) THEN L(b) + 2 ELSE 0
      BY <1>2
    <3> HIDE DEF bad, full, L
    <3> QED  BY <3>1
  <2>2. CASE Len(b) < 3
    BY <1>1, <2>2
  <2>3. CASE Len(b) >= 3
    <3>1. L(b) \in Nat /\ L(b) <= Max698 /\ head(b) <= 3 + AddrSpace /\ head(b) \in Nat
      BY <1>1, <1>3, <1>4, <2>1, <2>3
    <3> HIDE DEF head, L
    <3>2. CASE Len(b) < head(b)
      BY <1>1, <3>1, <3>2
    <3>3. CASE Len(b) < L(b) + 2
      BY <1>1, <3>1, <3>3
    <3>4. Len(b) >= head(b) /\ Len(b) >= L(b) + 2 => full(b) /\ L(b) + 2 # 0
      BY <1>1, <2>3, <3>1
    <3> QED  BY <1>1, <2>1, <3>1, <3>2, <3>3, <3>4
  <2> QED  BY <1>1, <2>2, <2>3
<1> QED  BY <1>5, <1>6, <1>7, <1>8

LEMMA VerdictTwin ==
  ASSUME NEW b \in Bytes, NEW unit \in {1, 2}, NEW v, v = twinIsValid(b, unit)
  PROVE  /\ v \in Int /\ v <= Len(b)
         /\ Len(b) >= 1 /\ b[1] # Start => v = -1
         /\ v = 0 => Len(b) < MaxTwin + 6
         /\ \A x \in Bytes : v # 0 => twinIsValid(b \o x, unit) = v
<1>1. Len(b) \in Nat /\ \A k \in 1..Len(b) : b[k] \in Nat
  BY DEF Bytes
<1> DEFINE L(c)    == c[2] \div unit
           bad(c)  == \/ Len(c) >= 1 /\ c[1] # Start
                      \/ Len(c) >= 4 /\ c[4] # Start
                      \/ Len(c) >= 5 /\ (c[2] # c[3] \/ L(c) > MaxTwin \/ L(c) < 1)
                      \/ Len(c) >= 5 /\ Len(c) >= L(c) + 5 /\ c[L(c) + 5] # Sum(c, 5, L(c) + 4)
                      \/ Len(c) >= 5 /\ Len(c) >= L(c) + 6 /\ c[L(c) + 6] # End
           full(c) == Len(c) >= 5 /\ Len(c) >= L(c) + 6
<1>2. \A c : twinIsValid(c, unit) = IF bad(c) THEN -1 ELSE IF full(c) THEN L(c) + 6 ELSE 0
  BY DEF twinIsValid
<1>3. Len(b) >= 2 => L(b) \in Nat
  <2> SUFFICES ASSUME Len(b) >= 2 PROVE L(b) \in Nat
    OBVIOUS
  <2>1. PICK n \in Nat : n = b[2]
    BY <1>1
  <2>2. (n \div 1) \in Nat /\ (n \div 2) \in Nat
    OBVIOUS
  <2> QED  BY <2>1, <2>2
<1>4. v = IF bad(b) THEN -1 ELSE IF full(b) THEN L(b) + 6 ELSE 0
  BY <1>2
<1>5. ASSUME NEW x \in Bytes, v # 0
      PROVE  twinIsValid(b \o x, unit) = v
  <2>0. b \o x \in Bytes
    BY DEF Bytes
  <2>1. PICK c \in Bytes : c = b \o x
    BY <2>0
  <2>2. Len(c) \in Nat /\ Len(c) >= Len(b) /\ \A k \in 1..Len(b) : c[k] = b[k]
    BY <1>1, <2>1 DEF Bytes
  <2>3. \A i \in Nat \ {0}, j \in Nat : j <= Len(b) => Sum(c, i, j) = Sum(b, i, j)
    <3> SUFFICES ASSUME NEW i \in Nat \ {0}, NEW j \in Nat, j <= Len(b)
                 PROVE  Sum(c, i, j) = Sum(b, i, j)
      OBVIOUS
    <3>1. Sum(b \o x, i, j) = Sum(b, i, j)
      BY SumMore
    <3> QED  BY <2>1, <3>1
  <2>4. /\ Len(b) >= 1 => c[1] = b[1]
        /\ Len(b) >= 4 => c[4] = b[4]
        /\ Len(b) >= 5 => c[2] = b[2] /\ c[3] = b[3] /\ L(c) = L(b)
    BY <1>1, <2>2
  <2> HIDE DEF L
  <2>5. Len(b) >= 5 /\ Len(b) >= L(b) + 5 =>
          c[L(b) + 5] = b[L(b) + 5] /\ Sum(c, 5, L(b) + 4) = Sum(b, 5, L(b) + 4)
    BY <1>1, <1>3, <2>2, <2>3
  <2>6. Len(b) >= 5 /\ Len(b) >= L(b) + 6 => c[L(b) + 6] = b[L(b) + 6]
    BY <1>1, <1>3, <2>2
  <2>9. twinIsValid(c, unit) = IF bad(c) THEN -1 ELSE IF full(c) THEN L(c) + 6 ELSE 0
    BY <1>2
  <2>7. CASE bad(b)
    <3>1. bad(c)
      <4>0. Len(b) >= 5 => L(c) = L(b) /\ L(b) \in Nat
        BY <1>1, <1>3, <2>4
      <4>1. CASE Len(b) >= 1 /\ b[1] # Start
        BY <1>1, <2>2, <2>4, <4>1
      <4>2. CASE Len(b) >= 4 /\ b[4] # Start
        BY <1>1, <2>2, <2>4, <4>2
      <4>3. CASE Len(b) >= 5 /\ (b[2] # b[3] \/ L(b) > MaxTwin \/ L(b) < 1)
        <5>1. Len(c) >= 5 /\ (c[2] # c[3] \/ L(c) > MaxTwin \/ L(c) < 1)
          BY <1>1, <2>2, <2>4, <4>0, <4>3
        <5> QED  BY <5>1
      <4>4. CASE Len(b) >= 5 /\ Len(b) >= L(b) + 5 /\ b[L(b) + 5] # Sum(b, 5, L(b) + 4)
        <5>1. Len(c) >= 5 /\ Len(c) >= L(c) + 5 /\ c[L(c) + 5] # Sum(c, 5, L(c) + 4)
          BY <1>1, <2>2, <2>5, <4>0, <4>4
        <5> QED  BY <5>1
      <4>5. CASE Len(b) >= 5 /\ Len(b) >= L(b) + 6 /\ b[L(b) + 6] # End
        <5>1. Len(c) >= 5 /\ Len(c) >= L(c) + 6 /\ c[L(c) + 6] # End
          BY <1>1, <2>2, <2>6, <4>0, <4>5
        <5> QED  BY <5>1
      <4> QED  BY <2>7, <4>1, <4>2, <4>3, <4>4, <4>5
    <3> HIDE DEF bad, full
    <3> QED  BY <2>1, <2>9, <1>4, <2>7, <3>1
  <2>8. CASE ~bad(b) /\ full(b)
    <3>1. ~bad(c) /\ full(c) /\ L(c) = L(b)
      <4>1. /\ Len(b) >= 5 /\ Len(b) >= L(b) + 6 /\ L(b) \in Nat
            /\ b[1] = Start /\ b[4] = Start /\ b[2] = b[3] /\ ~(L(b) > MaxTwin) /\ ~(L(b) < 1)
        BY <1>1, <1>3, <2>8, SMTT(20)
      <4>2. Len(b) >= L(b) + 5
        BY <1>1, <4>1
      <4>3. b[L(b) + 5] = Sum(b, 5, L(b) + 4) /\ b[L(b) + 6] = End
        BY <2>8, <4>1, <4>2
      <4>4. /\ c[1] = Start /\ c[4] = Start /\ c[2] = c[3] /\ L(c) = L(b)
            /\ c[L(b) + 5] = Sum(c, 5, L(b) + 4) /\ c[L(b) + 6] = End
        BY <1>1, <2>4, <2>5, <2>6, <4>1, <4>2, <4>3, SMTT(20)
      <4>5. full(c)
        BY <1>1, <2>2, <4>1, <4>4, SMTT(20)
      <4> QED  BY <4>1, <4>4, <4>5
    <3> HIDE DEF bad, full
    <3> QED  BY <2>9, <1>4, <2>1, <2>8, <3>1
  <2> QED  BY <1>4, <1>5, <2>7, <2>8
<1>6. v \in Int /\ v <= Len(b)
  BY <1>1, <1>3, <1>4
<1>7. Len(b) >= 1 /\ b[1] # Start => v = -1
  BY <1>4
<1>8. v = 0 => Len(b) < MaxTwin + 6
  <2> SUFFICES ASSUME v = 0 PROVE Len(b) < MaxTwin + 6
    OBVIOUS
  <2>1. ~bad(b) /\ (full(b) => L(b) + 6 = 0)
    <3> HIDE DEF bad, full, L
    <3> QED  BY <1>4
  <2>2. CASE Len(b) < 5
    BY <1>1, <2>2
  <2>3. CASE Len(b) >= 5
    <3>1. L(b) \in Nat /\ L(b) <= MaxTwin
      BY <1>1, <1>3, <2>1, <2>3
    <3> HIDE DEF L
    <3>2. Len(b) < L(b) + 6
      BY <1>1, <2>1, <2>3, <3>1
    <3> QED  BY <1>1, <3>1, <3>2
  <2> QED  BY <1>1, <2>2, <2>3
<1> QED  BY <1>5, <1>6, <1>7, <1>8

LEMMA VerdictFacts ==
  ASSUME NEW p \in PType, NEW b \in Bytes
  PROVE  /\ Verdict(p, b) \in Int /\ Verdict(p, b) <= Len(b)
         /\ Len(b) >= 1 /\ b[1] # Start => Verdict(p, b) = -1
         /\ Verdict(p, b) = 0 => \/ Len(b) < Max698 + 2
                                 \/ Len(b) < MaxTwin + 6
                                 \/ Len(b) < 3 + AddrSpace
         /\ \A x \in Bytes : Verdict(p, b) # 0 => Verdict(p, b \o x) = Verdict(p, b)
<1>1. CASE p = "698"
  <2>1. \A c : Verdict(p, c) = ptl698_45IsValid(c)
    BY <1>1 DEF Verdict
  <2> QED  BY <2>1, Verdict698
<1>2. CASE p = "nw"
  <2>1. \A c : Verdict(p, c) = twinIsValid(c, 1)
    BY <1>2 DEF Verdict, ptlNwIsValid
  <2> QED  BY <2>1, VerdictTwin
<1>3. CASE p = "1376"
  <2>1. \A c : Verdict(p, c) = twinIsValid(c, 2)
    BY <1>3 DEF Verdict, ptl1376_1IsValid
  <2> QED  BY <2>1, VerdictTwin
<1> QED  BY <1>1, <1>2, <1>3

(* IsValid tells a frame by a protocol that has it, an impossible beginning *)
(* when all protocols find it so, and else waits.                          *)
LEMMA IsValidFacts ==
  ASSUME NEW b \in Bytes, NEW v, v = IsValid(b)
  PROVE  /\ v.len \in Int
         /\ v.len > 0 => v.ptype \in PType /\ Verdict(v.ptype, b) = v.len
         /\ v.len = 0 => /\ \A p \in PType : ~(Verdict(p, b) > 0)
                         /\ \E p \in PType : Verdict(p, b) = 0
         /\ v.len < 0 => \A p \in PType : Verdict(p, b) < 0
<1> DEFINE w    == [i \in 1..3 |-> IF PtlChkTab[i] \in PType THEN Verdict(PtlChkTab[i], b)
                                                             ELSE -1]
           hits == {i \in 1..3 : w[i] > 0}
           h    == CHOOSE i \in hits : \A j \in hits : i <= j
<1>1. v = IF hits # {} THEN [len |-> w[h], ptype |-> PtlChkTab[h]]
          ELSE [len |-> IF \E i \in 1..3 : w[i] = 0 THEN 0 ELSE -1, ptype |-> "unknown"]
  BY DEF IsValid
<1>2. 1..3 = {1, 2, 3}
  OBVIOUS
<1>3. PtlChkTab[1] = "698" /\ PtlChkTab[2] = "nw" /\ PtlChkTab[3] = "1376"
  BY DEF PtlChkTab
<1>4. \A p \in PType : \E i \in 1..3 : PtlChkTab[i] = p /\ w[i] = Verdict(p, b)
  BY <1>2, <1>3
<1>5. \A i \in 1..3 : /\ w[i] \in Int
                      /\ w[i] = -1 \/ (PtlChkTab[i] \in PType /\ w[i] = Verdict(PtlChkTab[i], b))
  <2> TAKE i \in 1..3
  <2>1. w[i] = IF PtlChkTab[i] \in PType THEN Verdict(PtlChkTab[i], b) ELSE -1
    OBVIOUS
  <2>2. PtlChkTab[i] \in PType => Verdict(PtlChkTab[i], b) \in Int
    BY VerdictFacts
  <2> HIDE DEF w
  <2> QED  BY <2>1, <2>2
<1> HIDE DEF w
<1>6. CASE hits # {}
  <2>1. h \in hits
    <3>1. \E i \in hits : \A j \in hits : i <= j
      <4>1. hits \subseteq Nat
        OBVIOUS
      <4> HIDE DEF hits
      <4> QED  BY <1>6, <4>1, Least
    <3> QED  BY <3>1
  <2> HIDE DEF h
  <2>2. h \in 1..3 /\ w[h] > 0 /\ w[h] \in Int /\ w[h] # -1
    BY <1>5, <2>1
  <2>3. v.len = w[h] /\ v.ptype = PtlChkTab[h]
    BY <1>1, <1>6
  <2> QED  BY <1>5, <2>2, <2>3
<1>7. CASE hits = {} /\ \E i \in 1..3 : w[i] = 0
  <2>1. v.len = 0
    BY <1>1, <1>7
  <2>2. \A i \in 1..3 : ~(w[i] > 0)
    BY <1>7
  <2>3. PICK i \in 1..3 : w[i] = 0
    BY <1>7
  <2>4. PtlChkTab[i] \in PType /\ Verdict(PtlChkTab[i], b) = 0
    BY <1>5, <2>3
  <2>5. \A p \in PType : ~(Verdict(p, b) > 0)
    BY <1>4, <2>2
  <2>6. \E p \in PType : Verdict(p, b) = 0
    BY <2>4
  <2> HIDE DEF hits
  <2> QED  BY <2>1, <2>5, <2>6
<1>8. CASE hits = {} /\ ~\E i \in 1..3 : w[i] = 0
  <2>1. v.len = -1
    BY <1>1, <1>8
  <2>2. \A i \in 1..3 : w[i] < 0
    BY <1>5, <1>8
  <2>3. \A p \in PType : Verdict(p, b) < 0
    BY <1>4, <2>2
  <2> QED  BY <2>1, <2>3
<1> QED  BY <1>6, <1>7, <1>8

LEMMA FirstFacts ==
  ASSUME NEW b \in Bytes, NEW o, o = findFirstByte(b)
  PROVE  \/ o = 0 /\ \A j \in 1..Len(b) : b[j] # Start
         \/ o \in 1..Len(b) /\ b[o] = Start /\ \A j \in 1..(o - 1) : b[j] # Start
<1>1. DOMAIN b = 1..Len(b) /\ Len(b) \in Nat
  BY DEF Bytes
<1>2. CASE \E i \in DOMAIN b : b[i] = Start
  <2> DEFINE H == {i \in DOMAIN b : b[i] = Start}
  <2>1. H \subseteq Nat /\ H # {}
    BY <1>1, <1>2
  <2> HIDE DEF H
  <2>2. PICK m \in H : \A j \in H : m <= j
    BY <2>1, Least
  <2>3. m \in DOMAIN b /\ b[m] = Start /\ \A j \in 1..(m - 1) : b[j] # Start
    BY <1>1, <2>2 DEF H
  <2> DEFINE Q(i) == b[i] = Start /\ \A j \in 1..(i - 1) : b[j] # Start
  <2>4. o = CHOOSE i \in DOMAIN b : Q(i)
    BY <1>2 DEF findFirstByte
  <2>5. \E i \in DOMAIN b : Q(i)
    BY <2>3
  <2> HIDE DEF Q
  <2>6. o \in DOMAIN b /\ Q(o)
    BY <2>4, <2>5
  <2> QED  BY <1>1, <2>6 DEF Q
<1>3. CASE ~\E i \in DOMAIN b : b[i] = Start
  BY <1>1, <1>3 DEF findFirstByte
<1> QED  BY <1>2, <1>3

-----------------------------------------------------------------------------
(* The buffer holds the end of what was received; each frame was one of    *)
(* the bytes that stand there, and frames do not overlap; every byte that  *)
(* has left the buffer cannot begin a frame, or a timeout took it, or it   *)
(* is within a frame; what waits is unfinished.                            *)
Frame == [at : Nat \ {0}, len : Nat \ {0}, ptype : PType]

CheckTypeOK == /\ line \in Bytes /\ got \in Bytes /\ buf \in Bytes
               /\ scanning \in BOOLEAN /\ out \in Seq(Frame) /\ slips \in Seq(Nat)

InBuf == Len(buf) <= Len(got) /\ buf = From(got, base + 1)

Framed ==
  \A k \in 1..Len(out) :
    /\ out[k].at + out[k].len <= base + 1
    /\ Verdict(out[k].ptype, From(got, out[k].at)) = out[k].len
    /\ k < Len(out) => out[k].at + out[k].len <= out[k + 1].at

Dead(g, i)  == \A p \in PType : Verdict(p, From(g, i)) < 0
Slipped(i)  == \E k \in 1..Len(slips) : slips[k] = i
Within(i)   == \E k \in 1..Len(out) : out[k].at <= i /\ i < out[k].at + out[k].len
Accounted   == \A i \in 1..base : Dead(got, i) \/ Slipped(i) \/ Within(i)

Waits == ~scanning => buf = <<>> \/ IsValid(buf).len = 0

CheckInv == CheckTypeOK /\ InBuf /\ Framed /\ Accounted /\ Waits

LEMMA FromOne ==
  ASSUME NEW b \in Bytes
  PROVE  From(b, 1) = b /\ From(b, Len(b) + 1) = <<>>
<1>1. Len(b) \in Nat /\ 1 \in 1..(Len(b) + 1) /\ Len(b) + 1 \in 1..(Len(b) + 1)
  BY DEF Bytes
<1>2. /\ From(b, 1) \in Bytes /\ Len(From(b, 1)) = Len(b)
      /\ \A k \in 1..Len(From(b, 1)) : From(b, 1)[k] = b[k]
  BY <1>1, FromFacts
<1>3. From(b, 1) = b
  BY <1>2, SeqEqual DEF Bytes
<1>4. From(b, Len(b) + 1) \in Bytes /\ Len(From(b, Len(b) + 1)) = 0
  BY <1>1, FromFacts
<1> QED  BY <1>3, <1>4, EmptySeq DEF Bytes

(* What is left of the end of g when its first d bytes go.                 *)
LEMMA Shifted ==
  ASSUME NEW g \in Bytes, NEW c \in Bytes, Len(c) <= Len(g), c = From(g, Len(g) - Len(c) + 1),
         NEW d \in 0..Len(c)
  PROVE  /\ From(c, d + 1) \in Bytes /\ Len(From(c, d + 1)) = Len(c) - d
         /\ From(c, d + 1) = From(g, Len(g) - Len(c) + d + 1)
         /\ Len(g) - Len(c) + d + 1 \in 1..(Len(g) + 1)
<1>1. Len(g) \in Nat /\ Len(c) \in Nat
  BY DEF Bytes
<1>2. /\ Len(g) - Len(c) + 1 \in 1..(Len(g) + 1) /\ d + 1 \in 1..(Len(c) + 1)
      /\ Len(g) - Len(c) + d + 1 \in 1..(Len(g) + 1)
  BY <1>1
<1>3. PICK i \in 1..(Len(g) + 1), j \in 1..(Len(c) + 1) : i = Len(g) - Len(c) + 1 /\ j = d + 1
  BY <1>2
<1>4. From(c, j) \in Bytes /\ Len(From(c, j)) = Len(c) - j + 1
  BY FromFacts
<1>5. j \in 1..(Len(g) - i + 2) /\ c = From(g, i)
  BY <1>1, <1>3
<1>6. From(c, j) = From(g, i + j - 1)
  BY <1>5, FromFrom
<1>7. i + j - 1 = Len(g) - Len(c) + d + 1 /\ Len(c) - j + 1 = Len(c) - d
  BY <1>1, <1>3
<1> QED  BY <1>2, <1>3, <1>4, <1>6, <1>7

(* A byte that is no start byte begins no frame.                           *)
LEMMA NoStart ==
  ASSUME NEW g \in Bytes, NEW c \in Bytes, Len(c) <= Len(g), c = From(g, Len(g) - Len(c) + 1),
         NEW d \in 1..Len(c), c[d] # Start
  PROVE  Dead(g, Len(g) - Len(c) + d)
<1>1. Len(g) \in Nat /\ Len(c) \in Nat /\ d - 1 \in 0..Len(c) /\ d \in 1..(Len(c) + 1)
  BY DEF Bytes
<1>2. PICK e \in 0..Len(c) : e = d - 1
  BY <1>1
<1>3. From(c, e + 1) = From(g, Len(g) - Len(c) + e + 1)
  BY Shifted
<1>4. e + 1 = d /\ Len(g) - Len(c) + e + 1 = Len(g) - Len(c) + d
  BY <1>1, <1>2
<1>5. /\ From(c, d) \in Bytes /\ Len(From(c, d)) = Len(c) - d + 1
      /\ \A k \in 1..Len(From(c, d)) : From(c, d)[k] = c[d + k - 1]
  BY <1>1, FromFacts
<1>6. Len(From(c, d)) >= 1 /\ Len(From(c, d)) \in Nat
  BY <1>1, <1>5
<1>7. From(c, d)[1] # Start
  <2>1. 1 \in 1..Len(From(c, d)) /\ d + 1 - 1 = d
    BY <1>1, <1>6
  <2> QED  BY <1>5, <2>1
<1>8. \A p \in PType : Verdict(p, From(c, d)) = -1
  BY <1>5, <1>6, <1>7, VerdictFacts
<1>9. \A p \in PType : Verdict(p, From(c, d)) < 0
  BY <1>8
<1> QED  BY <1>3, <1>4, <1>9 DEF Dead

LEMMA DeadStays ==
  ASSUME NEW g \in Bytes, NEW x \in Bytes, NEW i \in 1..(Len(g) + 1)
  PROVE  /\ Dead(g, i) => Dead(g \o x, i)
         /\ \A p \in PType, n \in Nat \ {0} : Verdict(p, From(g, i)) = n => Verdict(p, From(g \o x, i)) = n
<1>1. From(g \o x, i) = From(g, i) \o x /\ From(g, i) \in Bytes
  BY FromMore, FromFacts
<1>2. \A p \in PType : Verdict(p, From(g, i)) # 0 => Verdict(p, From(g \o x, i)) = Verdict(p, From(g, i))
  BY <1>1, VerdictFacts
<1>3. \A p \in PType : Verdict(p, From(g, i)) \in Int
  BY <1>1, VerdictFacts
<1>4. ASSUME Dead(g, i) PROVE Dead(g \o x, i)
  <2> SUFFICES ASSUME NEW p \in PType PROVE Verdict(p, From(g \o x, i)) < 0
    BY DEF Dead
  <2>1. Verdict(p, From(g, i)) < 0 /\ Verdict(p, From(g, i)) \in Int
    BY <1>3, <1>4 DEF Dead
  <2>2. Verdict(p, From(g, i)) # 0
    BY <2>1
  <2> QED  BY <1>2, <2>1, <2>2
<1>5. ASSUME NEW p \in PType, NEW n \in Nat \ {0}, Verdict(p, From(g, i)) = n
      PROVE  Verdict(p, From(g \o x, i)) = n
  BY <1>2, <1>5
<1> QED  BY <1>4, <1>5

LEMMA FrameTypes ==
  ASSUME CheckTypeOK, NEW k \in 1..Len(out)
  PROVE  out[k].at \in Nat \ {0} /\ out[k].len \in Nat \ {0} /\ out[k].ptype \in PType
<1>1. out[k] \in Frame
  BY ElementOfSeq DEF CheckTypeOK
<1> QED  BY <1>1 DEF Frame

LEMMA CheckSizes ==
  ASSUME CheckTypeOK, InBuf
  PROVE  /\ Len(got) \in Nat /\ Len(buf) \in Nat /\ base \in Nat /\ base + Len(buf) = Len(got)
         /\ Len(out) \in Nat /\ Len(slips) \in Nat
         /\ buf = From(got, Len(got) - Len(buf) + 1)
BY DEF CheckTypeOK, InBuf, Bytes, base

LEMMA ReceiveKeeps ==
  ASSUME CheckInv, NEW n \in DOMAIN line, NEW isLate \in BOOLEAN, Receive(n, isLate)
  PROVE  CheckInv'
<1>1. CheckTypeOK /\ InBuf /\ Framed /\ Accounted
  BY DEF CheckInv
<1>2. /\ Len(got) \in Nat /\ Len(buf) \in Nat /\ base \in Nat /\ base + Len(buf) = Len(got)
      /\ Len(out) \in Nat /\ Len(slips) \in Nat /\ buf = From(got, Len(got) - Len(buf) + 1)
  BY <1>1, CheckSizes
<1>3. SubSeq(line, 1, n) \in Bytes /\ From(line, n + 1) \in Bytes
  <2>1. Len(line) \in Nat /\ n \in 1..Len(line) /\ line \in Bytes
    BY <1>1 DEF CheckTypeOK, Bytes
  <2>2. n + 1 \in 1..(Len(line) + 1) /\ 1 <= n + 1
    BY <2>1
  <2>3. From(line, n + 1) \in Bytes
    BY <2>1, <2>2, FromFacts
  <2>4. \A k \in 1..n : line[k] \in Nat
    BY <2>1 DEF Bytes
  <2>5. SubSeq(line, 1, n) \in Seq(Nat)
    BY <2>1, <2>4, SubSeqProperties
  <2> QED  BY <2>3, <2>5 DEF Bytes
<1>4. PICK x \in Bytes : x = SubSeq(line, 1, n)
  BY <1>3
<1> DEFINE slip == isLate /\ buf # <<>>
<1>5. PICK d \in 0..Len(buf) : d = (IF slip THEN 1 ELSE 0)
  <2>1. buf # <<>> => Len(buf) >= 1
    BY <1>1, TailIsFrom DEF CheckTypeOK
  <2> QED  BY <1>2, <2>1
<1>6. PICK c \in Bytes : c = (IF slip THEN Tail(buf) ELSE buf)
  BY <1>1, HeadTailProperties DEF CheckTypeOK, Bytes
<1>7. c = From(buf, d + 1)
  <2>1. CASE slip
    BY <1>1, <1>5, <1>6, <2>1, TailIsFrom DEF CheckTypeOK
  <2>2. CASE ~slip
    BY <1>1, <1>5, <1>6, <2>2, FromOne DEF CheckTypeOK
  <2> QED  BY <2>1, <2>2
<1>8. /\ got' = got \o x /\ buf' = c \o x /\ line' = From(line, n + 1) /\ scanning' = TRUE /\ out' = out
      /\ slips' = IF slip THEN Append(slips, base + 1) ELSE slips
  BY <1>4, <1>6 DEF Receive
<1>9. /\ got \in Bytes /\ buf \in Bytes /\ out \in Seq(Frame) /\ slips \in Seq(Nat)
      /\ Len(buf) <= Len(got)
  BY <1>1 DEF CheckTypeOK, InBuf
<1>10. /\ Len(c) = Len(buf) - d /\ c = From(got, Len(got) - Len(buf) + d + 1)
       /\ Len(got) - Len(buf) + d + 1 \in 1..(Len(got) + 1)
  <2>1. /\ Len(From(buf, d + 1)) = Len(buf) - d
        /\ From(buf, d + 1) = From(got, Len(got) - Len(buf) + d + 1)
        /\ Len(got) - Len(buf) + d + 1 \in 1..(Len(got) + 1)
    <3>1. buf = From(got, Len(got) - Len(buf) + 1) /\ got \in Bytes /\ buf \in Bytes
      BY <1>2, <1>9
    <3>2. Len(buf) <= Len(got) /\ d \in 0..Len(buf)
      BY <1>9
    <3>3. Len(From(buf, d + 1)) = Len(buf) - d
      BY <3>1, <3>2, Shifted
    <3>4. From(buf, d + 1) = From(got, Len(got) - Len(buf) + d + 1)
      BY <3>1, <3>2, Shifted, ZenonT(40)
    <3>5. Len(got) - Len(buf) + d + 1 \in 1..(Len(got) + 1)
      BY <1>2, <3>2
    <3> QED  BY <3>3, <3>4, <3>5
  <2> QED  BY <1>7, <2>1
<1>11. /\ got \o x \in Bytes /\ c \o x \in Bytes /\ Len(x) \in Nat
       /\ Len(got \o x) = Len(got) + Len(x) /\ Len(c \o x) = Len(c) + Len(x)
  BY <1>9 DEF Bytes
<1>12. base' = base + d
  <2>1. base' = Len(got') - Len(buf')
    BY DEF base
  <2>2. base' = Len(got \o x) - Len(c \o x)
    BY <1>8, <2>1
  <2>3. Len(c) = Len(buf) - d /\ d \in Nat
    BY <1>2, <1>10
  <2>4. Len(got \o x) - Len(c \o x) = Len(got) - Len(c)
    BY <1>2, <1>11, <2>3
  <2>5. Len(got) - Len(c) = base + d
    BY <1>2, <2>3
  <2> QED  BY <2>2, <2>4, <2>5
<1>13. CheckTypeOK'
  <2>1. slips' \in Seq(Nat)
    <3>1. base + 1 \in Nat
      BY <1>2
    <3> HIDE DEF slip
    <3> QED  BY <1>8, <1>9, <3>1
  <2>2. line' \in Bytes /\ got' \in Bytes /\ buf' \in Bytes /\ scanning' \in BOOLEAN /\ out' \in Seq(Frame)
    BY <1>3, <1>8, <1>9, <1>11
  <2> QED  BY <2>1, <2>2 DEF CheckTypeOK
<1>14. InBuf'
  <2>1. From(got \o x, Len(got) - Len(buf) + d + 1) = c \o x
    <3>1. PICK i \in 1..(Len(got) + 1) : i = Len(got) - Len(buf) + d + 1
      BY <1>10
    <3>2. From(got \o x, i) = From(got, i) \o x
      BY <1>9, FromMore
    <3> QED  BY <1>10, <3>1, <3>2
  <2>2. base + d + 1 = Len(got) - Len(buf) + d + 1
    BY <1>2
  <2>3. Len(c \o x) <= Len(got \o x)
    BY <1>2, <1>9, <1>10, <1>11, SMTT(20)
  <2>4. From(got', base' + 1) = buf' /\ Len(buf') <= Len(got')
    BY <1>8, <1>12, <2>1, <2>2, <2>3
  <2> QED  BY <2>4 DEF InBuf
<1>15. Framed'
  <2> SUFFICES ASSUME NEW k \in 1..Len(out)
               PROVE  /\ out[k].at + out[k].len <= base' + 1
                      /\ Verdict(out[k].ptype, From(got', out[k].at)) = out[k].len
                      /\ k < Len(out) => out[k].at + out[k].len <= out[k + 1].at
    BY <1>8 DEF Framed
  <2>1. /\ out[k].at + out[k].len <= base + 1
        /\ Verdict(out[k].ptype, From(got, out[k].at)) = out[k].len
        /\ k < Len(out) => out[k].at + out[k].len <= out[k + 1].at
    BY <1>1 DEF Framed
  <2>2. out[k].at \in Nat \ {0} /\ out[k].len \in Nat \ {0} /\ out[k].ptype \in PType
    BY <1>1, FrameTypes
  <2>3. out[k].at \in 1..(Len(got) + 1)
    BY <1>2, <2>1, <2>2, SMTT(20)
  <2>4. Verdict(out[k].ptype, From(got \o x, out[k].at)) = out[k].len
    <3>1. PICK a \in 1..(Len(got) + 1), m \in Nat \ {0}, p \in PType :
            a = out[k].at /\ m = out[k].len /\ p = out[k].ptype
      BY <2>2, <2>3
    <3>2. Verdict(p, From(got, a)) = m
      BY <2>1, <3>1
    <3>3. Verdict(p, From(got \o x, a)) = m
      BY <1>9, <3>2, DeadStays
    <3> QED  BY <3>1, <3>3
  <2>5. out[k].at + out[k].len <= base + d + 1
    BY <1>2, <2>1, <2>2, SMTT(20)
  <2> QED  BY <1>8, <1>12, <2>1, <2>4, <2>5
<1>16. Accounted'
  <2> SUFFICES ASSUME NEW i \in 1..base' PROVE Dead(got', i) \/ Slipped(i)' \/ Within(i)'
    BY DEF Accounted
  <2>1. Within(i)' <=> Within(i)
    BY <1>8 DEF Within
  <2>2. CASE i \in 1..base
    <3>1. Dead(got, i) \/ Slipped(i) \/ Within(i)
      BY <1>1, <2>2 DEF Accounted
    <3>2. Dead(got, i) => Dead(got', i)
      <4>1. i \in 1..(Len(got) + 1)
        BY <1>2, <2>2
      <4> QED  BY <1>8, <1>9, <4>1, DeadStays
    <3>3. Slipped(i) => Slipped(i)'
      <4> SUFFICES ASSUME NEW k \in 1..Len(slips), slips[k] = i
                   PROVE  \E m \in 1..Len(slips') : slips'[m] = i
        BY DEF Slipped
      <4>1. CASE slip
        <5>1. PICK e \in Nat : e = base + 1
          BY <1>2
        <5>2. slips' = Append(slips, e)
          BY <1>8, <4>1, <5>1
        <5>3. Len(slips') = Len(slips) + 1 /\ slips'[k] = slips[k]
          BY <1>2, <1>9, <5>2, AppendProperties
        <5>4. k \in 1..Len(slips')
          BY <1>2, <5>3
        <5> QED  BY <5>3, <5>4
      <4>2. CASE ~slip
        BY <1>8, <4>2
      <4> QED  BY <4>1, <4>2
    <3> QED  BY <2>1, <3>1, <3>2, <3>3
  <2>3. CASE i \notin 1..base
    <3>1. i = base + 1 /\ slip
      <4>1. d = 1 \/ d = 0
        BY <1>5
      <4>2. i \in 1..(base + d)
        BY <1>12
      <4>3. d = 1 /\ i = base + 1
        BY <1>2, <2>3, <4>1, <4>2
      <4> QED  BY <1>5, <4>3
    <3>2. PICK e \in Nat : e = base + 1
      BY <1>2
    <3>3. slips' = Append(slips, e)
      BY <1>8, <3>1, <3>2
    <3>4. Len(slips') = Len(slips) + 1 /\ slips'[Len(slips) + 1] = e
      BY <1>2, <1>9, <3>3, AppendProperties
    <3>5. Len(slips) + 1 \in 1..Len(slips')
      BY <1>2, <3>4
    <3>6. \E k \in 1..Len(slips') : slips'[k] = i
      BY <3>1, <3>2, <3>4, <3>5
    <3> QED  BY <3>6 DEF Slipped
  <2> QED  BY <2>2, <2>3
<1>17. Waits'
  BY <1>8 DEF Waits
<1> QED  BY <1>13, <1>14, <1>15, <1>16, <1>17 DEF CheckInv

(* The first d bytes of the buffer go.                                     *)
LEMMA Consumed ==
  ASSUME CheckTypeOK, InBuf, NEW d \in 0..Len(buf), buf' = From(buf, d + 1), got' = got
  PROVE  buf' \in Bytes /\ base' = base + d /\ InBuf'
<1>1. /\ Len(got) \in Nat /\ Len(buf) \in Nat /\ base \in Nat /\ base + Len(buf) = Len(got)
      /\ buf = From(got, Len(got) - Len(buf) + 1)
  BY CheckSizes
<1>2. got \in Bytes /\ buf \in Bytes /\ Len(buf) <= Len(got)
  BY DEF CheckTypeOK, InBuf
<1>3. From(buf, d + 1) \in Bytes /\ Len(From(buf, d + 1)) = Len(buf) - d
  BY <1>1, <1>2, Shifted
<1>4. From(buf, d + 1) = From(got, Len(got) - Len(buf) + d + 1)
  BY <1>1, <1>2, Shifted
<1>5. PICK c \in Bytes : c = From(buf, d + 1)
  BY <1>3
<1>6. buf' = c /\ Len(c) = Len(buf) - d
  BY <1>3, <1>5
<1>7. base' = Len(got) - Len(c)
  BY <1>6 DEF base
<1>8. base' = base + d
  BY <1>1, <1>6, <1>7
<1>9. base + d + 1 = Len(got) - Len(buf) + d + 1 /\ Len(c) <= Len(got)
  BY <1>1, <1>6
<1>10. buf' = From(got', base' + 1) /\ Len(buf') <= Len(got')
  BY <1>4, <1>5, <1>6, <1>8, <1>9
<1> QED  BY <1>6, <1>8, <1>10 DEF InBuf

(* They could begin no frame.                                              *)
LEMMA Refused ==
  ASSUME CheckInv, NEW d \in 0..Len(buf), buf' = From(buf, d + 1),
         UNCHANGED <<line, got, out, slips>>, scanning' \in BOOLEAN,
         \A i \in (base + 1)..(base + d) : Dead(got, i), Waits'
  PROVE  CheckInv'
<1>1. CheckTypeOK /\ InBuf /\ Framed /\ Accounted
  BY DEF CheckInv
<1>2. /\ Len(got) \in Nat /\ Len(buf) \in Nat /\ base \in Nat /\ base + Len(buf) = Len(got)
  BY <1>1, CheckSizes
<1>3. buf' \in Bytes /\ base' = base + d /\ InBuf'
  BY <1>1, Consumed
<1>4. CheckTypeOK'
  BY <1>1, <1>3 DEF CheckTypeOK
<1>5. Framed'
  <2> SUFFICES ASSUME NEW k \in 1..Len(out)
               PROVE  /\ out[k].at + out[k].len <= base' + 1
                      /\ Verdict(out[k].ptype, From(got, out[k].at)) = out[k].len
                      /\ k < Len(out) => out[k].at + out[k].len <= out[k + 1].at
    BY DEF Framed
  <2>1. /\ out[k].at + out[k].len <= base + 1
        /\ Verdict(out[k].ptype, From(got, out[k].at)) = out[k].len
        /\ k < Len(out) => out[k].at + out[k].len <= out[k + 1].at
    BY <1>1 DEF Framed
  <2>2. out[k].at \in Nat \ {0} /\ out[k].len \in Nat \ {0}
    BY <1>1, FrameTypes
  <2>3. out[k].at + out[k].len <= base + d + 1
    BY <1>2, <2>1, <2>2
  <2> QED  BY <1>3, <2>1, <2>3
<1>6. Accounted'
  <2> SUFFICES ASSUME NEW i \in 1..(base + d)
               PROVE  Dead(got, i) \/ Slipped(i) \/ Within(i)
    BY <1>3 DEF Accounted, Slipped, Within
  <2>1. CASE i \in 1..base
    BY <1>1, <2>1 DEF Accounted
  <2>2. CASE i \notin 1..base
    <3>1. i \in (base + 1)..(base + d)
      BY <1>2, <2>2
    <3> QED  BY <3>1
  <2> QED  BY <2>1, <2>2
<1> QED  BY <1>3, <1>4, <1>5, <1>6 DEF CheckInv

LEMMA GarbageKeeps ==
  ASSUME CheckInv, Garbage
  PROVE  CheckInv'
<1>1. CheckTypeOK /\ InBuf
  BY DEF CheckInv
<1>2. /\ Len(got) \in Nat /\ Len(buf) \in Nat /\ base \in Nat /\ base + Len(buf) = Len(got)
      /\ buf = From(got, Len(got) - Len(buf) + 1)
  BY <1>1, CheckSizes
<1>3. got \in Bytes /\ buf \in Bytes /\ Len(buf) <= Len(got)
  BY <1>1 DEF CheckTypeOK, InBuf
<1>4. findFirstByte(buf) = 0 /\ buf' = <<>> /\ scanning' = FALSE /\ UNCHANGED <<line, got, out, slips>>
  BY DEF Garbage
<1>5. \A j \in 1..Len(buf) : buf[j] # Start
  BY <1>2, <1>3, <1>4, FirstFacts
<1>6. PICK d \in 0..Len(buf) : d = Len(buf)
  BY <1>2
<1>7. buf' = From(buf, d + 1)
  BY <1>3, <1>4, <1>6, FromOne
<1>8. ASSUME NEW i \in (base + 1)..(base + d) PROVE Dead(got, i)
  <2>1. i - base \in 1..Len(buf)
    BY <1>2, <1>6
  <2>2. PICK e \in 1..Len(buf) : e = i - base
    BY <2>1
  <2>3. Len(got) - Len(buf) + e = i
    BY <1>2, <2>2
  <2>4. Dead(got, Len(got) - Len(buf) + e)
    BY <1>2, <1>3, <1>5, NoStart
  <2> QED  BY <2>3, <2>4
<1>9. Waits'
  BY <1>4 DEF Waits
<1> QED  BY <1>4, <1>7, <1>8, <1>9, Refused

LEMMA ScanKeeps ==
  ASSUME CheckInv, Scan
  PROVE  CheckInv'
<1>1. CheckTypeOK /\ InBuf /\ Framed /\ Accounted
  BY DEF CheckInv
<1>2. /\ Len(got) \in Nat /\ Len(buf) \in Nat /\ base \in Nat /\ base + Len(buf) = Len(got)
      /\ Len(out) \in Nat /\ buf = From(got, Len(got) - Len(buf) + 1)
  BY <1>1, CheckSizes
<1>3. got \in Bytes /\ buf \in Bytes /\ Len(buf) <= Len(got) /\ out \in Seq(Frame)
  BY <1>1 DEF CheckTypeOK, InBuf
<1>4. findFirstByte(buf) > 0 /\ scanning = TRUE /\ UNCHANGED <<line, got, slips>>
  BY <1>1 DEF Scan, CheckTypeOK
<1>5. PICK o \in 1..Len(buf) : /\ o = findFirstByte(buf)
                               /\ \A j \in 1..(o - 1) : buf[j] # Start
  BY <1>3, <1>4, FirstFacts
<1>6. PICK e \in 0..Len(buf) : e = o - 1
  BY <1>2
<1>7. /\ From(buf, o) \in Bytes /\ Len(From(buf, o)) = Len(buf) - o + 1
      /\ From(buf, o) = From(got, base + o)
  <2>1. e + 1 = o /\ Len(got) - Len(buf) + e + 1 = base + o
    BY <1>2, <1>6
  <2>2. From(buf, e + 1) \in Bytes /\ Len(From(buf, e + 1)) = Len(buf) - e
    BY <1>2, <1>3, Shifted
  <2>3. From(buf, e + 1) = From(got, Len(got) - Len(buf) + e + 1)
    BY <1>2, <1>3, Shifted
  <2> QED  BY <1>2, <1>6, <2>1, <2>2, <2>3
<1>8. PICK rest \in Bytes : rest = From(buf, o)
  BY <1>7
<1>9. /\ Len(rest) = Len(buf) - o + 1 /\ rest = From(got, base + o) /\ Len(rest) \in Nat /\ Len(rest) >= 1
  BY <1>2, <1>7, <1>8
<1>10. PICK v : v = IsValid(rest)
  OBVIOUS
<1>11. ASSUME NEW i \in (base + 1)..(base + o - 1) PROVE Dead(got, i)
  <2>1. i - base \in 1..(o - 1) /\ i - base \in 1..Len(buf)
    BY <1>2
  <2>2. PICK m \in 1..Len(buf) : m = i - base
    BY <2>1
  <2>3. Len(got) - Len(buf) + m = i /\ buf[m] # Start
    BY <1>2, <1>5, <2>1, <2>2, SMTT(20)
  <2>4. Dead(got, Len(got) - Len(buf) + m)
    BY <1>2, <1>3, <2>3, NoStart
  <2> QED  BY <2>3, <2>4
<1>12. /\ v.len \in Int
       /\ v.len > 0 => v.ptype \in PType /\ Verdict(v.ptype, rest) = v.len
       /\ v.len < 0 => \A p \in PType : Verdict(p, rest) < 0
  BY <1>10, IsValidFacts
<1>13. \/ /\ v.len > 0
          /\ out' = Append(out, [at |-> base + o, len |-> v.len, ptype |-> v.ptype])
          /\ buf' = From(rest, v.len + 1) /\ UNCHANGED scanning
       \/ v.len = 0 /\ buf' = rest /\ scanning' = FALSE /\ UNCHANGED out
       \/ v.len < 0 /\ buf' = Tail(rest) /\ UNCHANGED <<scanning, out>>
  BY <1>5, <1>8, <1>10 DEF Scan
<1>14. \A n \in 1..(Len(rest) + 1) : From(rest, n) = From(buf, o + n - 1)
  <2> SUFFICES ASSUME NEW n \in 1..(Len(rest) + 1) PROVE From(rest, n) = From(buf, o + n - 1)
    OBVIOUS
  <2>1. n \in 1..(Len(buf) - o + 2) /\ o \in 1..(Len(buf) + 1)
    BY <1>2, <1>9
  <2> QED  BY <1>3, <1>8, <2>1, FromFrom
<1>15. CASE v.len = 0
  <2>1. buf' = rest /\ scanning' = FALSE /\ UNCHANGED out
    BY <1>12, <1>13, <1>15
  <2>2. e + 1 = o /\ base + e = base + o - 1
    BY <1>2, <1>6
  <2>3. buf' = From(buf, e + 1)
    BY <1>8, <2>1, <2>2
  <2>4. \A i \in (base + 1)..(base + e) : Dead(got, i)
    BY <1>11, <2>2
  <2>5. Waits'
    BY <1>10, <1>15, <2>1 DEF Waits
  <2> QED  BY <1>4, <2>1, <2>3, <2>4, <2>5, Refused
<1>16. CASE v.len < 0
  <2>1. buf' = Tail(rest) /\ scanning' = TRUE /\ UNCHANGED out
    <3>1. ~(v.len > 0) /\ v.len # 0
      BY <1>12, <1>16
    <3>2. buf' = Tail(rest) /\ UNCHANGED <<scanning, out>>
      BY <1>13, <3>1
    <3>3. scanning' = scanning
      BY <3>2
    <3> QED  BY <1>4, <3>2, <3>3
  <2>2. Tail(rest) = From(rest, 2)
    BY <1>9, EmptySeq, TailIsFrom
  <2>3. 2 \in 1..(Len(rest) + 1) /\ o + 2 - 1 = o + 1
    BY <1>9
  <2>4. buf' = From(buf, o + 1)
    BY <1>14, <2>1, <2>2, <2>3
  <2>5. Dead(got, base + o)
    BY <1>9, <1>12, <1>16 DEF Dead
  <2>6. ASSUME NEW i \in (base + 1)..(base + o) PROVE Dead(got, i)
    <3>1. i = base + o \/ i \in (base + 1)..(base + o - 1)
      BY <1>2
    <3> QED  BY <1>11, <2>5, <3>1
  <2>7. Waits'
    BY <2>1 DEF Waits
  <2>8. o \in 0..Len(buf)
    BY <1>2
  <2> QED  BY <1>4, <2>1, <2>4, <2>6, <2>7, <2>8, Refused
<1>17. CASE v.len > 0
  <2>1. /\ out' = Append(out, [at |-> base + o, len |-> v.len, ptype |-> v.ptype])
        /\ buf' = From(rest, v.len + 1) /\ scanning' = TRUE
    <3>1. ~(v.len < 0) /\ v.len # 0
      BY <1>12, <1>17
    <3>2. /\ out' = Append(out, [at |-> base + o, len |-> v.len, ptype |-> v.ptype])
          /\ buf' = From(rest, v.len + 1) /\ UNCHANGED scanning
      BY <1>13, <3>1
    <3>3. scanning' = scanning
      BY <3>2
    <3> QED  BY <1>4, <3>2, <3>3
  <2>2. v.len <= Len(rest)
    BY <1>12, <1>17, VerdictFacts
  <2>3. PICK l \in Nat \ {0} : l = v.len
    BY <1>12, <1>17
  <2>4. PICK a \in Nat \ {0} : a = base + o
    BY <1>2
  <2>5. PICK p \in PType : p = v.ptype
    BY <1>12, <1>17
  <2>6. l + 1 \in 1..(Len(rest) + 1) /\ o + l - 1 \in 0..Len(buf) /\ o + (l + 1) - 1 = o + l - 1 + 1
    <3>1. PICK r \in Nat : r = Len(rest)
      BY <1>9
    <3>2. l <= r /\ r = Len(buf) - o + 1
      BY <1>9, <2>2, <2>3, <3>1
    <3>3. l + 1 \in 1..(r + 1)
      BY <3>2
    <3>4. o + l - 1 \in 0..Len(buf) /\ o + (l + 1) - 1 = o + l - 1 + 1
      BY <1>2, <3>2
    <3> QED  BY <3>1, <3>3, <3>4
  <2>7. PICK d \in 0..Len(buf) : d = o + l - 1
    BY <2>6
  <2>8. buf' = From(buf, d + 1)
    BY <1>14, <2>1, <2>3, <2>6, <2>7
  <2>9. buf' \in Bytes /\ base' = base + d /\ InBuf'
    BY <1>1, <1>4, <2>8, Consumed
  <2>10. PICK f \in Frame : f = [at |-> a, len |-> l, ptype |-> p]
    BY DEF Frame
  <2>11. f.at = a /\ f.len = l /\ f.ptype = p
    BY <2>10
  <2>12. out' = Append(out, f)
    BY <2>1, <2>3, <2>4, <2>5, <2>10
  <2>13. /\ out' \in Seq(Frame) /\ Len(out') = Len(out) + 1 /\ out'[Len(out) + 1] = f
         /\ \A k \in 1..Len(out) : out'[k] = out[k]
    BY <1>2, <1>3, <2>12, AppendProperties
  <2>14. CheckTypeOK'
    BY <1>1, <1>4, <2>1, <2>9, <2>13 DEF CheckTypeOK
  <2>15. Framed'
    <3> SUFFICES ASSUME NEW k \in 1..(Len(out) + 1)
                 PROVE  /\ out'[k].at + out'[k].len <= base + d + 1
                        /\ Verdict(out'[k].ptype, From(got, out'[k].at)) = out'[k].len
                        /\ k < Len(out) + 1 => out'[k].at + out'[k].len <= out'[k + 1].at
      BY <1>4, <2>9, <2>13 DEF Framed
    <3>1. CASE k = Len(out) + 1
      <4>1. out'[k] = f
        BY <2>13, <3>1
      <4>2. Verdict(p, From(got, a)) = l
        BY <1>9, <1>12, <1>17, <2>3, <2>4, <2>5
      <4>3. a + l <= base + d + 1
        BY <1>2, <2>4, <2>7
      <4>4. ~(k < Len(out) + 1)
        BY <1>2, <3>1
      <4> QED  BY <2>11, <4>1, <4>2, <4>3, <4>4
    <3>2. CASE k \in 1..Len(out)
      <4>1. /\ out[k].at + out[k].len <= base + 1
            /\ Verdict(out[k].ptype, From(got, out[k].at)) = out[k].len
            /\ k < Len(out) => out[k].at + out[k].len <= out[k + 1].at
        BY <1>1, <3>2 DEF Framed
      <4>2. out[k].at \in Nat \ {0} /\ out[k].len \in Nat \ {0}
        BY <1>1, <3>2, FrameTypes
      <4>3. out'[k] = out[k]
        BY <2>13, <3>2
      <4>4. out[k].at + out[k].len <= base + d + 1 /\ out[k].at + out[k].len <= a
        <5>1. PICK m \in Nat : m = out[k].at + out[k].len
          BY <4>2
        <5>2. m <= base + 1
          BY <4>1, <5>1
        <5>3. m <= base + d + 1 /\ m <= a
          BY <1>2, <2>4, <5>2
        <5> QED  BY <5>1, <5>3
      <4>5. CASE k = Len(out)
        BY <2>11, <2>13, <4>1, <4>3, <4>4, <4>5
      <4>6. CASE k # Len(out)
        <5>1. k + 1 \in 1..Len(out) /\ k < Len(out)
          BY <1>2, <3>2, <4>6
        <5>2. out'[k + 1] = out[k + 1]
          BY <2>13, <5>1
        <5> QED  BY <4>1, <4>3, <4>4, <5>1, <5>2
      <4> QED  BY <4>5, <4>6
    <3>3. k = Len(out) + 1 \/ k \in 1..Len(out)
      BY <1>2
    <3> QED  BY <3>1, <3>2, <3>3
  <2>16. Accounted'
    <3> SUFFICES ASSUME NEW i \in 1..(base + d)
                 PROVE  Dead(got, i) \/ Slipped(i) \/ Within(i)'
      BY <1>4, <2>9 DEF Accounted, Slipped
    <3>1. CASE i \in 1..base
      <4>1. Within(i) => Within(i)'
        <5> SUFFICES ASSUME NEW k \in 1..Len(out), out[k].at <= i, i < out[k].at + out[k].len
                     PROVE  \E m \in 1..Len(out') : out'[m].at <= i /\ i < out'[m].at + out'[m].len
          BY DEF Within
        <5>1. k \in 1..Len(out') /\ out'[k] = out[k]
          BY <1>2, <2>13
        <5> QED  BY <5>1
      <4> QED  BY <1>1, <3>1, <4>1 DEF Accounted
    <3>2. CASE i \in (base + 1)..(base + o - 1)
      BY <1>11, <3>2
    <3>3. CASE i \in (base + o)..(base + d)
      <4>1. a <= i /\ i < a + l
        BY <1>2, <2>4, <2>7, <3>3
      <4>2. Len(out) + 1 \in 1..Len(out')
        BY <1>2, <2>13
      <4>3. \E m \in 1..Len(out') : out'[m].at <= i /\ i < out'[m].at + out'[m].len
        BY <2>11, <2>13, <4>1, <4>2
      <4> QED  BY <4>3 DEF Within
    <3>4. i \in 1..base \/ i \in (base + 1)..(base + o - 1) \/ i \in (base + o)..(base + d)
      BY <1>2
    <3> QED  BY <3>1, <3>2, <3>3, <3>4
  <2>17. Waits'
    BY <2>1 DEF Waits
  <2> QED  BY <2>9, <2>14, <2>15, <2>16, <2>17 DEF CheckInv
<1> QED  BY <1>12, <1>15, <1>16, <1>17

LEMMA CheckInvInit ==
  ASSUME CheckInit
  PROVE  CheckInv
<1>1. /\ line \in Seq(Nat) /\ got = <<>> /\ buf = <<>> /\ scanning = FALSE /\ out = <<>> /\ slips = <<>>
  BY CheckAssumption DEF CheckInit
<1>2. /\ got \in Bytes /\ Len(got) = 0 /\ Len(buf) = 0 /\ Len(out) = 0 /\ Len(slips) = 0
      /\ out \in Seq(Frame) /\ slips \in Seq(Nat) /\ buf \in Bytes
  BY <1>1 DEF Bytes
<1>3. CheckTypeOK
  BY <1>1, <1>2 DEF CheckTypeOK, Bytes
<1>4. base = 0
  BY <1>2 DEF base
<1>5. From(got, 1) = buf
  BY <1>1, <1>2, FromOne
<1>6. InBuf
  BY <1>2, <1>4, <1>5 DEF InBuf
<1>7. Framed /\ Accounted /\ Waits
  BY <1>1, <1>2, <1>4 DEF Framed, Accounted, Waits
<1> QED  BY <1>3, <1>6, <1>7 DEF CheckInv

LEMMA CheckInvNext ==
  ASSUME CheckInv, [CheckNext]_chkVars
  PROVE  CheckInv'
<1>1. CASE UNCHANGED chkVars
  BY <1>1 DEF chkVars, CheckInv, CheckTypeOK, InBuf, Framed, Accounted, Waits, base, Slipped, Within
<1>2. ASSUME NEW n \in DOMAIN line, NEW isLate \in BOOLEAN, Receive(n, isLate)
      PROVE  CheckInv'
  BY <1>2, ReceiveKeeps
<1>3. CASE Garbage
  BY <1>3, GarbageKeeps
<1>4. CASE Scan
  BY <1>4, ScanKeeps
<1> QED  BY <1>1, <1>2, <1>3, <1>4 DEF CheckNext

(* Every frame that nothing overlaps is handed over or waits behind        *)
(* another one (Chkfrm, IsValid): for every stream of bytes, however it is *)
(* cut into reads.                                                         *)
THEOREM FramesAreKept == CheckSpec => []FramesKept
<1>1. ASSUME CheckInv PROVE FramesKept
  <2>1. CheckTypeOK /\ InBuf /\ Framed /\ Accounted /\ Waits
    BY <1>1 DEF CheckInv
  <2>2. /\ Len(got) \in Nat /\ Len(buf) \in Nat /\ base \in Nat /\ base + Len(buf) = Len(got)
        /\ Len(out) \in Nat /\ Len(slips) \in Nat
    BY <2>1, CheckSizes
  <2>3. DOMAIN got = 1..Len(got) /\ DOMAIN out = 1..Len(out) /\ DOMAIN slips = 1..Len(slips)
    BY <2>1 DEF CheckTypeOK, Bytes
  <2>4. Contiguous
    <3>1. base >= 0 /\ buf = From(got, base + 1)
      BY <2>1, <2>2 DEF InBuf
    <3>2. ASSUME NEW k \in 1..Len(out)
          PROVE  /\ out[k].len > 0
                 /\ out[k].at + out[k].len <= (IF k = Len(out) THEN base ELSE out[k + 1].at - 1) + 1
      <4>1. /\ out[k].at + out[k].len <= base + 1
            /\ k < Len(out) => out[k].at + out[k].len <= out[k + 1].at
        BY <2>1 DEF Framed
      <4>2. out[k].at \in Nat \ {0} /\ out[k].len \in Nat \ {0}
        BY <2>1, FrameTypes
      <4>3. CASE k = Len(out)
        BY <4>1, <4>2, <4>3
      <4>4. CASE k # Len(out)
        <5>1. k < Len(out) /\ k + 1 \in 1..Len(out)
          BY <2>2, <4>4
        <5>2. out[k + 1].at \in Nat
          BY <2>1, <5>1, FrameTypes
        <5>3. out[k + 1].at - 1 + 1 = out[k + 1].at
          BY <5>2
        <5> QED  BY <4>1, <4>2, <4>4, <5>1, <5>3
      <4> QED  BY <4>3, <4>4
    <3> QED  BY <2>3, <3>1, <3>2 DEF Contiguous
  <2>5. ASSUME ~scanning, NEW i \in 1..Len(got), Clear(i),
               \A k \in 1..Len(slips) : slips[k] \notin i..(i + LenAt(i) - 1),
               ~(i > base + 1)
        PROVE  \E k \in 1..Len(out) : out[k].at = i /\ out[k].len = LenAt(i)
    <3>1. PICK p \in PType : HitsAt(i) = {p}
      BY <2>5 DEF Clear
    <3>2. Verdict(p, From(got, i)) > 0 /\ LenAt(i) = Verdict(p, From(got, i))
      <4>1. p \in HitsAt(i) /\ (CHOOSE q \in HitsAt(i) : TRUE) = p
        BY <3>1
      <4> QED  BY <4>1 DEF HitsAt, LenAt
    <3>3. PICK l \in Nat \ {0} : l = LenAt(i)
      <4>1. From(got, i) \in Bytes
        <5>1. i \in 1..(Len(got) + 1) /\ got \in Bytes
          BY <2>1, <2>2 DEF CheckTypeOK
        <5> QED  BY <5>1, FromFacts
      <4>2. Verdict(p, From(got, i)) \in Int
        BY <4>1, VerdictFacts
      <4> QED  BY <3>2, <4>2
    <3>4. i # base + 1
      <4> SUFFICES ASSUME i = base + 1 PROVE FALSE
        OBVIOUS
      <4>1. buf = From(got, i)
        BY <2>1 DEF InBuf
      <4>2. buf # <<>>
        <5>1. Len(buf) # 0
          BY <2>2
        <5> QED  BY <5>1
      <4>3. IsValid(buf).len = 0 /\ buf \in Bytes
        BY <2>1, <2>5, <4>2 DEF Waits, CheckTypeOK
      <4>4. ~(Verdict(p, buf) > 0)
        BY <4>3, IsValidFacts
      <4> QED  BY <3>2, <4>1, <4>4
    <3>5. i \in 1..base
      BY <2>2, <2>5, <3>4
    <3>6. ~Dead(got, i)
      <4> SUFFICES ASSUME Dead(got, i) PROVE FALSE
        OBVIOUS
      <4>1. Verdict(p, From(got, i)) < 0
        BY DEF Dead
      <4> QED  BY <3>2, <3>3, <4>1
    <3>7. ~Slipped(i)
      <4> SUFFICES ASSUME NEW k \in 1..Len(slips), slips[k] = i PROVE FALSE
        BY DEF Slipped
      <4>1. i \in i..(i + LenAt(i) - 1)
        BY <3>3
      <4> QED  BY <2>5, <4>1
    <3>8. PICK k \in 1..Len(out) : out[k].at <= i /\ i < out[k].at + out[k].len
      BY <2>1, <3>5, <3>6, <3>7 DEF Accounted, Within
    <3>9. /\ out[k].at \in Nat \ {0} /\ out[k].len \in Nat \ {0} /\ out[k].ptype \in PType
          /\ Verdict(out[k].ptype, From(got, out[k].at)) = out[k].len
      BY <2>1, FrameTypes DEF Framed
    <3>10. PICK j \in Nat \ {0}, n \in Nat \ {0}, q \in PType :
             j = out[k].at /\ n = out[k].len /\ q = out[k].ptype
      BY <3>9
    <3>11. Verdict(q, From(got, j)) = n /\ j <= i /\ i < j + n /\ j \in 1..Len(got)
      BY <2>2, <3>8, <3>9, <3>10
    <3>12. q \in HitsAt(j)
      BY <3>11 DEF HitsAt
    <3>13. CASE j = i
      <4>1. q = p
        BY <3>1, <3>12, <3>13
      <4> QED  BY <3>2, <3>10, <3>11, <3>13, <4>1
    <3>14. CASE j # i
      <4>1. j >= i + LenAt(i) \/ i >= j + Verdict(q, From(got, j))
        BY <2>3, <2>5, <3>11, <3>12, <3>14 DEF Clear
      <4> QED  BY <3>3, <3>11, <4>1
    <3> QED  BY <3>13, <3>14
  <2> QED  BY <2>3, <2>4, <2>5 DEF FramesKept
<1> QED  BY <1>1, CheckInvInit, CheckInvNext, PTL DEF CheckSpec

(* No more waits than the longest frame (IsValid and the length tests of   *)
(* the three validators).                                                  *)
THEOREM BacklogIsBounded == CheckSpec => []BacklogBounded
<1>1. ASSUME CheckInv PROVE BacklogBounded
  <2> SUFFICES ASSUME ~scanning
               PROVE  Len(buf) < Max698 + 2 \/ Len(buf) < MaxTwin + 6 \/ Len(buf) < 3 + AddrSpace
    BY DEF BacklogBounded
  <2>1. buf \in Bytes
    BY <1>1 DEF CheckInv, CheckTypeOK
  <2>2. CASE buf = <<>>
    BY <2>2
  <2>3. CASE buf # <<>>
    <3>1. IsValid(buf).len = 0
      BY <1>1, <2>3 DEF CheckInv, Waits
    <3>2. PICK p \in PType : Verdict(p, buf) = 0
      BY <2>1, <3>1, IsValidFacts
    <3> QED  BY <2>1, <3>2, VerdictFacts
  <2> QED  BY <2>2, <2>3
<1> QED  BY <1>1, CheckInvInit, CheckInvNext, PTL DEF CheckSpec

(* Chkfrm's loop comes to an end: a turn after which it goes on has taken  *)
(* at least one byte out of the buffer, and nothing is added meanwhile.    *)
EachTurnTakes == scanning /\ scanning' => Len(buf') < Len(buf)

(* A frame, a wait or a lost start byte: the loop goes on after the first  *)
(* and the last.                                                           *)
LEMMA TurnTakes ==
  ASSUME CheckInv, Scan, scanning'
  PROVE  Len(buf') < Len(buf)
<1>1. CheckTypeOK /\ InBuf
  BY DEF CheckInv
<1>2. buf \in Bytes /\ Len(buf) \in Nat
  BY <1>1, CheckSizes DEF CheckTypeOK
<1>3. findFirstByte(buf) > 0
  BY DEF Scan
<1>4. PICK o \in 1..Len(buf) : o = findFirstByte(buf)
  BY <1>2, <1>3, FirstFacts
<1>5. o \in 1..(Len(buf) + 1)
  BY <1>2
<1>6. PICK rest \in Bytes : rest = From(buf, o) /\ Len(rest) = Len(buf) - o + 1
  BY <1>2, <1>5, FromFacts
<1>7. PICK r \in Nat : r = Len(rest) /\ 1 <= r /\ r <= Len(buf)
  BY <1>2, <1>6
<1>8. PICK v : v = IsValid(rest)
  OBVIOUS
<1>9. /\ v.len \in Int
      /\ v.len > 0 => v.ptype \in PType /\ Verdict(v.ptype, rest) = v.len
  BY <1>8, IsValidFacts
<1>10. ~(v.len = 0)
  BY <1>4, <1>6, <1>8 DEF Scan
<1>11. ASSUME NEW n \in 2..(r + 1), buf' = From(rest, n) PROVE Len(buf') < Len(buf)
  <2>1. n \in 1..(Len(rest) + 1)
    BY <1>7
  <2>2. Len(From(rest, n)) = Len(rest) - n + 1
    BY <2>1, FromFacts
  <2> QED  BY <1>2, <1>7, <1>11, <2>2
<1>12. CASE v.len > 0
  <2>1. buf' = From(rest, v.len + 1)
    BY <1>4, <1>6, <1>8, <1>9, <1>12 DEF Scan
  <2>2. v.len <= Len(rest)
    BY <1>9, <1>12, VerdictFacts
  <2>3. PICK n \in 2..(r + 1) : n = v.len + 1
    BY <1>7, <1>9, <1>12, <2>2
  <2> QED  BY <1>11, <2>1, <2>3
<1>13. CASE v.len < 0
  <2>1. buf' = Tail(rest)
    BY <1>4, <1>6, <1>8, <1>9, <1>13 DEF Scan
  <2>2. Tail(rest) = From(rest, 2)
    BY <1>7, EmptySeq, TailIsFrom
  <2>3. PICK n \in 2..(r + 1) : n = 2
    BY <1>7
  <2> QED  BY <1>11, <2>1, <2>2, <2>3
<1> QED  BY <1>9, <1>10, <1>12, <1>13

(* The loop that Chkfrm runs on what was read ends, whatever the bytes.    *)
THEOREM ScanEnds == CheckSpec => [][EachTurnTakes]_chkVars
<1>1. ASSUME CheckInv, CheckNext PROVE EachTurnTakes
  <2>1. ASSUME NEW n \in DOMAIN line, NEW isLate \in BOOLEAN, Receive(n, isLate) PROVE ~scanning
    BY <2>1 DEF Receive
  <2>2. Garbage => ~scanning'
    BY DEF Garbage
  <2> QED  BY <1>1, <2>1, <2>2, TurnTakes DEF CheckNext, EachTurnTakes
<1> QED  BY <1>1, CheckInvInit, CheckInvNext, PTL DEF CheckSpec

HIDE CheckAssumption

-----------------------------------------------------------------------------
(* The live events (web/live.go) *)

Numbered == Publisher \X Nat      \* an event: whose it is, and its number

LiveTypeOK ==
  /\ liveSubs \in SUBSET Stream
  /\ stream \in [Stream -> {"none", "open", "leaving", "closed"}]
  /\ chan \in [Stream -> Seq(Numbered)] /\ shown \in [Stream -> Seq(Numbered)]
  /\ chans \in [Publisher -> SUBSET Stream]
  /\ count \in [Publisher -> Nat]

(* What a browser got and is about to get; no number in it is above its    *)
(* publisher's, nor as high while the publisher has still to send here.    *)
Got(s)     == shown[s] \o chan[s]
GotInOrder == \A s \in Stream : \A i, j \in 1..Len(Got(s)) :
                i < j /\ Got(s)[i][1] = Got(s)[j][1] => Got(s)[i][2] < Got(s)[j][2]
GotBefore  == \A s \in Stream : \A i \in 1..Len(Got(s)) :
                LET e == Got(s)[i] IN
                  e[2] <= count[e[1]] /\ (s \in chans[e[1]] => e[2] < count[e[1]])

LiveInv == LiveTypeOK /\ GotInOrder /\ GotBefore

USE LiveAssumption

LEMMA ShowKeeps ==
  ASSUME NEW a \in Seq(Numbered), NEW b \in Seq(Numbered), b # <<>>
  PROVE  /\ Append(a, Head(b)) \o Tail(b) = a \o b
         /\ Append(a, Head(b)) \in Seq(Numbered) /\ Tail(b) \in Seq(Numbered)
<1>1. /\ Tail(b) \in Seq(Numbered) /\ Len(Tail(b)) = Len(b) - 1
      /\ \A i \in 1..Len(Tail(b)) : Tail(b)[i] = b[i + 1]
      /\ Head(b) \in Numbered /\ Head(b) = b[1] /\ Len(b) >= 1
  BY HeadTailProperties, EmptySeq
<1>2. Append(a, Head(b)) \in Seq(Numbered)
  BY <1>1
<1>3. Append(a, Head(b)) \o Tail(b) \in Seq(Numbered) /\ a \o b \in Seq(Numbered)
  BY <1>1, <1>2
<1>4. Len(Append(a, Head(b)) \o Tail(b)) = Len(a \o b)
  BY <1>1, <1>2
<1>5. \A i \in 1..Len(a \o b) : (Append(a, Head(b)) \o Tail(b))[i] = (a \o b)[i]
  BY <1>1, <1>2
<1> QED  BY <1>1, <1>2, <1>3, <1>4, <1>5, SeqEqual

LEMMA LiveInitInv == LiveInit => LiveInv
<1> SUFFICES ASSUME LiveInit PROVE LiveInv
  OBVIOUS
<1>1. LiveTypeOK
  BY DEF LiveInit, LiveTypeOK
<1>2. \A s \in Stream : Len(Got(s)) = 0
  BY DEF LiveInit, Got
<1> QED  BY <1>1, <1>2 DEF LiveInv, GotInOrder, GotBefore

(* A step that adds nothing to what browsers get, and after which every    *)
(* publisher has still less to send to or a new number.                    *)
LEMMA GotKept ==
  ASSUME LiveInv, \A s \in Stream : Got(s)' = Got(s),
         count' \in [Publisher -> Nat],
         \A p \in Publisher : \/ count'[p] = count[p] /\ chans'[p] \subseteq chans[p]
                              \/ count'[p] > count[p]
  PROVE  GotInOrder' /\ GotBefore'
<1>1. GotInOrder'
  BY DEF LiveInv, GotInOrder
<1>2. ASSUME NEW s \in Stream, NEW i \in 1..Len(Got(s))
      PROVE  LET e == Got(s)[i] IN
               e[2] <= count'[e[1]] /\ (s \in chans'[e[1]] => e[2] < count'[e[1]])
  <2>1. Got(s) \in Seq(Numbered)
    BY DEF LiveInv, LiveTypeOK, Got
  <2>2. PICK q \in Publisher, n \in Nat : Got(s)[i] = <<q, n>>
    BY <2>1, ElementOfSeq DEF Numbered
  <2>3. n <= count[q] /\ (s \in chans[q] => n < count[q]) /\ count[q] \in Nat
    BY <2>2 DEF LiveInv, GotBefore, LiveTypeOK
  <2> QED  BY <2>2, <2>3
<1> QED  BY <1>1, <1>2 DEF GotBefore

LEMMA LiveTypesStep == LiveTypeOK /\ [LiveNext]_liveVars => LiveTypeOK'
<1> SUFFICES ASSUME LiveTypeOK, [LiveNext]_liveVars PROVE LiveTypeOK'
  OBVIOUS
<1> USE DEF LiveTypeOK
<1>1. ASSUME NEW s \in Stream, liveSubscribe(s) \/ liveUnsubscribe(s) \/ Close(s)
      PROVE  LiveTypeOK'
  BY <1>1 DEF liveSubscribe, liveUnsubscribe, Close
<1>2. ASSUME NEW s \in Stream, Show(s) PROVE LiveTypeOK'
  <2>1. Append(shown[s], Head(chan[s])) \in Seq(Numbered) /\ Tail(chan[s]) \in Seq(Numbered)
    BY <1>2, ShowKeeps DEF Show
  <2> QED  BY <1>2, <2>1 DEF Show
<1>3. ASSUME NEW p \in Publisher, PublishLive(p) PROVE LiveTypeOK'
  BY <1>3 DEF PublishLive
<1>4. ASSUME NEW p \in Publisher, NEW s \in Stream, Send(p, s) PROVE LiveTypeOK'
  <2>1. Append(chan[s], <<p, count[p]>>) \in Seq(Numbered)
    BY DEF Numbered
  <2>2. chan' \in [Stream -> Seq(Numbered)]
    BY <1>4, <2>1 DEF Send
  <2>3. chans' \in [Publisher -> SUBSET Stream]
    BY <1>4 DEF Send
  <2> QED  BY <1>4, <2>2, <2>3 DEF Send
<1>5. CASE UNCHANGED liveVars
  BY <1>5 DEF liveVars
<1> QED  BY <1>1, <1>2, <1>3, <1>4, <1>5 DEF LiveNext

LEMMA LiveStep == LiveInv /\ [LiveNext]_liveVars => LiveInv'
<1> SUFFICES ASSUME LiveInv, [LiveNext]_liveVars PROVE GotInOrder' /\ GotBefore'
  BY LiveTypesStep DEF LiveInv
<1>1. LiveTypeOK /\ LiveTypeOK'
  BY LiveTypesStep DEF LiveInv
<1>2. ASSUME UNCHANGED <<chan, shown, chans, count>> PROVE GotInOrder' /\ GotBefore'
  BY <1>1, <1>2, GotKept DEF Got, LiveTypeOK
<1>3. ASSUME NEW s \in Stream, liveSubscribe(s) \/ liveUnsubscribe(s) \/ Close(s)
      PROVE  GotInOrder' /\ GotBefore'
  BY <1>2, <1>3 DEF liveSubscribe, liveUnsubscribe, Close
<1>4. ASSUME NEW s \in Stream, Show(s) PROVE GotInOrder' /\ GotBefore'
  <2>1. chan[s] # <<>> /\ chan[s] \in Seq(Numbered) /\ shown[s] \in Seq(Numbered)
    BY <1>1, <1>4 DEF Show, LiveTypeOK
  <2>2. shown'[s] = Append(shown[s], Head(chan[s])) /\ chan'[s] = Tail(chan[s])
    BY <1>1, <1>4 DEF Show, LiveTypeOK
  <2>3. Got(s)' = Got(s)
    <3>0. PICK a \in Seq(Numbered) : a = shown[s]
      BY <2>1
    <3>1. PICK b \in Seq(Numbered) : b = chan[s]
      BY <2>1
    <3>2. Append(a, Head(b)) \o Tail(b) = a \o b
      <4>1. b # <<>>
        BY <2>1, <3>1
      <4> QED  BY <4>1, ShowKeeps
    <3> QED  BY <2>2, <3>0, <3>1, <3>2 DEF Got
  <2>4. \A r \in Stream \ {s} : Got(r)' = Got(r)
    BY <1>1, <1>4 DEF Show, LiveTypeOK, Got
  <2> QED  BY <1>1, <1>4, <2>3, <2>4, GotKept DEF Show, LiveTypeOK
<1>5. ASSUME NEW p \in Publisher, PublishLive(p) PROVE GotInOrder' /\ GotBefore'
  <2>1. count'[p] = count[p] + 1 /\ count[p] \in Nat
    BY <1>1, <1>5 DEF PublishLive, LiveTypeOK
  <2>2. \A q \in Publisher \ {p} : count'[q] = count[q] /\ chans'[q] = chans[q]
    BY <1>1, <1>5 DEF PublishLive, LiveTypeOK
  <2>3. \A s \in Stream : Got(s)' = Got(s)
    BY <1>5 DEF PublishLive, Got
  <2> QED  BY <1>1, <2>1, <2>2, <2>3, GotKept DEF LiveTypeOK
<1>6. ASSUME NEW p \in Publisher, NEW s \in Stream, Send(p, s) PROVE GotInOrder' /\ GotBefore'
  <2>1. /\ s \in chans[p] /\ chans'[p] = chans[p] \ {s} /\ UNCHANGED <<shown, count>>
        /\ \A q \in Publisher \ {p} : chans'[q] = chans[q]
        /\ \A r \in Stream \ {s} : chan'[r] = chan[r]
    BY <1>1, <1>6 DEF Send, LiveTypeOK
  <2>2. \A q \in Publisher : chans'[q] \subseteq chans[q]
    BY <2>1
  <2>3. CASE chan'[s] = chan[s]
    <3>1. \A r \in Stream : Got(r)' = Got(r)
      BY <2>1, <2>3 DEF Got
    <3> QED  BY <1>1, <2>1, <2>2, <3>1, GotKept DEF LiveTypeOK
  <2>4. CASE chan'[s] = Append(chan[s], <<p, count[p]>>)
    <3>0. PICK e \in Numbered : e = <<p, count[p]>>
      BY <1>1 DEF LiveTypeOK, Numbered
    <3> DEFINE old == Got(s)
               new == shown[s] \o Append(chan[s], e)
    <3>1. /\ chan[s] \in Seq(Numbered) /\ shown[s] \in Seq(Numbered)
          /\ old \in Seq(Numbered)
      BY <1>1 DEF LiveTypeOK, Got
    <3>2. /\ Len(new) = Len(old) + 1 /\ new[Len(old) + 1] = e
          /\ \A i \in 1..Len(old) : new[i] = old[i]
      <4>1. PICK a \in Seq(Numbered), b \in Seq(Numbered) : a = shown[s] /\ b = chan[s]
        BY <3>1
      <4>2. /\ Len(a \o Append(b, e)) = Len(a \o b) + 1
            /\ \A i \in 1..Len(a \o b) : (a \o Append(b, e))[i] = (a \o b)[i]
            /\ (a \o Append(b, e))[Len(a \o b) + 1] = e
        OBVIOUS
      <4>3. old = a \o b /\ new = a \o Append(b, e)
        BY <4>1 DEF Got
      <4> HIDE DEF old, new
      <4> QED  BY <4>2, <4>3
    <3>3. Got(s)' = new /\ \A r \in Stream \ {s} : Got(r)' = Got(r)
      BY <2>1, <2>4, <3>0 DEF Got
    <3>4. \A i \in 1..Len(old) : old[i][1] = p => old[i][2] < count[p]
      BY <2>1 DEF LiveInv, GotBefore
    <3>5. Len(old) \in Nat
      BY <3>1
    <3> HIDE DEF new, old
    <3>6. \A i \in 1..Len(new) : i \in 1..Len(old) \/ i = Len(old) + 1
      BY <3>2, <3>5
    <3>7. ASSUME NEW i \in 1..Len(new), NEW j \in 1..Len(new), i < j, new[i][1] = new[j][1]
          PROVE  new[i][2] < new[j][2]
      <4>1. i \in 1..Len(old)
        BY <3>2, <3>5, <3>7
      <4>2. CASE j \in 1..Len(old)
        BY <3>2, <3>7, <4>1, <4>2 DEF LiveInv, GotInOrder, old
      <4>3. CASE j = Len(old) + 1
        BY <3>0, <3>2, <3>4, <3>7, <4>1, <4>3
      <4> QED  BY <3>6, <4>2, <4>3
    <3>8. GotInOrder'
      BY <3>3, <3>7 DEF LiveInv, GotInOrder
    <3>9. ASSUME NEW i \in 1..Len(new)
          PROVE  LET f == new[i] IN
                   f[2] <= count[f[1]] /\ (s \in chans'[f[1]] => f[2] < count[f[1]])
      <4>1. CASE i \in 1..Len(old)
        <5>0. old[i] \in Numbered
          BY <3>1, <4>1, ElementOfSeq
        <5>1. PICK q \in Publisher, n \in Nat : old[i] = <<q, n>>
          BY <5>0 DEF Numbered
        <5>2. n <= count[q] /\ (s \in chans[q] => n < count[q])
          BY <4>1, <5>1 DEF LiveInv, GotBefore, old
        <5> QED  BY <2>2, <3>2, <4>1, <5>1, <5>2
      <4>2. CASE i = Len(old) + 1
        <5>1. count[p] \in Nat
          BY <1>1 DEF LiveTypeOK
        <5> QED  BY <2>1, <3>0, <3>2, <4>2, <5>1
      <4> QED  BY <3>6, <4>1, <4>2
    <3>10. ASSUME NEW r \in Stream \ {s}, NEW i \in 1..Len(Got(r))
           PROVE  LET f == Got(r)[i] IN
                    f[2] <= count[f[1]] /\ (r \in chans'[f[1]] => f[2] < count[f[1]])
      <4>1. Got(r) \in Seq(Numbered)
        BY <1>1 DEF LiveTypeOK, Got
      <4>2. PICK q \in Publisher, n \in Nat : Got(r)[i] = <<q, n>>
        BY <4>1, ElementOfSeq DEF Numbered
      <4>3. n <= count[q] /\ (r \in chans[q] => n < count[q])
        BY <4>2 DEF LiveInv, GotBefore
      <4> QED  BY <2>2, <4>2, <4>3
    <3>11. GotBefore'
      BY <2>1, <3>3, <3>9, <3>10 DEF GotBefore
    <3> QED  BY <3>8, <3>11
  <2> QED  BY <1>1, <1>6, <2>3, <2>4 DEF Send, LiveTypeOK
<1>7. CASE UNCHANGED liveVars
  BY <1>2, <1>7 DEF liveVars
<1> QED  BY <1>3, <1>4, <1>5, <1>6, <1>7 DEF LiveNext

(* What a browser gets of one publisher is in the order it was published   *)
(* in, and comes once, for any number of browsers and publishers and any   *)
(* interleaving of their sends (live.go PublishLive, http.go               *)
(* handleLiveStream).                                                      *)
THEOREM LiveInOrder == LiveSpec => []ShownInOrder
<1>1. LiveInv => ShownInOrder
  <2> SUFFICES ASSUME LiveInv PROVE ShownInOrder
    OBVIOUS
  <2>1. \A s \in Stream : DOMAIN Got(s) = 1..Len(Got(s))
    BY DEF LiveInv, LiveTypeOK, Got
  <2> QED  BY <2>1 DEF LiveInv, GotInOrder, ShownInOrder, Got
<1> QED  BY <1>1, LiveInitInv, LiveStep, PTL DEF LiveSpec

HIDE LiveAssumption

-----------------------------------------------------------------------------
(* The layout of frames (zptl/ptl698_45.go, safe_parse.go) *)

(* A frame is made of bytes, whoever has sent it.                          *)
LayTypeOK == proto \in {"698", "1376", "nw"} /\ heard \in Seq(Int)

(* No place read is further than the length check allows for.              *)
ReadsOnly ==
  reads # {} => /\ HandlerParseLenOK(proto, heard)
                /\ \A i \in reads : \/ i \in PlacesRead(proto, heard)
                                    \/ Calls(proto, heard) /\ i \in Copies(proto, heard)

LayInv == LayTypeOK /\ ReadsOnly

LEMMA ConcatInts == \A a \in Seq(Int), b \in Seq(Int) : a \o b \in Seq(Int)
  BY ConcatProperties

LEMMA ByteIsSmall == \A x \in Int : x % 16 \in 0..15
  OBVIOUS

LEMMA SmallIsByte == \A x \in 0..15 : x % 16 = x /\ x % 256 = x /\ x \div 16 # 2
  OBVIOUS

(* Where the parts of a frame stand.                                       *)
Holds(w, k, p) == \A i \in 1..Len(p) : w[k + i] = p[i]

LEMMA CatTwo ==
  ASSUME NEW a \in Seq(Int), NEW b \in Seq(Int)
  PROVE  /\ a \o b \in Seq(Int) /\ Len(a \o b) = Len(a) + Len(b)
         /\ Holds(a \o b, 0, a) /\ Holds(a \o b, Len(a), b)
<1>1. /\ a \o b \in Seq(Int) /\ Len(a \o b) = Len(a) + Len(b)
      /\ \A i \in 1 .. Len(a) + Len(b) : (a \o b)[i] = IF i <= Len(a) THEN a[i] ELSE b[i - Len(a)]
  BY ConcatProperties
<1>2. PICK w \in Seq(Int) : w = a \o b
  BY <1>1
<1>3. PICK k \in Nat, m \in Nat : k = Len(a) /\ m = Len(b)
  OBVIOUS
<1>4. \A i \in 1..(k + m) : w[i] = IF i <= k THEN a[i] ELSE b[i - k]
  BY <1>1, <1>2, <1>3
<1>5. \A i \in 1..k : w[0 + i] = a[i]
  BY <1>4
<1>6. ASSUME NEW i \in 1..m PROVE w[k + i] = b[i]
  <2>1. k + i \in 1..(k + m) /\ ~(k + i <= k) /\ (k + i) - k = i
    OBVIOUS
  <2> QED  BY <1>4, <2>1
<1> QED  BY <1>1, <1>2, <1>3, <1>5, <1>6 DEF Holds

LEMMA CatKeeps ==
  ASSUME NEW a \in Seq(Int), NEW b \in Seq(Int), NEW p \in Seq(Int), NEW k \in Nat,
         Holds(a, k, p), k + Len(p) <= Len(a)
  PROVE  Holds(a \o b, k, p)
<1>1. PICK m \in Nat, n \in Nat : m = Len(p) /\ n = Len(a)
  OBVIOUS
<1>2. \A i \in 1..n : (a \o b)[0 + i] = a[i]
  BY <1>1, CatTwo DEF Holds
<1>3. ASSUME NEW i \in 1..m PROVE (a \o b)[k + i] = p[i]
  <2>1. k + i \in 1..n /\ 0 + (k + i) = k + i
    BY <1>1
  <2>2. a[k + i] = p[i]
    BY <1>1 DEF Holds
  <2> QED  BY <1>2, <2>1, <2>2
<1> QED  BY <1>1, <1>3 DEF Holds

(* Three parts, one after the other, and five.                             *)
Three(w, a, b, c) ==
  /\ w \in Seq(Int) /\ Len(w) = Len(a) + Len(b) + Len(c)
  /\ Holds(w, 0, a) /\ Holds(w, Len(a), b) /\ Holds(w, Len(a) + Len(b), c)

LEMMA CatThree ==
  ASSUME NEW a \in Seq(Int), NEW b \in Seq(Int), NEW c \in Seq(Int)
  PROVE  Three(a \o b \o c, a, b, c)
<1>1. PICK la \in Nat, lb \in Nat, lc \in Nat : la = Len(a) /\ lb = Len(b) /\ lc = Len(c)
  OBVIOUS
<1>2. PICK v \in Seq(Int) : v = a \o b
  BY CatTwo
<1>3. Len(v) = la + lb /\ Holds(v, 0, a) /\ Holds(v, la, b)
  BY <1>1, <1>2, CatTwo
<1>4. /\ v \o c \in Seq(Int) /\ Len(v \o c) = la + lb + lc /\ Holds(v \o c, la + lb, c)
  BY <1>1, <1>3, CatTwo
<1>5. Holds(v \o c, 0, a) /\ Holds(v \o c, la, b)
  BY <1>1, <1>3, CatKeeps
<1> QED  BY <1>1, <1>2, <1>4, <1>5 DEF Three

Five(w, a, b, c, d, e) ==
  /\ w \in Seq(Int) /\ Len(w) = Len(a) + Len(b) + Len(c) + Len(d) + Len(e)
  /\ Holds(w, 0, a) /\ Holds(w, Len(a), b) /\ Holds(w, Len(a) + Len(b), c)
  /\ Holds(w, Len(a) + Len(b) + Len(c), d)
  /\ Holds(w, Len(a) + Len(b) + Len(c) + Len(d), e)

LEMMA CatFive ==
  ASSUME NEW a \in Seq(Int), NEW b \in Seq(Int), NEW c \in Seq(Int),
         NEW d \in Seq(Int), NEW e \in Seq(Int)
  PROVE  Five(a \o b \o c \o d \o e, a, b, c, d, e)
<1>1. PICK la \in Nat, lb \in Nat, lc \in Nat, ld \in Nat, le \in Nat :
        la = Len(a) /\ lb = Len(b) /\ lc = Len(c) /\ ld = Len(d) /\ le = Len(e)
  OBVIOUS
<1>2. PICK v : v = a \o b \o c
  OBVIOUS
<1>3. /\ v \in Seq(Int) /\ Len(v) = la + lb + lc
      /\ Holds(v, 0, a) /\ Holds(v, la, b) /\ Holds(v, la + lb, c)
  BY <1>1, <1>2, CatThree DEF Three
<1>4. PICK n \in Nat : n = la + lb + lc
  OBVIOUS
<1>5. PICK w : w = v \o d \o e
  OBVIOUS
<1>6. /\ w \in Seq(Int) /\ Len(w) = n + ld + le
      /\ Holds(w, n, d) /\ Holds(w, n + ld, e)
  <2>1. Three(v \o d \o e, v, d, e)
    BY <1>3, CatThree
  <2>2. Len(v) = n
    BY <1>3, <1>4
  <2> QED  BY <1>1, <1>5, <2>1, <2>2 DEF Three
<1>7. PICK x \in Seq(Int) : x = v \o d
  BY <1>3, CatTwo
<1>8. Len(x) = n + ld /\ Holds(x, 0, a) /\ Holds(x, la, b) /\ Holds(x, la + lb, c)
  <2>0. Len(v \o d) = Len(v) + Len(d)
    BY <1>3, CatTwo
  <2>1. Len(x) = n + ld
    BY <1>1, <1>3, <1>4, <1>7, <2>0
  <2>2. 0 + la <= n /\ la + lb <= n /\ la + lb + lc <= n /\ la + lb \in Nat
    BY <1>4
  <2> QED  BY <1>1, <1>3, <1>4, <1>7, <2>1, <2>2, CatKeeps
<1>9. Holds(x \o e, 0, a) /\ Holds(x \o e, la, b) /\ Holds(x \o e, la + lb, c)
  <2>2. 0 + la <= n + ld /\ la + lb <= n + ld /\ la + lb + lc <= n + ld /\ la + lb \in Nat
    BY <1>4
  <2> QED  BY <1>1, <1>8, <2>2, CatKeeps
<1> QED  BY <1>1, <1>2, <1>4, <1>5, <1>6, <1>7, <1>9 DEF Five

Agree(w, v, i, m) == \A x \in 1..m : w[i + x] = v[i + x]

(* A cut of a frame that is one of its parts, or the same in two frames.   *)
CutAt(q, w, i, m) == q \in Seq(Int) /\ Len(q) = m /\ \A x \in 1..m : q[x] = w[i + x]

LEMMA CutFacts ==
  ASSUME NEW w \in Seq(Int), NEW i \in Nat, NEW m \in Nat, NEW j, j = i + m, j <= Len(w)
  PROVE  CutAt(Cut(w, i, j), w, i, m)
<1>1. PICK l \in Nat : l = Len(w)
  OBVIOUS
<1>2. \A x \in (i + 1)..j : w[x] \in Int
  BY <1>1
<1>3. PICK k \in Int : k = i + 1
  OBVIOUS
<1>4. /\ SubSeq(w, k, j) \in Seq(Int)
      /\ Len(SubSeq(w, k, j)) = IF k <= j THEN j - k + 1 ELSE 0
      /\ \A x \in 1 .. j - k + 1 : SubSeq(w, k, j)[x] = w[k + x - 1]
  BY <1>2, <1>3, SubSeqProperties
<1>5. ASSUME NEW x \in 1..m PROVE SubSeq(w, k, j)[x] = w[i + x]
  <2>1. x \in 1 .. j - k + 1 /\ k + x - 1 = i + x
    BY <1>3
  <2> QED  BY <1>4, <2>1
<1>6. m = IF k <= j THEN j - k + 1 ELSE 0
  BY <1>3
<1>7. Len(SubSeq(w, k, j)) = m
  BY <1>4, <1>6, Zenon
<1>8. CutAt(SubSeq(w, k, j), w, i, m)
  BY <1>4, <1>5, <1>7, Zenon DEF CutAt
<1> QED  BY <1>3, <1>8, Zenon DEF Cut

PartAt(w, i, j, p) ==
  /\ w \in Seq(Int) /\ p \in Seq(Int) /\ j = i + Len(p) /\ j <= Len(w) /\ Holds(w, i, p)

LEMMA CutIs ==
  ASSUME NEW w, NEW i \in Nat, NEW j, NEW p, PartAt(w, i, j, p)
  PROVE  Cut(w, i, j) = p
<1>0. PICK m \in Nat : m = Len(p)
  BY DEF PartAt
<1>1. PICK q : q = Cut(w, i, j)
  OBVIOUS
<1>2. w \in Seq(Int) /\ p \in Seq(Int) /\ j = i + m /\ j <= Len(w) /\ Holds(w, i, p)
  BY <1>0 DEF PartAt
<1>3. CutAt(q, w, i, m)
  BY <1>1, <1>2, CutFacts
<1>4. q \in Seq(Int) /\ Len(q) = m /\ \A x \in 1..m : q[x] = p[x]
  BY <1>0, <1>2, <1>3 DEF Holds, CutAt
<1>5. q = p
  BY <1>0, <1>2, <1>4, SeqEqual
<1> QED  BY <1>1, <1>5

LEMMA SameCut ==
  ASSUME NEW w \in Seq(Int), NEW v \in Seq(Int), NEW i \in Nat, NEW m \in Nat, NEW j, j = i + m,
         j <= Len(w), j <= Len(v), Agree(w, v, i, m)
  PROVE  Cut(w, i, j) = Cut(v, i, j)
<1>1. PICK q : q = Cut(v, i, j)
  OBVIOUS
<1>2. CutAt(q, v, i, m)
  BY <1>1, CutFacts
<1>3. q \in Seq(Int) /\ Len(q) = m /\ Holds(w, i, q)
  BY <1>2 DEF Holds, CutAt, Agree
<1>4. PartAt(w, i, j, q)
  BY <1>3 DEF PartAt
<1> QED  BY <1>1, <1>4, CutIs

LEMMA AddressIsSeq ==
  ASSUME NEW a \in [1..16 -> 0..255]
  PROVE  a \in Seq(Int) /\ Len(a) = 16
<1>1. a = [i \in 1..16 |-> a[i]]
  OBVIOUS
<1>2. \A i \in 1..16 : a[i] \in Int
  OBVIOUS
<1>3. [i \in 1..16 |-> a[i]] \in Seq(Int) /\ Len([i \in 1..16 |-> a[i]]) = 16
  BY <1>2
<1> QED  BY <1>1, <1>3, Zenon

(* A 698 frame: where its parts stand, for every size of address.          *)
PlainAt(f, ctrl, af, n, d) ==
  /\ f \in Seq(Int) /\ Len(f) = 12 + n + Len(d)
  /\ f[4] = ctrl /\ f[5] = af /\ Size(f) = n
  /\ Holds(f, 9 + n, d)

LEMMA PlainFacts ==
  ASSUME NEW af \in Nat, NEW a \in [1..16 -> 0..255], NEW ca \in 0..255, NEW ctrl \in Nat,
         NEW d \in Seq(Int), NEW f, f = Plain698(af, a, ca, ctrl, d),
         NEW n \in 0..15, n = af % 16
  PROVE  PlainAt(f, ctrl, af, n, d)
<1>1. PICK ld \in Nat : ld = Len(d)
  OBVIOUS
<1>2. PICK h \in Int, c \in Int : h = Cs(1, 7 + n) /\ c = Cs(1, 9 + n + ld)
  BY DEF Cs
<1>3. PICK p1 : p1 = <<104, 10 + n + ld, 0, ctrl, af>>
  OBVIOUS
<1>4. p1 \in Seq(Int) /\ Len(p1) = 5
  BY <1>3
<1>5. PICK p2 : p2 = Cut(a, 0, n + 1)
  OBVIOUS
<1>6. p2 \in Seq(Int) /\ Len(p2) = n + 1
  <2>1. a \in Seq(Int) /\ Len(a) = 16
    BY AddressIsSeq
  <2>2a. PICK i \in Nat, m \in Nat : i = 0 /\ m = n + 1
    OBVIOUS
  <2>2. PICK j : i = 0 /\ m = n + 1 /\ j = n + 1
    BY <2>2a
  <2>3. j = i + m /\ j <= Len(a)
    BY <2>1, <2>2
  <2>4. CutAt(Cut(a, i, j), a, i, m)
    BY <2>1, <2>3, CutFacts
  <2> QED  BY <1>5, <2>2, <2>4 DEF CutAt
<1>7. PICK p3 : p3 = <<ca, h, h>>
  OBVIOUS
<1>8. p3 \in Seq(Int) /\ Len(p3) = 3
  BY <1>7
<1>9. PICK p5 : p5 = <<c, c, 22>>
  OBVIOUS
<1>10. p5 \in Seq(Int) /\ Len(p5) = 3
  BY <1>9
<1>11. f = p1 \o p2 \o p3 \o d \o p5
  BY <1>1, <1>2, <1>3, <1>5, <1>7, <1>9 DEF Plain698
<1>12. Five(f, p1, p2, p3, d, p5)
  BY <1>4, <1>6, <1>8, <1>10, <1>11, CatFive
<1>13. f \in Seq(Int) /\ Len(f) = 12 + n + ld /\ Holds(f, 0, p1) /\ Holds(f, 9 + n, d)
  BY <1>1, <1>4, <1>6, <1>8, <1>10, <1>12 DEF Five
<1>14. f[4] = ctrl /\ f[5] = af
  <2>1. \A i \in 1..5 : f[0 + i] = p1[i]
    BY <1>4, <1>13 DEF Holds
  <2>2. 4 \in 1..5 /\ 5 \in 1..5 /\ 0 + 4 = 4 /\ 0 + 5 = 5
    OBVIOUS
  <2>3. f[4] = p1[4] /\ f[5] = p1[5]
    BY <2>1, <2>2, Zenon
  <2> QED  BY <1>3, <2>3
<1>15. Size(f) = n
  <2>1. f[4 + 1] = af
    BY <1>14
  <2> QED  BY <2>1 DEF Size, B
<1> QED  BY <1>1, <1>13, <1>14, <1>15 DEF PlainAt

LEMMA HoldsIn ==
  ASSUME NEW w, NEW q \in Seq(Int), NEW p \in Seq(Int), NEW k \in Nat,
         Holds(w, 0, q), Holds(q, k, p), k + Len(p) <= Len(q)
  PROVE  Holds(w, k, p)
<1>1. PICK m \in Nat, n \in Nat : m = Len(p) /\ n = Len(q)
  OBVIOUS
<1>2. \A i \in 1..n : w[0 + i] = q[i]
  BY <1>1 DEF Holds
<1>3. ASSUME NEW i \in 1..m PROVE w[k + i] = p[i]
  <2>1. k + i \in 1..n /\ 0 + (k + i) = k + i
    BY <1>1
  <2>2. q[k + i] = p[i]
    BY <1>1 DEF Holds
  <2> QED  BY <1>2, <2>1, <2>2
<1> QED  BY <1>1, <1>3 DEF Holds

(* What the validators look at in a 698 frame.                             *)
W698(w, L) ==
  /\ Len(w) = L + 2 /\ L >= 7 /\ B(w, 0) = 104 /\ B(w, L + 1) = 22
  /\ Hcs(w) + 2 <= L
  /\ \A i \in {0, 1} : /\ B(w, Hcs(w) + i) = Cs(1, Hcs(w))
                       /\ B(w, L - 1 + i) = Cs(1, L - 1)

Ends698(w, n, L) ==
  /\ w \in Seq(Int) /\ Size(w) = n /\ Len(w) = L + 2
  /\ w[1] = 104 /\ w[2] = L /\ w[3] = 0 /\ w[L + 2] = 22
  /\ w[8 + n] = Cs(1, 7 + n) /\ w[9 + n] = Cs(1, 7 + n)
  /\ w[L] = Cs(1, L - 1) /\ w[L + 1] = Cs(1, L - 1)

LEMMA WholeIf ==
  ASSUME NEW w, NEW n \in 0..15, NEW L \in Nat, n + 9 <= L, Ends698(w, n, L)
  PROVE  Whole("698", w)
<1>1. B(w, 0) = 104 /\ B(w, 1) = L /\ B(w, 2) = 0
  <2>1. w[1] = 104 /\ w[2] = L /\ w[3] = 0
    BY DEF Ends698
  <2>2. 0 + 1 = 1 /\ 1 + 1 = 2 /\ 2 + 1 = 3
    OBVIOUS
  <2> QED  BY <2>1, <2>2, Zenon DEF B
<1>2. B(w, L + 1) = 22
  <2>1. (L + 1) + 1 = L + 2
    OBVIOUS
  <2>2. w[L + 2] = 22
    BY DEF Ends698
  <2> QED  BY <2>1, <2>2, Zenon DEF B
<1>3. Hcs(w) = 7 + n
  <2>1. Size(w) = n
    BY DEF Ends698
  <2> QED  BY <2>1 DEF Hcs
<1>4. \A i \in {0, 1} : B(w, Hcs(w) + i) = Cs(1, Hcs(w))
  <2>1. (7 + n + 0) + 1 = 8 + n /\ (7 + n + 1) + 1 = 9 + n
    OBVIOUS
  <2>2. w[8 + n] = Cs(1, 7 + n) /\ w[9 + n] = Cs(1, 7 + n)
    BY DEF Ends698
  <2>3. B(w, 7 + n + 0) = Cs(1, 7 + n) /\ B(w, 7 + n + 1) = Cs(1, 7 + n)
    BY <2>1, <2>2, Zenon DEF B
  <2> QED  BY <1>3, <2>3
<1>5. \A i \in {0, 1} : B(w, L - 1 + i) = Cs(1, L - 1)
  <2>1. (L - 1 + 0) + 1 = L /\ (L - 1 + 1) + 1 = L + 1
    OBVIOUS
  <2>2. w[L] = Cs(1, L - 1) /\ w[L + 1] = Cs(1, L - 1)
    BY DEF Ends698
  <2>3. B(w, L - 1 + 0) = Cs(1, L - 1) /\ B(w, L - 1 + 1) = Cs(1, L - 1)
    BY <2>1, <2>2, Zenon DEF B
  <2> QED  BY <2>3
<1>6. Hcs(w) + 2 <= L /\ L >= 7
  <2>1. (7 + n) + 2 <= L /\ L >= 7
    OBVIOUS
  <2> QED  BY <1>3, <2>1, Zenon
<1>7. W698(w, L)
  <2>1. Len(w) = L + 2
    BY DEF Ends698
  <2> QED  BY <1>1, <1>2, <1>4, <1>5, <1>6, <2>1, Zenon DEF W698
<1>8. B(w, 1) + 256 * B(w, 2) = L
  <2>1. L + 256 * 0 = L
    OBVIOUS
  <2> QED  BY <1>1, <2>1, Zenon
<1>9. W698(w, B(w, 1) + 256 * B(w, 2))
  BY <1>7, <1>8, Zenon
<1> QED  BY <1>9, Zenon DEF Whole, W698

(* Two 698 frames with the same bytes from the size on have one address.   *)
LEMMA SameAddress ==
  ASSUME NEW f \in Seq(Int), NEW w \in Seq(Int), NEW n \in 0..15, Size(f) = n,
         7 + n <= Len(f), 7 + n <= Len(w), Agree(w, f, 4, 3 + n)
  PROVE  /\ Size(w) = n /\ AddrGet("698", w) = AddrGet("698", f)
         /\ MsaGet("698", w) = MsaGet("698", f)
<1>1. B(w, 4) = B(f, 4)
  <2>1. 1 \in 1..(3 + n)
    OBVIOUS
  <2> QED  BY <2>1 DEF B, Agree
<1>2. Size(w) = n
  BY <1>1 DEF Size
<1>3. B(w, 6 + n) = B(f, 6 + n)
  <2>1. 3 + n \in 1..(3 + n) /\ (6 + n) + 1 = 4 + (3 + n)
    OBVIOUS
  <2> QED  BY <2>1 DEF B, Agree
<1>4. PICK j \in Nat : j = 6 + n
  OBVIOUS
<1>5. j <= Len(w) /\ j <= Len(f)
  <2>1. \A x, y \in Nat : x = y + 1 => \A l \in Nat : x <= l => y <= l
    OBVIOUS
  <2>2. 7 + n = j + 1 /\ 7 + n \in Nat
    BY <1>4
  <2>3. Len(w) \in Nat /\ Len(f) \in Nat
    OBVIOUS
  <2> QED  BY <2>1, <2>2, <2>3, Zenon
<1>6. Cut(w, 5, j) = Cut(f, 5, j)
  <2>1. PICK i \in Nat, m \in Nat : i = 5 /\ m = 1 + n
    OBVIOUS
  <2>2. j = i + m
    BY <1>4, <2>1
  <2>3. ASSUME NEW x \in 1..m PROVE w[i + x] = f[i + x]
    <3>1. x + 1 \in 1..(3 + n) /\ 4 + (x + 1) = i + x
      BY <2>1
    <3> QED  BY <3>1 DEF Agree
  <2>4. Agree(w, f, i, m)
    BY <2>3 DEF Agree
  <2>5. Cut(w, i, j) = Cut(f, i, j)
    BY <1>5, <2>2, <2>4, SameCut
  <2> QED  BY <2>1, <2>5
<1>7. Cut(w, 6, j) = Cut(f, 6, j)
  <2>1. PICK i \in Nat, m \in Nat : i = 6 /\ m = n
    OBVIOUS
  <2>2. j = i + m
    BY <1>4, <2>1
  <2>3. ASSUME NEW x \in 1..m PROVE w[i + x] = f[i + x]
    <3>1. x + 2 \in 1..(3 + n) /\ 4 + (x + 2) = i + x
      BY <2>1
    <3> QED  BY <3>1 DEF Agree
  <2>4. Agree(w, f, i, m)
    BY <2>3 DEF Agree
  <2>5. Cut(w, i, j) = Cut(f, i, j)
    BY <1>5, <2>2, <2>4, SameCut
  <2> QED  BY <2>1, <2>5
<1>8. Ptl698_45AddrGet(w) = Ptl698_45AddrGet(f)
  BY <1>1, <1>2, <1>4, <1>6, <1>7 DEF Ptl698_45AddrGet
<1>9. Ptl698_45MsaGet(w) = Ptl698_45MsaGet(f)
  BY <1>2, <1>3 DEF Ptl698_45MsaGet
<1> QED  BY <1>2, <1>8, <1>9 DEF AddrGet, MsaGet, Pick

(* The reply to a 698 link frame.                                          *)
ReplyAt(f, w, n) ==
  /\ w \in Seq(Int) /\ Len(w) = 45 + n
  /\ w[1] = 104 /\ w[2] = 43 + n /\ w[3] = 0 /\ w[4] = 1
  /\ Agree(w, f, 4, 3 + n)
  /\ w[8 + n] = Cs(1, 7 + n) /\ w[9 + n] = Cs(1, 7 + n)
  /\ w[10 + n] = 129 /\ w[11 + n] = 0 /\ w[12 + n] = 128
  /\ w[43 + n] = Cs(1, 42 + n) /\ w[44 + n] = Cs(1, 42 + n) /\ w[45 + n] = 22

LEMMA ReplyParts ==
  ASSUME NEW f \in Seq(Int), NEW n \in 0..15, Size(f) = n, 24 + n <= Len(f),
         NEW w, w = Ptl698_45BuildReplyPacket(f)
  PROVE  ReplyAt(f, w, n)
<1>1. PICK h \in Int, c \in Int : h = Cs(1, 7 + n) /\ c = Cs(1, 42 + n)
  BY DEF Cs
<1>2. PICK p1 : p1 = <<104, 43 + n, 0, 1>>
  OBVIOUS
<1>3. p1 \in Seq(Int) /\ Len(p1) = 4
  BY <1>2
<1>4. PICK p2 : p2 = Cut(f, 4, 7 + n)
  OBVIOUS
<1>5. p2 \in Seq(Int) /\ Len(p2) = 3 + n /\ \A x \in 1..(3 + n) : p2[x] = f[4 + x]
  <2>1a. PICK i \in Nat, m \in Nat : i = 4 /\ m = 3 + n
    OBVIOUS
  <2>1. PICK j : i = 4 /\ m = 3 + n /\ j = 7 + n
    BY <2>1a
  <2>2. j = i + m /\ j <= Len(f)
    BY <2>1
  <2>3. CutAt(Cut(f, i, j), f, i, m)
    BY <2>2, CutFacts
  <2> QED  BY <1>4, <2>1, <2>3 DEF CutAt
<1>6. PICK p3 : p3 = <<h, h, 129, 0, 128>>
  OBVIOUS
<1>7. p3 \in Seq(Int) /\ Len(p3) = 5
  BY <1>6
<1>8. PICK q : q = p1 \o p2 \o p3
  OBVIOUS
<1>9. Three(q, p1, p2, p3)
  BY <1>3, <1>5, <1>7, <1>8, CatThree
<1>10. /\ q \in Seq(Int) /\ Len(q) = 12 + n
       /\ Holds(q, 0, p1) /\ Holds(q, 4, p2) /\ Holds(q, 7 + n, p3)
  BY <1>3, <1>5, <1>7, <1>9 DEF Three
<1>11. PICK p4 : p4 = Cut(f, 14 + n, 24 + n)
  OBVIOUS
<1>12. p4 \in Seq(Int) /\ Len(p4) = 10
  <2>1a. PICK i \in Nat, m \in Nat : i = 14 + n /\ m = 10
    OBVIOUS
  <2>1. PICK j : i = 14 + n /\ m = 10 /\ j = 24 + n
    BY <2>1a
  <2>2. j = i + m /\ j <= Len(f)
    BY <2>1
  <2>3. CutAt(Cut(f, i, j), f, i, m)
    BY <2>2, CutFacts
  <2> QED  BY <1>11, <2>1, <2>3 DEF CutAt
<1>13. Now \in Seq(Int) /\ Len(Now) = 10
  BY DEF Now, Marks
<1>14. PICK p5 : p5 = <<c, c, 22>>
  OBVIOUS
<1>15. p5 \in Seq(Int) /\ Len(p5) = 3
  BY <1>14
<1>16. w = q \o p4 \o Now \o Now \o p5
  BY <1>1, <1>2, <1>4, <1>6, <1>8, <1>11, <1>14 DEF Ptl698_45BuildReplyPacket
<1>17. Five(w, q, p4, Now, Now, p5)
  BY <1>10, <1>12, <1>13, <1>15, <1>16, CatFive
<1>18. w \in Seq(Int) /\ Len(w) = 45 + n /\ Holds(w, 0, q) /\ Holds(w, 42 + n, p5)
  BY <1>10, <1>12, <1>13, <1>15, <1>17 DEF Five
<1>19. Holds(w, 0, p1) /\ Holds(w, 4, p2) /\ Holds(w, 7 + n, p3)
  <2>1. PICK k \in Nat : k = 7 + n
    OBVIOUS
  <2>2. 0 + Len(p1) <= Len(q) /\ 4 + Len(p2) <= Len(q) /\ k + Len(p3) <= Len(q)
    BY <1>3, <1>5, <1>7, <1>10, <2>1
  <2>3. Holds(w, 0, p1)
    BY <1>3, <1>10, <1>18, <2>2, HoldsIn
  <2>4. Holds(w, 4, p2)
    BY <1>5, <1>10, <1>18, <2>2, HoldsIn
  <2>5. Holds(w, k, p3)
    BY <1>7, <1>10, <1>18, <2>1, <2>2, HoldsIn
  <2> QED  BY <2>1, <2>3, <2>4, <2>5
<1>20. w[1] = 104 /\ w[2] = 43 + n /\ w[3] = 0 /\ w[4] = 1
  <2>1. \A i \in 1..4 : w[0 + i] = p1[i]
    BY <1>3, <1>19 DEF Holds
  <2>2. /\ 1 \in 1..4 /\ 2 \in 1..4 /\ 3 \in 1..4 /\ 4 \in 1..4
        /\ 0 + 1 = 1 /\ 0 + 2 = 2 /\ 0 + 3 = 3 /\ 0 + 4 = 4
    OBVIOUS
  <2>3. w[1] = p1[1] /\ w[2] = p1[2] /\ w[3] = p1[3] /\ w[4] = p1[4]
    BY <2>1, <2>2, Zenon
  <2> QED  BY <1>2, <2>3
<1>21. Agree(w, f, 4, 3 + n)
  BY <1>5, <1>19 DEF Holds, Agree
<1>22. /\ w[8 + n] = h /\ w[9 + n] = h
       /\ w[10 + n] = 129 /\ w[11 + n] = 0 /\ w[12 + n] = 128
  <2>1. PICK k \in Nat : k = 7 + n
    OBVIOUS
  <2>2. \A i \in 1..5 : w[k + i] = p3[i]
    BY <1>7, <1>19, <2>1 DEF Holds
  <2>3. 1 \in 1..5 /\ 2 \in 1..5 /\ 3 \in 1..5 /\ 4 \in 1..5 /\ 5 \in 1..5
    OBVIOUS
  <2>4. w[k + 1] = p3[1] /\ w[k + 2] = p3[2] /\ w[k + 3] = p3[3] /\ w[k + 4] = p3[4] /\ w[k + 5] = p3[5]
    BY <2>2, <2>3, Zenon
  <2>5. p3[1] = h /\ p3[2] = h /\ p3[3] = 129 /\ p3[4] = 0 /\ p3[5] = 128
    BY <1>6
  <2>6. k + 1 = 8 + n /\ k + 2 = 9 + n /\ k + 3 = 10 + n /\ k + 4 = 11 + n /\ k + 5 = 12 + n
    BY <2>1
  <2> QED  BY <2>4, <2>5, <2>6
<1>23. w[43 + n] = c /\ w[44 + n] = c /\ w[45 + n] = 22
  <2>1. PICK k \in Nat : k = 42 + n
    OBVIOUS
  <2>2. \A i \in 1..3 : w[k + i] = p5[i]
    BY <1>15, <1>18, <2>1 DEF Holds
  <2>3. 1 \in 1..3 /\ 2 \in 1..3 /\ 3 \in 1..3
    OBVIOUS
  <2>4. w[k + 1] = p5[1] /\ w[k + 2] = p5[2] /\ w[k + 3] = p5[3]
    BY <2>2, <2>3, Zenon
  <2>5. p5[1] = c /\ p5[2] = c /\ p5[3] = 22
    BY <1>14
  <2>6. k + 1 = 43 + n /\ k + 2 = 44 + n /\ k + 3 = 45 + n
    BY <2>1
  <2> QED  BY <2>4, <2>5, <2>6
<1> QED  BY <1>1, <1>18, <1>20, <1>21, <1>22, <1>23 DEF ReplyAt

(* The acknowledgement of a 698 report.                                    *)
AckAt(f, w, n) ==
  /\ w \in Seq(Int) /\ Len(w) = 21 + n
  /\ w[1] = 104 /\ w[2] = 19 + n /\ w[3] = 0 /\ w[4] = 3
  /\ Agree(w, f, 4, 3 + n)
  /\ w[8 + n] = Cs(1, 7 + n) /\ w[9 + n] = Cs(1, 7 + n) /\ w[10 + n] = 8
  /\ w[19 + n] = Cs(1, 18 + n) /\ w[20 + n] = Cs(1, 18 + n) /\ w[21 + n] = 22

LEMMA AckParts ==
  ASSUME NEW f \in Seq(Int), NEW n \in 0..15, Size(f) = n, 17 + n <= Len(f),
         NEW w, w = BuildReportAckPacket(f)
  PROVE  AckAt(f, w, n)
<1>1. PICK h \in Int, c \in Int : h = Cs(1, 7 + n) /\ c = Cs(1, 18 + n)
  BY DEF Cs
<1>2. PICK p1 : p1 = <<104, 19 + n, 0, 3>>
  OBVIOUS
<1>3. p1 \in Seq(Int) /\ Len(p1) = 4
  BY <1>2
<1>4. PICK p2 : p2 = Cut(f, 4, 7 + n)
  OBVIOUS
<1>5. p2 \in Seq(Int) /\ Len(p2) = 3 + n /\ \A x \in 1..(3 + n) : p2[x] = f[4 + x]
  <2>1a. PICK i \in Nat, m \in Nat : i = 4 /\ m = 3 + n
    OBVIOUS
  <2>1. PICK j : i = 4 /\ m = 3 + n /\ j = 7 + n
    BY <2>1a
  <2>2. j = i + m /\ j <= Len(f)
    BY <2>1
  <2>3. CutAt(Cut(f, i, j), f, i, m)
    BY <2>2, CutFacts
  <2> QED  BY <1>4, <2>1, <2>3 DEF CutAt
<1>6. PICK x \in Int, y \in Int : x = B(f, 10 + n) /\ y = B(f, 11 + n)
  <2>1. (10 + n) + 1 \in 1..Len(f) /\ (11 + n) + 1 \in 1..Len(f)
    OBVIOUS
  <2> QED  BY <2>1, ElementOfSeq DEF B
<1>7. PICK p3 : p3 = <<h, h, 8, x, y, 1>>
  OBVIOUS
<1>8. p3 \in Seq(Int) /\ Len(p3) = 6
  BY <1>7
<1>9. PICK p4 : p4 = Cut(f, 13 + n, 17 + n)
  OBVIOUS
<1>10. p4 \in Seq(Int) /\ Len(p4) = 4
  <2>1a. PICK i \in Nat, m \in Nat : i = 13 + n /\ m = 4
    OBVIOUS
  <2>1. PICK j : i = 13 + n /\ m = 4 /\ j = 17 + n
    BY <2>1a
  <2>2. j = i + m /\ j <= Len(f)
    BY <2>1
  <2>3. CutAt(Cut(f, i, j), f, i, m)
    BY <2>2, CutFacts
  <2> QED  BY <1>9, <2>1, <2>3 DEF CutAt
<1>11. PICK p5 : p5 = <<0, c, c, 22>>
  OBVIOUS
<1>12. p5 \in Seq(Int) /\ Len(p5) = 4
  BY <1>11
<1>13. w = p1 \o p2 \o p3 \o p4 \o p5
  BY <1>1, <1>2, <1>4, <1>6, <1>7, <1>9, <1>11 DEF BuildReportAckPacket
<1>14. Five(w, p1, p2, p3, p4, p5)
  BY <1>3, <1>5, <1>8, <1>10, <1>12, <1>13, CatFive
<1>15. /\ w \in Seq(Int) /\ Len(w) = 21 + n /\ Holds(w, 0, p1) /\ Holds(w, 4, p2)
       /\ Holds(w, 7 + n, p3) /\ Holds(w, 17 + n, p5)
  BY <1>3, <1>5, <1>8, <1>10, <1>12, <1>14 DEF Five
<1>16. w[1] = 104 /\ w[2] = 19 + n /\ w[3] = 0 /\ w[4] = 3
  <2>1. \A i \in 1..4 : w[0 + i] = p1[i]
    BY <1>3, <1>15 DEF Holds
  <2>2. /\ 1 \in 1..4 /\ 2 \in 1..4 /\ 3 \in 1..4 /\ 4 \in 1..4
        /\ 0 + 1 = 1 /\ 0 + 2 = 2 /\ 0 + 3 = 3 /\ 0 + 4 = 4
    OBVIOUS
  <2>3. w[1] = p1[1] /\ w[2] = p1[2] /\ w[3] = p1[3] /\ w[4] = p1[4]
    BY <2>1, <2>2, Zenon
  <2> QED  BY <1>2, <2>3
<1>17. Agree(w, f, 4, 3 + n)
  BY <1>5, <1>15 DEF Holds, Agree
<1>18. w[8 + n] = h /\ w[9 + n] = h /\ w[10 + n] = 8
  <2>1. PICK k \in Nat : k = 7 + n
    OBVIOUS
  <2>2. \A i \in 1..6 : w[k + i] = p3[i]
    BY <1>8, <1>15, <2>1 DEF Holds
  <2>3. 1 \in 1..6 /\ 2 \in 1..6 /\ 3 \in 1..6
    OBVIOUS
  <2>4. w[k + 1] = p3[1] /\ w[k + 2] = p3[2] /\ w[k + 3] = p3[3]
    BY <2>2, <2>3, Zenon
  <2>5. p3[1] = h /\ p3[2] = h /\ p3[3] = 8
    BY <1>7
  <2>6. k + 1 = 8 + n /\ k + 2 = 9 + n /\ k + 3 = 10 + n
    BY <2>1
  <2> QED  BY <2>4, <2>5, <2>6
<1>19. w[19 + n] = c /\ w[20 + n] = c /\ w[21 + n] = 22
  <2>1. PICK k \in Nat : k = 17 + n
    OBVIOUS
  <2>2. \A i \in 1..4 : w[k + i] = p5[i]
    BY <1>12, <1>15, <2>1 DEF Holds
  <2>3. 2 \in 1..4 /\ 3 \in 1..4 /\ 4 \in 1..4
    OBVIOUS
  <2>4. w[k + 2] = p5[2] /\ w[k + 3] = p5[3] /\ w[k + 4] = p5[4]
    BY <2>2, <2>3, Zenon
  <2>5. p5[2] = c /\ p5[3] = c /\ p5[4] = 22
    BY <1>11
  <2>6. k + 2 = 19 + n /\ k + 3 = 20 + n /\ k + 4 = 21 + n
    BY <2>1
  <2> QED  BY <2>4, <2>5, <2>6
<1> QED  BY <1>1, <1>15, <1>16, <1>17, <1>18, <1>19 DEF AckAt

(* A 698 link frame is answered by a whole link frame to the same address, *)
(* and a report by one that is not a link frame.                           *)
GoodAnswer(p, f, w) ==
  /\ Whole(p, w) /\ GetDir(p, w) = 0 /\ AddrGet(p, w) = AddrGet(p, f)
  /\ GetFrameType(p, w) = "other"

LEMMA GoodReply698 ==
  ASSUME NEW f \in Seq(Int), NEW n \in 0..15, Size(f) = n, 24 + n <= Len(f),
         NEW w, w = Ptl698_45BuildReplyPacket(f)
  PROVE  /\ GoodAnswer("698", f, w) /\ MsaGet("698", w) = MsaGet("698", f)
         /\ ~IsReport(w) /\ packetType(w) = 1
<1>0. ReplyAt(f, w, n)
  BY ReplyParts
<1>1. /\ w \in Seq(Int) /\ Len(w) = 45 + n
      /\ w[1] = 104 /\ w[2] = 43 + n /\ w[3] = 0 /\ w[4] = 1
      /\ Agree(w, f, 4, 3 + n)
      /\ w[8 + n] = Cs(1, 7 + n) /\ w[9 + n] = Cs(1, 7 + n)
      /\ w[10 + n] = 129 /\ w[11 + n] = 0 /\ w[12 + n] = 128
      /\ w[43 + n] = Cs(1, 42 + n) /\ w[44 + n] = Cs(1, 42 + n) /\ w[45 + n] = 22
  BY <1>0 DEF ReplyAt
<1>2. /\ Size(w) = n /\ AddrGet("698", w) = AddrGet("698", f)
      /\ MsaGet("698", w) = MsaGet("698", f)
  <2>1. 7 + n <= Len(f) /\ 7 + n <= Len(w)
    BY <1>1
  <2> QED  BY <1>1, <2>1, SameAddress
<1>3. Whole("698", w)
  <2>1. PICK L \in Nat : L = 43 + n
    OBVIOUS
  <2>2. L + 2 = 45 + n /\ L + 1 = 44 + n /\ L - 1 = 42 + n /\ n + 9 <= L
    BY <2>1
  <2>3. Ends698(w, n, L)
    BY <1>1, <1>2, <2>1, <2>2, ZenonT(40) DEF Ends698
  <2> QED  BY <2>2, <2>3, WholeIf
<1>4. B(w, 3) = 1
  BY <1>1 DEF B
<1>5. B(w, 9 + n) = 129 /\ B(w, 11 + n) = 128
  <2>1. (9 + n) + 1 = 10 + n /\ (11 + n) + 1 = 12 + n
    OBVIOUS
  <2> QED  BY <1>1, <2>1 DEF B
<1>6. GetDir("698", w) = 0
  BY <1>4 DEF GetDir, Pick, Ptl698_45GetDir
<1>7. GetFrameType("698", w) = "other"
  BY <1>2, <1>5 DEF GetFrameType, Pick, Ptl698_45GetFrameType
<1>8. ~IsReport(w)
  BY <1>2, <1>5 DEF IsReport
<1> QED  BY <1>2, <1>3, <1>4, <1>6, <1>7, <1>8 DEF GoodAnswer, packetType

LEMMA GoodAck698 ==
  ASSUME NEW f \in Seq(Int), NEW n \in 0..15, Size(f) = n, 17 + n <= Len(f),
         NEW w, w = BuildReportAckPacket(f)
  PROVE  /\ GoodAnswer("698", f, w) /\ MsaGet("698", w) = MsaGet("698", f)
         /\ ~IsReport(w) /\ packetType(w) = 0
<1>0. AckAt(f, w, n)
  BY AckParts
<1>1. /\ w \in Seq(Int) /\ Len(w) = 21 + n
      /\ w[1] = 104 /\ w[2] = 19 + n /\ w[3] = 0 /\ w[4] = 3
      /\ Agree(w, f, 4, 3 + n)
      /\ w[8 + n] = Cs(1, 7 + n) /\ w[9 + n] = Cs(1, 7 + n) /\ w[10 + n] = 8
      /\ w[19 + n] = Cs(1, 18 + n) /\ w[20 + n] = Cs(1, 18 + n) /\ w[21 + n] = 22
  BY <1>0 DEF AckAt
<1>2. /\ Size(w) = n /\ AddrGet("698", w) = AddrGet("698", f)
      /\ MsaGet("698", w) = MsaGet("698", f)
  <2>1. 7 + n <= Len(f) /\ 7 + n <= Len(w)
    BY <1>1
  <2> QED  BY <1>1, <2>1, SameAddress
<1>3. Whole("698", w)
  <2>1. PICK L \in Nat : L = 19 + n
    OBVIOUS
  <2>2. L + 2 = 21 + n /\ L + 1 = 20 + n /\ L - 1 = 18 + n /\ n + 9 <= L
    BY <2>1
  <2>3. Ends698(w, n, L)
    BY <1>1, <1>2, <2>1, <2>2, Zenon DEF Ends698
  <2> QED  BY <2>2, <2>3, WholeIf
<1>4. B(w, 3) = 3
  BY <1>1 DEF B
<1>5. B(w, 9 + n) = 8
  <2>1. (9 + n) + 1 = 10 + n
    OBVIOUS
  <2> QED  BY <1>1, <2>1 DEF B
<1>6. GetDir("698", w) = 0
  BY <1>4 DEF GetDir, Pick, Ptl698_45GetDir
<1>7. GetFrameType("698", w) = "other"
  BY <1>4 DEF GetFrameType, Pick, Ptl698_45GetFrameType
<1>8. ~IsReport(w)
  BY <1>2, <1>5 DEF IsReport
<1> QED  BY <1>2, <1>3, <1>4, <1>6, <1>7, <1>8 DEF GoodAnswer, packetType

(* The replies of the other two protocols: what the validators look at in  *)
(* a frame with its length, M, twice at the head.                          *)
HeadAt(w, M) ==
  w[1] = 104 /\ w[2] = M /\ w[3] = 0 /\ w[4] = M /\ w[5] = 0 /\ w[6] = 104 /\ w[7] = 11

LEMMA HasHead ==
  ASSUME NEW w, NEW M, Holds(w, 0, <<104, M, 0, M, 0, 104, 11>>)
  PROVE  HeadAt(w, M)
<1>1. PICK b, m, z, e : b = 104 /\ m = M /\ z = 0 /\ e = 11
  OBVIOUS
<1>2. Holds(w, 0, <<b, m, z, m, z, b, e>>)
  BY <1>1
<1>3. PICK p : p = <<b, m, z, m, z, b, e>>
  OBVIOUS
<1>4. Len(p) = 7
  BY <1>3
<1>5. \A i \in 1..7 : w[0 + i] = p[i]
  BY <1>2, <1>3, <1>4 DEF Holds
<1>6. /\ p[1] = b /\ p[2] = m /\ p[3] = z /\ p[4] = m /\ p[5] = z /\ p[6] = b /\ p[7] = e
  BY <1>3
<1>7. /\ 1 \in 1..7 /\ 2 \in 1..7 /\ 3 \in 1..7 /\ 4 \in 1..7
      /\ 5 \in 1..7 /\ 6 \in 1..7 /\ 7 \in 1..7
      /\ 0 + 1 = 1 /\ 0 + 2 = 2 /\ 0 + 3 = 3 /\ 0 + 4 = 4
      /\ 0 + 5 = 5 /\ 0 + 6 = 6 /\ 0 + 7 = 7
  OBVIOUS
<1>8. /\ w[1] = p[1] /\ w[2] = p[2] /\ w[3] = p[3] /\ w[4] = p[4] /\ w[5] = p[5]
      /\ w[6] = p[6] /\ w[7] = p[7]
  BY <1>5
<1>9. w[1] = b /\ w[2] = m /\ w[3] = z /\ w[4] = m /\ w[5] = z /\ w[6] = b /\ w[7] = e
  BY <1>6, <1>8, Zenon
<1> QED  BY <1>1, <1>9 DEF HeadAt

WTwin(w, L) ==
  /\ Len(w) = L + 8 /\ L >= 8 /\ B(w, 0) = 104 /\ B(w, 5) = 104
  /\ Cut(w, 1, 3) = Cut(w, 3, 5)
  /\ B(w, L + 6) = Cs(6, L + 6) /\ B(w, L + 7) = 22

LEMMA WholeTwin ==
  ASSUME NEW p \in {"1376", "nw"}, NEW w \in Seq(Int), NEW M \in Nat, HeadAt(w, M), NEW L \in Nat,
         L = M \div (IF p = "1376" THEN 4 ELSE 1), L >= 8, Len(w) = L + 8,
         w[L + 7] = Cs(6, L + 6), w[L + 8] = 22
  PROVE  Whole(p, w)
<1>1. B(w, 0) = 104 /\ B(w, 5) = 104 /\ B(w, 1) = M /\ B(w, 2) = 0
  BY DEF HeadAt, B
<1>2. Cut(w, 1, 3) = Cut(w, 3, 5)
  <2>1. PICK q : q = Cut(w, 3, 5)
    OBVIOUS
  <2>2a. PICK k \in Nat, i \in Nat, m \in Nat : k = 1 /\ i = 3 /\ m = 2
    OBVIOUS
  <2>2. PICK d, e : k = 1 /\ i = 3 /\ m = 2 /\ d = 3 /\ e = 5
    BY <2>2a
  <2>3. PICK l \in Nat : l = Len(w) /\ l >= 16
    OBVIOUS
  <2>4. e = i + m /\ d = k + m /\ e <= Len(w) /\ d <= Len(w)
    BY <2>2, <2>3
  <2>5. CutAt(Cut(w, i, e), w, i, m)
    BY <2>4, CutFacts
  <2>6. q \in Seq(Int) /\ Len(q) = m /\ \A x \in 1..m : q[x] = w[i + x]
    BY <2>1, <2>2, <2>5 DEF CutAt
  <2>7. w[i + 1] = w[k + 1] /\ w[i + 2] = w[k + 2]
    <3>1. i + 1 = 4 /\ i + 2 = 5 /\ k + 1 = 2 /\ k + 2 = 3
      BY <2>2
    <3>2. w[4] = w[2] /\ w[5] = w[3]
      BY Zenon DEF HeadAt
    <3> QED  BY <3>1, <3>2, Zenon
  <2>8. ASSUME NEW x \in 1..m PROVE w[k + x] = q[x]
    <3>1. x = 1 \/ x = 2
      BY <2>2
    <3>2. q[x] = w[i + x]
      BY <2>6
    <3> QED  BY <2>7, <3>1, <3>2
  <2>9. Holds(w, k, q)
    BY <2>6, <2>8 DEF Holds
  <2>10. PartAt(w, k, d, q)
    BY <2>4, <2>6, <2>9, Zenon DEF PartAt
  <2>11. Cut(w, k, d) = q
    BY <2>10, CutIs
  <2> QED  BY <2>1, <2>2, <2>11
<1>3. B(w, L + 6) = Cs(6, L + 6) /\ B(w, L + 7) = 22
  <2>1. (L + 6) + 1 = L + 7 /\ (L + 7) + 1 = L + 8
    OBVIOUS
  <2> QED  BY <2>1 DEF B
<1>4. WTwin(w, L)
  BY <1>1, <1>2, <1>3, Zenon DEF WTwin
<1>5. (B(w, 1) + 256 * B(w, 2)) \div (IF p = "1376" THEN 4 ELSE 1) = L
  <2>1. M + 256 * 0 = M
    OBVIOUS
  <2>2. PICK v : v = B(w, 1) + 256 * B(w, 2)
    OBVIOUS
  <2>3. v = M
    BY <1>1, <2>1, <2>2, Zenon
  <2>4. v \div (IF p = "1376" THEN 4 ELSE 1) = L
    BY <2>3
  <2> QED  BY <2>2, <2>4, Zenon
<1>6. WTwin(w, (B(w, 1) + 256 * B(w, 2)) \div (IF p = "1376" THEN 4 ELSE 1))
  BY <1>4, <1>5, Zenon
<1>7. p # "698"
  OBVIOUS
<1> QED  BY <1>6, <1>7, Zenon DEF Whole, WTwin

LEMMA GoodReply1376 ==
  ASSUME NEW f \in Seq(Int), 20 <= Len(f), NEW w, w = Ptl1376_1BuildReplyPacket(f)
  PROVE  GoodAnswer("1376", f, w)
<1>1. PICK r \in 0..3 : r = B(f, 1) % 4
  <2>1. 1 + 1 \in 1..Len(f) /\ f[1 + 1] \in Int
    BY ElementOfSeq
  <2> QED  BY <2>1 DEF B
<1>2. PICK M \in Nat : M = 72 + r
  OBVIOUS
<1>3. PICK s \in Int : s = 96 + (B(f, 13) % 16)
  <2>1. 13 + 1 \in 1..Len(f) /\ f[13 + 1] \in Int
    BY ElementOfSeq
  <2> QED  BY <2>1 DEF B
<1>4. PICK c \in Int : c = Cs(6, 24)
  BY DEF Cs
<1>5. PICK p1 : p1 = <<104, M, 0, M, 0, 104, 11>>
  OBVIOUS
<1>6. p1 \in Seq(Int) /\ Len(p1) = 7
  BY <1>5
<1>7. PICK p2 : p2 = Cut(f, 7, 11)
  OBVIOUS
<1>8. p2 \in Seq(Int) /\ Len(p2) = 4
  <2>1a. PICK i \in Nat, m \in Nat : i = 7 /\ m = 4
    OBVIOUS
  <2>1. PICK j : i = 7 /\ m = 4 /\ j = 11
    BY <2>1a
  <2>2. j = i + m /\ j <= Len(f)
    BY <2>1
  <2>3. CutAt(Cut(f, i, j), f, i, m)
    BY <2>2, CutFacts
  <2> QED  BY <1>7, <2>1, <2>3 DEF CutAt
<1>9. PICK p3 : p3 = <<2, 0, s, 0, 0, 4, 0, 2>>
  OBVIOUS
<1>10. p3 \in Seq(Int) /\ Len(p3) = 8
  BY <1>9
<1>11. PICK p4 : p4 = Cut(f, 14, 18)
  OBVIOUS
<1>12. p4 \in Seq(Int) /\ Len(p4) = 4
  <2>1a. PICK i \in Nat, m \in Nat : i = 14 /\ m = 4
    OBVIOUS
  <2>1. PICK j : i = 14 /\ m = 4 /\ j = 18
    BY <2>1a
  <2>2. j = i + m /\ j <= Len(f)
    BY <2>1
  <2>3. CutAt(Cut(f, i, j), f, i, m)
    BY <2>2, CutFacts
  <2> QED  BY <1>11, <2>1, <2>3 DEF CutAt
<1>13. PICK p5 : p5 = <<0, c, 22>>
  OBVIOUS
<1>14. p5 \in Seq(Int) /\ Len(p5) = 3
  BY <1>13
<1>15. w = p1 \o p2 \o p3 \o p4 \o p5
  BY <1>1, <1>2, <1>3, <1>4, <1>5, <1>7, <1>9, <1>11, <1>13 DEF Ptl1376_1BuildReplyPacket
<1>16. Five(w, p1, p2, p3, p4, p5)
  BY <1>6, <1>8, <1>10, <1>12, <1>14, <1>15, CatFive
<1>17. /\ w \in Seq(Int) /\ Len(w) = 26 /\ Holds(w, 0, p1) /\ Holds(w, 7, p2)
       /\ Holds(w, 11, p3) /\ Holds(w, 23, p5)
  BY <1>6, <1>8, <1>10, <1>12, <1>14, <1>16 DEF Five
<1>18. HeadAt(w, M)
  BY <1>5, <1>17, HasHead
<1>19. Cut(w, 7, 11) = Cut(f, 7, 11)
  <2>1a. PICK i \in Nat, m \in Nat : i = 7 /\ m = 4
    OBVIOUS
  <2>1. PICK j : i = 7 /\ m = 4 /\ j = 11
    BY <2>1a
  <2>2. PartAt(w, i, j, p2)
    BY <1>8, <1>17, <2>1 DEF PartAt
  <2>3. Cut(w, i, j) = p2
    BY <2>2, CutIs
  <2> QED  BY <1>7, <2>1, <2>3
<1>20. w[13] = 0
  <2>1. \A i \in 1..8 : w[11 + i] = p3[i]
    BY <1>10, <1>17 DEF Holds
  <2>2. 2 \in 1..8 /\ 11 + 2 = 13
    OBVIOUS
  <2>3. w[13] = p3[2]
    BY <2>1, <2>2, Zenon
  <2> QED  BY <1>9, <2>3
<1>21. w[25] = c /\ w[26] = 22
  <2>1. \A i \in 1..3 : w[23 + i] = p5[i]
    BY <1>14, <1>17 DEF Holds
  <2>2. 2 \in 1..3 /\ 3 \in 1..3 /\ 23 + 2 = 25 /\ 23 + 3 = 26
    OBVIOUS
  <2>3. w[25] = p5[2] /\ w[26] = p5[3]
    <3>1. w[25] = p5[2]
      BY <2>1, <2>2, Zenon
    <3>2. w[26] = p5[3]
      BY <2>1, <2>2, Zenon
    <3> QED  BY <3>1, <3>2
  <2> QED  BY <1>13, <2>3
<1>22. Whole("1376", w)
  <2>1. PICK L \in Nat : L = 18
    OBVIOUS
  <2>2. L = M \div (IF "1376" = "1376" THEN 4 ELSE 1)
    BY <1>2, <2>1
  <2>3. L >= 8 /\ Len(w) = L + 8 /\ w[L + 7] = Cs(6, L + 6) /\ w[L + 8] = 22
    BY <1>4, <1>17, <1>21, <2>1
  <2> QED  BY <1>17, <1>18, <2>2, <2>3, WholeTwin
<1>23. GetDir("1376", w) = 0
  BY <1>18 DEF GetDir, Pick, Ptl1376_1GetDir, B, HeadAt
<1>24. GetFrameType("1376", w) = "other"
  <2>1. B(w, 12) = 0
    BY <1>20 DEF B
  <2> QED  BY <2>1 DEF GetFrameType, Pick, Ptl1376_1GetFrameType
<1> QED  BY <1>19, <1>22, <1>23, <1>24 DEF GoodAnswer, AddrGet, Pick, Ptl1376_1AddrGet

LEMMA GoodReplyNw ==
  ASSUME NEW f \in Seq(Int), 23 <= Len(f), NEW w, w = PtlNwBuildReplyPacket(f)
  PROVE  GoodAnswer("nw", f, w)
<1>1. PICK s \in Int : s = 96 + (B(f, 15) % 16)
  <2>1. 15 + 1 \in 1..Len(f) /\ f[15 + 1] \in Int
    BY ElementOfSeq
  <2> QED  BY <2>1 DEF B
<1>2. PICK c \in Int : c = Cs(6, 23)
  BY DEF Cs
<1>3. PICK p1 : p1 = <<104, 17, 0, 17, 0, 104, 11>>
  OBVIOUS
<1>4. p1 \in Seq(Int) /\ Len(p1) = 7
  BY <1>3
<1>5. PICK p2 : p2 = Cut(f, 7, 13)
  OBVIOUS
<1>6. p2 \in Seq(Int) /\ Len(p2) = 6
  <2>1a. PICK i \in Nat, m \in Nat : i = 7 /\ m = 6
    OBVIOUS
  <2>1. PICK j : i = 7 /\ m = 6 /\ j = 13
    BY <2>1a
  <2>2. j = i + m /\ j <= Len(f)
    BY <2>1
  <2>3. CutAt(Cut(f, i, j), f, i, m)
    BY <2>2, CutFacts
  <2> QED  BY <1>5, <2>1, <2>3 DEF CutAt
<1>7. PICK p3 : p3 = <<0, 0, s, 0, 0, 0, 0, 0, 224, 0, c, 22>>
  OBVIOUS
<1>8. p3 \in Seq(Int) /\ Len(p3) = 12
  BY <1>7
<1>9. w = p1 \o p2 \o p3
  BY <1>1, <1>2, <1>3, <1>5, <1>7 DEF PtlNwBuildReplyPacket
<1>10. Three(w, p1, p2, p3)
  BY <1>4, <1>6, <1>8, <1>9, CatThree
<1>11. /\ w \in Seq(Int) /\ Len(w) = 25 /\ Holds(w, 0, p1) /\ Holds(w, 7, p2)
       /\ Holds(w, 13, p3)
  BY <1>4, <1>6, <1>8, <1>10 DEF Three
<1>12. HeadAt(w, 17)
  BY <1>3, <1>11, HasHead
<1>13. Cut(w, 7, 13) = Cut(f, 7, 13)
  <2>1a. PICK i \in Nat, m \in Nat : i = 7 /\ m = 6
    OBVIOUS
  <2>1. PICK j : i = 7 /\ m = 6 /\ j = 13
    BY <2>1a
  <2>2. PartAt(w, i, j, p2)
    BY <1>6, <1>11, <2>1 DEF PartAt
  <2>3. Cut(w, i, j) = p2
    BY <2>2, CutIs
  <2> QED  BY <1>5, <2>1, <2>3
<1>14. w[15] = 0 /\ w[24] = c /\ w[25] = 22
  <2>1. \A i \in 1..12 : w[13 + i] = p3[i]
    BY <1>8, <1>11 DEF Holds
  <2>2. /\ 2 \in 1..12 /\ 11 \in 1..12 /\ 12 \in 1..12
        /\ 13 + 2 = 15 /\ 13 + 11 = 24 /\ 13 + 12 = 25
    OBVIOUS
  <2>3. w[15] = p3[2] /\ w[24] = p3[11] /\ w[25] = p3[12]
    <3>1. w[15] = p3[2]
      BY <2>1, <2>2, Zenon
    <3>2. w[24] = p3[11]
      BY <2>1, <2>2, Zenon
    <3>3. w[25] = p3[12]
      BY <2>1, <2>2, Zenon
    <3> QED  BY <3>1, <3>2, <3>3
  <2> QED  BY <1>7, <2>3
<1>15. Whole("nw", w)
  <2>1. PICK L \in Nat : L = 17
    OBVIOUS
  <2>2. L = L \div (IF "nw" = "1376" THEN 4 ELSE 1)
    BY <2>1
  <2>3. L >= 8 /\ Len(w) = L + 8 /\ w[L + 7] = Cs(6, L + 6) /\ w[L + 8] = 22 /\ HeadAt(w, L)
    BY <1>2, <1>11, <1>12, <1>14, <2>1
  <2> QED  BY <1>11, <2>2, <2>3, WholeTwin
<1>16. GetDir("nw", w) = 0
  BY <1>12 DEF GetDir, Pick, PtlNwGetDir, B, HeadAt
<1>17. GetFrameType("nw", w) = "other"
  <2>1. B(w, 14) = 0
    BY <1>14 DEF B
  <2> QED  BY <2>1 DEF GetFrameType, Pick, PtlNwGetFrameType
<1> QED  BY <1>13, <1>15, <1>16, <1>17 DEF GoodAnswer, AddrGet, Pick, PtlNwAddrGet

(* Every frame that is heard is made of bytes.                             *)
LEMMA AfIsBytes == \A af \in Af : af \in Nat
<1>1. AddrSize \subseteq 0..15 /\ AddrFlag \subseteq 0..15
  BY LayoutAssumption
<1> SUFFICES ASSUME NEW z \in AddrSize, NEW g \in AddrFlag PROVE z + 16 * g \in Nat
  BY DEF Af
<1> QED  BY <1>1

LEMMA PlainIsBytes ==
  ASSUME NEW af \in Af, NEW a \in AddrBytes, NEW ca \in MasterAddr, NEW ctrl \in Nat,
         NEW d \in Seq(Int)
  PROVE  Plain698(af, a, ca, ctrl, d) \in Seq(Int)
<1>1. PICK n \in 0..15 : n = af % 16
  BY AfIsBytes, ByteIsSmall
<1>2. af \in Nat /\ a \in [1..16 -> 0..255] /\ ca \in 0..255
  BY AfIsBytes, LayoutAssumption, SMTT(20)
<1>3. PICK f : f = Plain698(af, a, ca, ctrl, d)
  OBVIOUS
<1>4. PlainAt(f, ctrl, af, n, d)
  BY <1>1, <1>2, <1>3, PlainFacts
<1> QED  BY <1>3, <1>4 DEF PlainAt

(* What a link frame and a report carry. *)
Dated(tp) == <<1, 0, tp, 1, 44>> \o Marks(10, 30)
Reports == {<<136, 2, 31, 1, 96, 18, 3, 0, 9, 9, 0, 0>>, <<133, 1, 5, 64, 1, 2, 0, 0>>}

LEMMA Frames698 == Uplinks698 \subseteq Seq(Int)
<1>1. ASSUME NEW af \in Af, NEW a \in AddrBytes, NEW ca \in MasterAddr, NEW tp \in 0..2
      PROVE  Plain698(af, a, ca, 129, Dated(tp)) \in Seq(Int)
  <2>1. PICK d1, d2 : d1 = <<1, 0, tp, 1, 44>> /\ d2 = Marks(10, 30)
    OBVIOUS
  <2>2. d1 \in Seq(Int)
    BY <2>1
  <2>3. d2 \in Seq(Int)
    BY <2>1 DEF Marks
  <2>4. d1 \o d2 \in Seq(Int)
    BY <2>2, <2>3, ConcatInts
  <2>5. 129 \in Nat
    OBVIOUS
  <2>6. Dated(tp) \in Seq(Int)
    BY <2>1, <2>4 DEF Dated
  <2> QED  BY <2>5, <2>6, PlainIsBytes, Zenon
<1>2. ASSUME NEW af \in Af, NEW a \in AddrBytes, NEW ca \in MasterAddr,
             NEW d \in Reports
      PROVE  Plain698(af, a, ca, 131, d) \in Seq(Int)
  <2>1. /\ <<136, 2, 31, 1, 96, 18, 3, 0, 9, 9, 0, 0>> \in Seq(Int)
        /\ <<133, 1, 5, 64, 1, 2, 0, 0>> \in Seq(Int)
    OBVIOUS
  <2>2. d \in Seq(Int)
    BY <2>1, Zenon DEF Reports
  <2>3. 131 \in Nat
    OBVIOUS
  <2> QED  BY <2>2, <2>3, PlainIsBytes, Zenon
<1>3. ASSUME NEW f \in Uplinks698 PROVE f \in Seq(Int)
  <2>1. \/ \E af \in Af, a \in AddrBytes, ca \in MasterAddr, tp \in 0..2 :
             f = Plain698(af, a, ca, 129, Dated(tp))
        \/ \E af \in Af, a \in AddrBytes, ca \in MasterAddr :
             \E d \in Reports :
               f = Plain698(af, a, ca, 131, d)
    BY <1>3 DEF Uplinks698, Dated, Reports
  <2>2. CASE \E af \in Af, a \in AddrBytes, ca \in MasterAddr, tp \in 0..2 :
               f = Plain698(af, a, ca, 129, Dated(tp))
    BY <1>1, <2>2, Zenon
  <2>3. CASE \E af \in Af, a \in AddrBytes, ca \in MasterAddr :
               \E d \in Reports :
                 f = Plain698(af, a, ca, 131, d)
    <3>1. PICK af \in Af, a \in AddrBytes, ca \in MasterAddr,
               d \in Reports :
            f = Plain698(af, a, ca, 131, d)
      BY <2>3, Zenon
    <3>2. Plain698(af, a, ca, 131, d) \in Seq(Int)
      BY <1>2, Zenon
    <3> QED  BY <3>1, <3>2, Zenon
  <2> QED  BY <2>1, <2>2, <2>3
<1> QED  BY <1>3

LEMMA UplinksAreBytes == \A p \in {"698", "1376", "nw"} : Uplinks(p) \subseteq Seq(Int)
<1>1. Uplinks698 \subseteq Seq(Int)
  BY Frames698
<1>2. ASSUME NEW a \in AddrBytes PROVE Cut(a, 0, 4) \in Seq(Int) /\ Cut(a, 0, 6) \in Seq(Int)
  <2>1. a \in Seq(Int) /\ Len(a) = 16
    BY LayoutAssumption, AddressIsSeq
  <2>2. ASSUME NEW m \in {4, 6} PROVE Cut(a, 0, m) \in Seq(Int)
    <3>1a. PICK i \in Nat, k \in Nat : i = 0 /\ k = m
      OBVIOUS
    <3>1. PICK j : i = 0 /\ k = m /\ j = m
      BY <3>1a
    <3>2. j = i + k /\ j <= Len(a)
      BY <2>1, <3>1
    <3>3. CutAt(Cut(a, i, j), a, i, k)
      BY <2>1, <3>2, CutFacts
    <3> QED  BY <3>1, <3>3 DEF CutAt
  <2> QED  BY <2>2
<1>3. Uplinks1376 \subseteq Seq(Int)
  <2> SUFFICES ASSUME NEW f \in Uplinks1376 PROVE f \in Seq(Int)
    OBVIOUS
  <2>1. PICK l \in {49, 50}, a \in AddrBytes,
             dt \in {<<0, 0, 1, 0>>, <<0, 0, 2, 0>>, <<0, 0, 4, 0>>, <<0, 0, 8, 0>>} :
          f = Link1376(l, a, dt)
    BY DEF Uplinks1376
  <2>2. /\ <<104, l, 0, l, 0, 104, 201>> \in Seq(Int) /\ <<0, 2, 116>> \in Seq(Int)
        /\ Cut(a, 0, 4) \in Seq(Int)
    BY <1>2
  <2>3. dt \in Seq(Int)
    <3>1. /\ <<0, 0, 1, 0>> \in Seq(Int) /\ <<0, 0, 2, 0>> \in Seq(Int)
          /\ <<0, 0, 4, 0>> \in Seq(Int) /\ <<0, 0, 8, 0>> \in Seq(Int)
      OBVIOUS
    <3> QED  BY <3>1, Zenon
  <2>4. <<Cs(6, 18), 22>> \in Seq(Int)
    BY DEF Cs
  <2>5. PICK h, q, g, e :
          /\ h = <<104, l, 0, l, 0, 104, 201>> /\ q = Cut(a, 0, 4)
          /\ g = <<0, 2, 116>> /\ e = <<Cs(6, 18), 22>>
    OBVIOUS
  <2>6. h \in Seq(Int) /\ q \in Seq(Int) /\ g \in Seq(Int) /\ e \in Seq(Int)
    BY <2>2, <2>4, <2>5, Zenon
  <2>7. h \o q \o g \o dt \o e \in Seq(Int)
    BY <2>3, <2>6, ConcatInts, Zenon
  <2>8. f = h \o q \o g \o dt \o e
    BY <2>1, <2>5 DEF Link1376
  <2> QED  BY <2>7, <2>8
<1>4. UplinksNw \subseteq Seq(Int)
  <2>1. ASSUME NEW a \in AddrBytes, NEW tp \in 0..3
        PROVE  LinkNw(a, tp) \in Seq(Int)
    <3>1. /\ <<104, 18, 0, 18, 0, 104, 201>> \in Seq(Int) /\ <<0, 2, 113, 0, 0>> \in Seq(Int)
          /\ <<tp, 16, 0, 224>> \in Seq(Int)
      OBVIOUS
    <3>2. <<0, 1, Cs(6, 24), 22>> \in Seq(Int)
      BY DEF Cs
    <3> QED  BY <1>2, <3>1, <3>2, ConcatInts DEF LinkNw
  <2> QED  BY <2>1 DEF UplinksNw
<1> QED  BY <1>1, <1>3, <1>4 DEF Uplinks, Pick

LEMMA ShortsAreBytes == \A p \in {"698", "1376", "nw"} : Short(p) \subseteq Seq(Int)
<1>1. ASSUME NEW l \in Nat, NEW ctrl \in Int, NEW af \in Int, NEW k \in Int
      PROVE  Stub(l, ctrl, af, k) \in Seq(Int)
  <2>1. PICK m \in Int : m = af % 16
    OBVIOUS
  <2>2. Stub(l, ctrl, af, k) \in [1..l -> Int]
    BY <2>1 DEF Stub
  <2>3. [1..l -> Int] \subseteq Seq(Int)
    OBVIOUS
  <2> QED  BY <2>2, <2>3, Zenon
<1>2. /\ \A af \in Af \cup {0} : af \in Int
      /\ \A ctrl \in {1, 129, 131} : ctrl \in Int
      /\ \A k \in {0, 136} : k \in Int
      /\ \A l \in ShortLen : l \in Nat
  BY AfIsBytes, LayoutAssumption
<1>3. ASSUME NEW p \in {"698", "1376", "nw"}, NEW f \in Short(p) PROVE f \in Seq(Int)
  <2>1. PICK l \in ShortLen, ctrl \in {1, 129, 131}, af \in Af \cup {0}, k \in {0, 136} :
          f = Stub(l, ctrl, af, k)
    BY <1>3 DEF Short
  <2>2. l \in Nat /\ ctrl \in Int /\ af \in Int /\ k \in Int
    BY <1>2
  <2>3. Stub(l, ctrl, af, k) \in Seq(Int)
    <3>1. PICK x, y, z, t : x = l /\ y = ctrl /\ z = af /\ t = k
      OBVIOUS
    <3>2. x \in Nat /\ y \in Int /\ z \in Int /\ t \in Int
      BY <2>2, <3>1
    <3>3. Stub(x, y, z, t) \in Seq(Int)
      BY <1>1, <3>2, Zenon
    <3> QED  BY <3>1, <3>3
  <2> QED  BY <2>1, <2>3, Zenon
<1> QED  BY <1>3

(* What the check lets through is long enough for what is read: the byte   *)
(* that holds the size of a 698 address is there, and the size is small.   *)
LEMMA LongEnough ==
  ASSUME LayTypeOK, HandlerParseLenOK(proto, heard),
         NEW i, \/ i \in PlacesRead(proto, heard)
                \/ Calls(proto, heard) /\ i \in Copies(proto, heard)
  PROVE  i < Len(heard) \/ (proto = "698" /\ i > 10 + Size(heard))
<1>1. Len(heard) \in Nat
  BY DEF LayTypeOK
<1>2. CASE proto = "698"
  <2>1. Len(heard) >= 22
    BY <1>2 DEF HandlerParseLenOK
  <2>2. heard[5] \in Int
    BY <1>1, <2>1 DEF LayTypeOK
  <2>3. PICK n \in 0..15 : n = Size(heard)
    BY <2>2, ByteIsSmall DEF Size, B
  <2>4. PlacesRead(proto, heard) = {3, 5 + n, 6 + n}
    BY <1>2, <2>3 DEF PlacesRead, Pick
  <2>5. PICK l \in Nat : l = Len(heard)
    BY <1>1
  <2>6. CASE i \in PlacesRead(proto, heard)
    <3>1. i \in {3, 5 + n, 6 + n}
      BY <2>4, <2>6
    <3>2. i < l
      BY <2>1, <2>5, <3>1
    <3> QED  BY <2>5, <3>2
  <2>7. CASE IsLink(proto, heard) /\ i \in Copies(proto, heard)
    <3>1. i \in (4..(6 + n)) \cup ((14 + n)..(23 + n))
      BY <1>2, <2>3, <2>7 DEF Copies, Pick
    <3>2. i < l \/ i > 10 + n
      BY <2>1, <2>5, <3>1
    <3> QED  BY <1>2, <2>3, <2>5, <3>2
  <2>8. CASE ~IsLink(proto, heard) /\ Calls(proto, heard) /\ i \in Copies(proto, heard)
    <3>1. i \in (4..(6 + n)) \cup ({10 + n, 11 + n} \cup ((13 + n)..(16 + n)))
      BY <1>2, <2>3, <2>8 DEF Copies, Pick
    <3>2. 10 + n < l
      BY <2>3, <2>5, <2>8 DEF Calls, IsReport
    <3>3. i < l \/ i > 10 + n
      BY <2>1, <2>5, <3>1, <3>2
    <3> QED  BY <1>2, <2>3, <2>5, <3>3
  <2> QED  BY <2>6, <2>7, <2>8
<1>3. CASE proto = "1376"
  <2>1. Len(heard) >= 20 /\ PlacesRead(proto, heard) = {6, 10, 11}
    BY <1>3 DEF HandlerParseLenOK, PlacesRead, Pick
  <2>2. Copies(proto, heard) = {1, 13} \cup (7..10) \cup (14..17)
    BY <1>3 DEF Copies, Pick
  <2> QED  BY <1>1, <2>1, <2>2
<1>4. CASE proto = "nw"
  <2>1. Len(heard) >= 23 /\ PlacesRead(proto, heard) = {6, 12, 13}
    BY <1>4 DEF HandlerParseLenOK, PlacesRead, Pick
  <2>2. Copies(proto, heard) = {15} \cup (7..12)
    BY <1>4 DEF Copies, Pick
  <2> QED  BY <1>1, <2>1, <2>2
<1> QED  BY <1>2, <1>3, <1>4 DEF LayTypeOK

LEMMA HeardIsBytes == LayInit => LayTypeOK
<1> SUFFICES ASSUME LayInit PROVE LayTypeOK
  OBVIOUS
<1>1. proto \in {"698", "1376", "nw"} /\ heard \in Uplinks(proto) \cup Short(proto)
  BY DEF LayInit
<1>2. heard \in Seq(Int)
  BY <1>1, UplinksAreBytes, ShortsAreBytes
<1> QED  BY <1>1, <1>2 DEF LayTypeOK

(* Whatever is heard, and whatever size of address its first byte claims,  *)
(* no byte is read beyond the end of the frame, but for those that a 698   *)
(* answer copies from behind the first two bytes of its content            *)
(* (safe_parse.go, BuildReplyPacket, BuildReportAckPacket).                *)
THEOREM ReadsAreInside == LaySpec => []ReadsInside
<1>1. LayInit => LayInv
  BY HeardIsBytes DEF LayInit, LayInv, ReadsOnly
<1>2. LayInv /\ [LayNext]_layVars => LayInv'
  <2> SUFFICES ASSUME LayInv, [LayNext]_layVars PROVE LayInv'
    OBVIOUS
  <2>1. UNCHANGED <<proto, heard>>
    BY DEF LayNext, layVars, LayHandle, BridgeSends
  <2>2. LayTypeOK'
    BY <2>1 DEF LayInv, LayTypeOK
  <2>3. CASE LayHandle
    <3>1. HandlerParseLenOK(proto, heard)
      BY <2>3 DEF LayHandle
    <3>2. \A i \in reads' : \/ i \in PlacesRead(proto, heard)
                            \/ Calls(proto, heard) /\ i \in Copies(proto, heard)
      BY <2>3 DEF LayHandle
    <3>3. ReadsOnly'
      BY <2>1, <3>1, <3>2 DEF ReadsOnly
    <3> QED  BY <2>2, <3>3 DEF LayInv
  <2>4. CASE reads' = reads
    BY <2>1, <2>2, <2>4 DEF LayInv, ReadsOnly
  <2> QED  BY <2>3, <2>4 DEF LayNext, layVars, BridgeSends
<1>3. LayInv => ReadsInside
  <2> SUFFICES ASSUME LayInv, NEW i \in reads
               PROVE  i < Len(heard) \/ (proto = "698" /\ i > 10 + Size(heard))
    BY DEF ReadsInside
  <2>1. /\ HandlerParseLenOK(proto, heard)
        /\ \/ i \in PlacesRead(proto, heard)
           \/ Calls(proto, heard) /\ i \in Copies(proto, heard)
    BY DEF LayInv, ReadsOnly
  <2> QED  BY <2>1, LongEnough DEF LayInv
<1> QED  BY <1>1, <1>2, <1>3, PTL DEF LaySpec

(* Every answer there is.                                                  *)
AnswerGood(p, f, w) ==
  /\ GoodAnswer(p, f, w)
  /\ p = "698" => /\ MsaGet(p, w) = MsaGet(p, f)
                  /\ ~IsReport(w)
                  /\ packetType(w) = 1 <=> GetFrameType(p, f) # "other"

LEMMA SizeIsSmall ==
  ASSUME NEW f \in Seq(Int), 22 <= Len(f)
  PROVE  B(f, 4) \in Int /\ Size(f) \in 0..15
<1>1. 5 \in 1..Len(f) /\ 4 + 1 = 5
  OBVIOUS
<1>2. f[5] \in Int
  BY <1>1, ElementOfSeq
<1>3. B(f, 4) \in Int
  BY <1>1, <1>2, Zenon DEF B
<1> QED  BY <1>3, ByteIsSmall DEF Size

LEMMA AnswersAreGood ==
  ASSUME NEW p \in {"698", "1376", "nw"}, NEW f \in Seq(Int),
         HandlerParseLenOK(p, f), AnswerTo(p, f) # <<>>
  PROVE  AnswerGood(p, f, AnswerTo(p, f))
<1>1. Calls(p, f) /\ \A i \in Copies(p, f) : ~(i >= Len(f))
  BY DEF AnswerTo
<1>2. AnswerTo(p, f) = IF IsLink(p, f) THEN BuildReplyPacket(p, f) ELSE BuildReportAckPacket(f)
  BY <1>1 DEF AnswerTo
<1>3. CASE p = "698"
  <2>1. 22 <= Len(f)
    BY <1>3 DEF HandlerParseLenOK
  <2>2. PICK n \in 0..15 : n = Size(f)
    BY <2>1, SizeIsSmall
  <2>3. CASE IsLink(p, f)
    <3>1. 23 + n \in Copies(p, f)
      BY <1>3, <2>2, <2>3 DEF Copies, Pick
    <3>2. 24 + n <= Len(f)
      BY <1>1, <3>1
    <3>3. PICK w : w = Ptl698_45BuildReplyPacket(f)
      OBVIOUS
    <3>4. /\ GoodAnswer("698", f, w) /\ MsaGet("698", w) = MsaGet("698", f)
          /\ ~IsReport(w) /\ packetType(w) = 1
      BY <2>2, <3>2, <3>3, GoodReply698
    <3>5. AnswerTo(p, f) = w
      BY <1>2, <1>3, <2>3, <3>3 DEF BuildReplyPacket
    <3>6. GetFrameType(p, f) # "other"
      BY <2>3 DEF IsLink
    <3> QED  BY <1>3, <3>4, <3>5, <3>6 DEF AnswerGood
  <2>4. CASE ~IsLink(p, f)
    <3>1. 16 + n \in Copies(p, f)
      BY <1>3, <2>2, <2>4 DEF Copies, Pick
    <3>2. 17 + n <= Len(f)
      BY <1>1, <3>1
    <3>3. PICK w : w = BuildReportAckPacket(f)
      OBVIOUS
    <3>4. /\ GoodAnswer("698", f, w) /\ MsaGet("698", w) = MsaGet("698", f)
          /\ ~IsReport(w) /\ packetType(w) = 0
      BY <2>2, <3>2, <3>3, GoodAck698
    <3>5. AnswerTo(p, f) = w
      BY <1>2, <2>4, <3>3
    <3>6. GetFrameType(p, f) = "other"
      <4>1. GetFrameType(p, f) \in {"login", "heartbeat", "exit", "other"}
        BY <1>3 DEF GetFrameType, Pick, Ptl698_45GetFrameType
      <4>2. GetDir(p, f) = 1
        BY <1>1, <2>4 DEF Calls
      <4> QED  BY <2>4, <4>1, <4>2 DEF IsLink
    <3> QED  BY <1>3, <3>4, <3>5, <3>6 DEF AnswerGood
  <2> QED  BY <2>3, <2>4
<1>4. CASE p = "1376"
  <2>1. 20 <= Len(f)
    BY <1>4 DEF HandlerParseLenOK
  <2>2. AnswerTo(p, f) = Ptl1376_1BuildReplyPacket(f)
    BY <1>1, <1>2, <1>4 DEF Calls, BuildReplyPacket
  <2> QED  BY <1>4, <2>1, <2>2, GoodReply1376 DEF AnswerGood
<1>5. CASE p = "nw"
  <2>1. 23 <= Len(f)
    BY <1>5 DEF HandlerParseLenOK
  <2>2. AnswerTo(p, f) = PtlNwBuildReplyPacket(f)
    BY <1>1, <1>2, <1>5 DEF Calls, BuildReplyPacket
  <2> QED  BY <1>5, <2>1, <2>2, GoodReplyNw DEF AnswerGood
<1> QED  BY <1>3, <1>4, <1>5

LEMMA TailOf ==
  ASSUME NEW m \in Int, NEW q \in Seq(Int)
  PROVE  Tail(<<m>> \o q) = q
<1>1. PICK k \in Nat : k = Len(q)
  OBVIOUS
<1>2. PICK h : h = <<m>>
  OBVIOUS
<1>3. h \in Seq(Int) /\ Len(h) = 1
  BY <1>2
<1>4. PICK w : w = h \o q
  OBVIOUS
<1>5. w \in Seq(Int) /\ Len(w) = 1 + k /\ \A i \in 1..k : w[1 + i] = q[i]
  <2>1. h \o q \in Seq(Int) /\ Len(h \o q) = Len(h) + Len(q) /\ Holds(h \o q, Len(h), q)
    BY <1>3, CatTwo
  <2>2. Holds(w, 1, q)
    BY <1>3, <1>4, <2>1
  <2> QED  BY <1>1, <1>3, <1>4, <2>1, <2>2 DEF Holds
<1>6. w # <<>>
  BY <1>5
<1>7. PICK t : t = Tail(w)
  OBVIOUS
<1>8. t \in Seq(Int) /\ Len(t) = k /\ \A i \in 1..k : t[i] = w[i + 1]
  BY <1>5, <1>6, <1>7, HeadTailProperties
<1>9. \A i \in 1..Len(t) : t[i] = q[i]
  BY <1>5, <1>8
<1>10. t = q
  BY <1>1, <1>8, <1>9, SeqEqual
<1> QED  BY <1>2, <1>4, <1>7, <1>10

(* The address in a 698 frame that has one: its size, then one more byte.  *)
LEMMA AddressShape ==
  ASSUME NEW f \in Seq(Int), 22 <= Len(f), HasAddr(f)
  PROVE  \E m \in 0..15, q \in Seq(Int) : AddrGet("698", f) = <<m>> \o q /\ Len(q) = m + 1
<1>1. PICK n \in 0..15 : n = Size(f)
  BY SizeIsSmall
<1>2. PICK j \in Nat : j = 6 + n /\ j <= Len(f)
  OBVIOUS
<1>3. Ptl698_45AddrGet(f) = IF B(f, 4) \div 16 = 2 THEN <<(n - 1) % 256>> \o Cut(f, 6, j)
                                                  ELSE <<n>> \o Cut(f, 5, j)
  BY <1>1, <1>2, Zenon DEF Ptl698_45AddrGet
<1>4. CASE B(f, 4) \div 16 = 2
  <2>1. PICK i \in Nat, k \in Nat : i = 6 /\ k = n
    OBVIOUS
  <2>2. PICK q : q = Cut(f, 6, j)
    OBVIOUS
  <2>3. q \in Seq(Int) /\ Len(q) = n
    <3>1. j = i + k
      BY <1>2, <2>1
    <3>2. CutAt(Cut(f, i, j), f, i, k)
      BY <1>2, <3>1, CutFacts
    <3> QED  BY <2>1, <2>2, <3>2 DEF CutAt
  <2>4. PICK x \in Int : x = (n - 1) % 256
    OBVIOUS
  <2>5. Ptl698_45AddrGet(f) = <<x>> \o q
    BY <1>3, <1>4, <2>2, <2>4
  <2>6. Tail(<<x>> \o q) = q
    BY <2>3, TailOf
  <2>7. q # <<>>
    BY <2>5, <2>6 DEF HasAddr
  <2>8. n # 0
    BY <2>3, <2>7, EmptySeq
  <2>9. PICK m \in 0..15 : m = n - 1
    BY <2>8
  <2>10. x = m /\ Len(q) = m + 1
    <3>1. m % 256 = m
      BY SmallIsByte
    <3>2. x = m
      BY <2>4, <2>9, <3>1
    <3>3. Len(q) = m + 1
      BY <2>3, <2>9
    <3> QED  BY <3>2, <3>3
  <2> QED  BY <2>3, <2>5, <2>10 DEF AddrGet, Pick
<1>5. CASE B(f, 4) \div 16 # 2
  <2>1. PICK i \in Nat, k \in Nat : i = 5 /\ k = n + 1
    OBVIOUS
  <2>2. PICK q : q = Cut(f, 5, j)
    OBVIOUS
  <2>3. q \in Seq(Int) /\ Len(q) = n + 1
    <3>1. j = i + k
      BY <1>2, <2>1
    <3>2. CutAt(Cut(f, i, j), f, i, k)
      BY <1>2, <3>1, CutFacts
    <3> QED  BY <2>1, <2>2, <3>2 DEF CutAt
  <2> QED  BY <1>3, <1>5, <2>2, <2>3 DEF AddrGet, Pick
<1> QED  BY <1>4, <1>5

(* What a bridge sends for an address of n + 1 bytes.                      *)
PacketAt(w, tp, tsa, n) ==
  /\ w \in Seq(Int) /\ Len(w) = 27 + n
  /\ w[1] = 104 /\ w[2] = 25 + n /\ w[3] = 0 /\ w[4] = 129 /\ w[5] = n
  /\ Holds(w, 5, tsa)
  /\ w[8 + n] = Cs(1, 7 + n) /\ w[9 + n] = Cs(1, 7 + n) /\ w[12 + n] = tp
  /\ w[25 + n] = Cs(1, 24 + n) /\ w[26 + n] = Cs(1, 24 + n) /\ w[27 + n] = 22

LEMMA PacketParts ==
  ASSUME NEW n \in 0..15, NEW tsa \in Seq(Int), Len(tsa) = n + 1, NEW tp \in 0..2,
         NEW w, w = BuildPacket(tp, tsa)
  PROVE  PacketAt(w, tp, tsa, n)
<1>0. (Len(tsa) - 1) % 16 = n /\ 24 + Len(tsa) = 25 + n /\ 23 + Len(tsa) = 24 + n /\ Len(tsa) - 1 = n
  OBVIOUS
<1>1. PICK h \in Int, c \in Int : h = Cs(1, 7 + n) /\ c = Cs(1, 24 + n)
  BY DEF Cs
<1>2. PICK p1 : p1 = <<104, 25 + n, 0, 129, n>>
  OBVIOUS
<1>3. p1 \in Seq(Int) /\ Len(p1) = 5
  BY <1>2
<1>4. PICK p3 : p3 = <<0, h, h, 1, 0, tp, 1, 44>>
  OBVIOUS
<1>5. p3 \in Seq(Int) /\ Len(p3) = 8
  BY <1>4
<1>6. Now \in Seq(Int) /\ Len(Now) = 10
  BY DEF Now, Marks
<1>7. PICK p5 : p5 = <<c, c, 22>>
  OBVIOUS
<1>8. p5 \in Seq(Int) /\ Len(p5) = 3
  BY <1>7
<1>9. w = p1 \o tsa \o p3 \o Now \o p5
  <2>0. tsa # <<>>
    OBVIOUS
  <2>1. w = <<104, 25 + n, 0, 129, n>> \o tsa
            \o <<0, Cs(1, 7 + n), Cs(1, 7 + n), 1, 0, tp, 1, 44>>
            \o Now \o <<Cs(1, 24 + n), Cs(1, 24 + n), 22>>
    BY <1>0, <2>0, Zenon DEF BuildPacket
  <2> QED  BY <1>1, <1>2, <1>4, <1>7, <2>1, Zenon
<1>10. Five(w, p1, tsa, p3, Now, p5)
  BY <1>3, <1>5, <1>6, <1>8, <1>9, CatFive
<1>11. /\ w \in Seq(Int) /\ Len(w) = 27 + n /\ Holds(w, 0, p1) /\ Holds(w, 5, tsa)
       /\ Holds(w, 6 + n, p3) /\ Holds(w, 24 + n, p5)
  BY <1>3, <1>5, <1>6, <1>8, <1>10 DEF Five
<1>12. w[1] = 104 /\ w[2] = 25 + n /\ w[3] = 0 /\ w[4] = 129 /\ w[5] = n
  <2>1. \A i \in 1..5 : w[0 + i] = p1[i]
    BY <1>3, <1>11 DEF Holds
  <2>2. /\ 1 \in 1..5 /\ 2 \in 1..5 /\ 3 \in 1..5 /\ 4 \in 1..5 /\ 5 \in 1..5
        /\ 0 + 1 = 1 /\ 0 + 2 = 2 /\ 0 + 3 = 3 /\ 0 + 4 = 4 /\ 0 + 5 = 5
    OBVIOUS
  <2>3. w[1] = p1[1] /\ w[2] = p1[2] /\ w[3] = p1[3] /\ w[4] = p1[4] /\ w[5] = p1[5]
    BY <2>1, <2>2, Zenon
  <2> QED  BY <1>2, <2>3
<1>13. w[8 + n] = h /\ w[9 + n] = h /\ w[12 + n] = tp
  <2>1. PICK k \in Nat : k = 6 + n
    OBVIOUS
  <2>2. \A i \in 1..8 : w[k + i] = p3[i]
    BY <1>5, <1>11, <2>1 DEF Holds
  <2>3. 2 \in 1..8 /\ 3 \in 1..8 /\ 6 \in 1..8
    OBVIOUS
  <2>4. w[k + 2] = p3[2] /\ w[k + 3] = p3[3] /\ w[k + 6] = p3[6]
    BY <2>2, <2>3, Zenon
  <2>5. p3[2] = h /\ p3[3] = h /\ p3[6] = tp
    BY <1>4
  <2>6. k + 2 = 8 + n /\ k + 3 = 9 + n /\ k + 6 = 12 + n
    BY <2>1
  <2> QED  BY <2>4, <2>5, <2>6
<1>14. w[25 + n] = c /\ w[26 + n] = c /\ w[27 + n] = 22
  <2>1. PICK k \in Nat : k = 24 + n
    OBVIOUS
  <2>2. \A i \in 1..3 : w[k + i] = p5[i]
    BY <1>8, <1>11, <2>1 DEF Holds
  <2>3. 1 \in 1..3 /\ 2 \in 1..3 /\ 3 \in 1..3
    OBVIOUS
  <2>4. w[k + 1] = p5[1] /\ w[k + 2] = p5[2] /\ w[k + 3] = p5[3]
    BY <2>2, <2>3, Zenon
  <2>5. p5[1] = c /\ p5[2] = c /\ p5[3] = 22
    BY <1>7
  <2>6. k + 1 = 25 + n /\ k + 2 = 26 + n /\ k + 3 = 27 + n
    BY <2>1
  <2> QED  BY <2>4, <2>5, <2>6
<1> QED  BY <1>1, <1>11, <1>12, <1>13, <1>14 DEF PacketAt

PacketGood(f, w) ==
  /\ Whole("698", w) /\ GetDir("698", w) = 1 /\ GetFrameType("698", w) # "other"
  /\ AddrGet("698", w) = AddrGet("698", f)

LEMMA PacketsAreGood ==
  ASSUME NEW f \in Seq(Int), 22 <= Len(f), HasAddr(f), NEW tp \in 0..2,
         NEW w, w = BuildPacket(tp, Tail(AddrGet("698", f)))
  PROVE  PacketGood(f, w)
<1>1. PICK m \in 0..15, q \in Seq(Int) : AddrGet("698", f) = <<m>> \o q /\ Len(q) = m + 1
  BY AddressShape
<1>2. w = BuildPacket(tp, q)
  <2>1. m \in Int /\ q \in Seq(Int)
    BY <1>1
  <2>2. Tail(<<m>> \o q) = q
    BY <2>1, TailOf, Zenon
  <2> QED  BY <1>1, <2>2
<1>3. PacketAt(w, tp, q, m)
  BY <1>1, <1>2, PacketParts
<1>4. Size(w) = m /\ B(w, 4) = m /\ B(w, 3) = 129
  <2>1. w[4] = 129 /\ w[5] = m
    BY <1>3 DEF PacketAt
  <2>2. B(w, 3) = 129 /\ B(w, 4) = m
    BY <2>1 DEF B
  <2>3. m % 16 = m
    BY SmallIsByte
  <2> QED  BY <2>2, <2>3 DEF Size
<1>5. Whole("698", w)
  <2>1. PICK L \in Nat : L = 25 + m
    OBVIOUS
  <2>2. L + 1 = 26 + m /\ L + 2 = 27 + m /\ L - 1 = 24 + m /\ m + 9 <= L
    BY <2>1
  <2>3. Ends698(w, m, L)
    BY <1>3, <1>4, <2>1, <2>2, Zenon DEF Ends698, PacketAt
  <2> QED  BY <2>2, <2>3, WholeIf
<1>6. GetDir("698", w) = 1
  BY <1>4 DEF GetDir, Pick, Ptl698_45GetDir
<1>7. GetFrameType("698", w) # "other"
  <2>1. B(w, 11 + m) = tp
    <3>1. (11 + m) + 1 = 12 + m
      OBVIOUS
    <3> QED  BY <1>3, <3>1 DEF PacketAt, B
  <2>2. 11 + m < Len(w) /\ 129 % 8 = 1
    BY <1>3 DEF PacketAt
  <2>3. Ptl698_45GetFrameType(w) = <<"login", "heartbeat", "exit">>[tp + 1]
    <3>1. 129 % 8 = 1 /\ tp \in 0..2
      OBVIOUS
    <3>2. B(w, 3) % 8 = 1 /\ 11 + Size(w) < Len(w) /\ B(w, 11 + Size(w)) \in 0..2
      BY <1>4, <2>1, <2>2, <3>1, Zenon
    <3> QED  BY <1>4, <2>1, <3>2, Zenon DEF Ptl698_45GetFrameType
  <2>4. <<"login", "heartbeat", "exit">>[tp + 1] # "other"
    OBVIOUS
  <2> QED  BY <2>3, <2>4 DEF GetFrameType, Pick
<1>8. AddrGet("698", w) = <<m>> \o q
  <2>1a. PICK i \in Nat, k \in Nat : i = 5 /\ k = 1 + m
    OBVIOUS
  <2>1. PICK j : i = 5 /\ k = 1 + m /\ j = 6 + m
    BY <2>1a
  <2>2. PartAt(w, i, j, q)
    BY <1>1, <1>3, <2>1 DEF PacketAt, PartAt
  <2>3. Cut(w, i, j) = q
    BY <2>2, CutIs
  <2>4. B(w, 4) \div 16 # 2
    <3>1. m \in 0..15 /\ B(w, 4) = m
      BY <1>1, <1>4
    <3> QED  BY ONLY <3>1
  <2>5. Cut(w, 5, 6 + m) = q
    BY <2>1, <2>3, Zenon
  <2>6. Ptl698_45AddrGet(w) = <<m>> \o q
    BY <1>4, <2>4, <2>5, Zenon DEF Ptl698_45AddrGet
  <2> QED  BY <2>6 DEF AddrGet, Pick
<1> QED  BY <1>1, <1>5, <1>6, <1>7, <1>8 DEF PacketGood

(* The answer is the one that the code builds for what was heard, and a    *)
(* bridge's packet is built from the address of a login.                   *)
LayHeard ==
  /\ LayTypeOK
  /\ reads # {} => HandlerParseLenOK(proto, heard)
  /\ answer # <<>> => HandlerParseLenOK(proto, heard) /\ answer = AnswerTo(proto, heard)
  /\ packet # <<>> => /\ proto = "698" /\ reads # {}
                      /\ \E tp \in 0..2 : packet = BuildPacket(tp, Tail(AddrGet(proto, heard)))

LEMMA LayHeardHolds == LaySpec => []LayHeard
<1>1. LayInit => LayHeard
  BY HeardIsBytes DEF LayInit, LayHeard
<1>2. LayHeard /\ [LayNext]_layVars => LayHeard'
  <2> SUFFICES ASSUME LayHeard, [LayNext]_layVars PROVE LayHeard'
    OBVIOUS
  <2>0. UNCHANGED <<proto, heard>>
    BY DEF LayNext, layVars, LayHandle, BridgeSends
  <2>1. LayTypeOK'
    BY <2>0 DEF LayHeard, LayTypeOK
  <2>2. CASE LayHandle
    <3>1. HandlerParseLenOK(proto, heard) /\ answer' = AnswerTo(proto, heard)
      BY <2>2 DEF LayHandle
    <3>2. HandlerParseLenOK(proto, heard)' /\ answer' = AnswerTo(proto, heard)'
      BY <2>0, <3>1
    <3>3. packet' = packet /\ reads = {}
      BY <2>2 DEF LayHandle
    <3> QED  BY <2>1, <3>2, <3>3 DEF LayHeard
  <2>3. ASSUME NEW tp \in 0..2, BridgeSends(tp)
        PROVE  LayHeard'
    <3>1. /\ proto = "698" /\ reads # {} /\ UNCHANGED <<proto, heard, answer, reads>>
          /\ packet' = BuildPacket(tp, Tail(AddrGet(proto, heard)))
      BY <2>3 DEF BridgeSends
    <3> QED  BY <2>1, <3>1 DEF LayHeard
  <2>4. CASE UNCHANGED layVars
    BY <2>1, <2>4 DEF LayHeard, layVars
  <2> QED  BY <2>2, <2>3, <2>4 DEF LayNext
<1> QED  BY <1>1, <1>2, PTL DEF LaySpec

(* For every address, size of address and master, an answer that is built  *)
(* is a frame that validators accept, goes back to the same address and    *)
(* master, and calls for no answer (BuildReplyPacket,                      *)
(* BuildReportAckPacket).                                                  *)
THEOREM AnswersReturn == LaySpec => []AnswerToSender
<1>1. LayHeard => AnswerToSender
  <2> SUFFICES ASSUME LayHeard, answer # <<>> PROVE AnswerGood(proto, heard, answer)
    BY DEF AnswerToSender, AnswerGood, GoodAnswer
  <2> QED  BY AnswersAreGood DEF LayHeard, LayTypeOK
<1> QED  BY <1>1, LayHeardHolds, PTL

(* For every kind and size of address with a byte besides the extended     *)
(* logical address, what a bridge sends is a whole link frame that the     *)
(* front end above takes for one of the terminal that has logged in        *)
(* (AddrGet, BuildPacket); an address of flag 0x20, which has none, is     *)
(* left out, and its packet is broken.                                     *)
THEOREM BridgedAddress == LaySpec => []BridgeKeepsAddr
<1>1. LayHeard => BridgeKeepsAddr
  <2> SUFFICES ASSUME LayHeard, packet # <<>>, HasAddr(heard), proto = "698"
               PROVE  PacketGood(heard, packet)
    BY DEF BridgeKeepsAddr, PacketGood, LayHeard
  <2>1. heard \in Seq(Int) /\ 22 <= Len(heard)
    BY DEF LayHeard, LayTypeOK, HandlerParseLenOK
  <2>2. PICK tp \in 0..2 : packet = BuildPacket(tp, Tail(AddrGet("698", heard)))
    BY DEF LayHeard
  <2> QED  BY <2>1, <2>2, PacketsAreGood
<1> QED  BY <1>1, LayHeardHolds, PTL
=============================================================================
