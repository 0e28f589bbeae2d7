----------------------------- MODULE SizesProofs ------------------------------
(***************************************************************************)
(* Theorems about parse_size, for texts of every length: it accepts the    *)
(* sizes and no other text, and multiplies by the unit that was written;   *)
(* the bytes it returns fit in a u64, keep the order of what was written,  *)
(* and are as close to it as the arithmetic of an f64 allows.              *)
(***************************************************************************)
EXTENDS Sizes, BasicLemmas

-------------------------------------------------------------------------------
(* Trimming.                                                               *)

(* Upper case changes neither the length nor the kind of a token.          *)
LEMMA UpperCaseType ==
  ASSUME NEW t \in Seq(Tokens)
  PROVE  UpperCase(t) \in Seq(Tokens)
<1>1. DOMAIN t = 1 .. Len(t) /\ Len(t) \in Nat
    BY LenProperties
<1>2. \A i \in 1 .. Len(t) :
        (IF t[i] \in DOMAIN Upper THEN Upper[t[i]] ELSE t[i]) \in Tokens
    BY SizeTextAssumption, ElementOfSeq DEF Tokens
<1> QED BY <1>1, <1>2 DEF UpperCase

(* Trim keeps what lies between the first and the last token that is not a *)
(* space.                                                                  *)
LEMMA TrimMeaning ==
  ASSUME NEW t \in Seq(Tokens)
  PROVE  \/ Trim(t) = <<>> /\ \A i \in 1 .. Len(t) : t[i] = Space
         \/ \E a \in 1 .. Len(t), b \in 1 .. Len(t) :
              /\ a <= b /\ t[a] # Space /\ t[b] # Space
              /\ \A i \in 1 .. Len(t) : t[i] # Space => a <= i /\ i <= b
              /\ Trim(t) = SubSeq(t, a, b)
<1> DEFINE inked == {i \in DOMAIN t : t[i] # Space}
<1>1. DOMAIN t = 1 .. Len(t) /\ Len(t) \in Nat
    BY LenProperties
<1>2. CASE inked = {}
    BY <1>1, <1>2 DEF Trim
<1>3. CASE inked # {}
  <2>1. inked \in SUBSET (0 .. Len(t)) /\ inked \in SUBSET Nat
      BY <1>1
  <2>2. Min(inked) \in inked /\ \A y \in inked : Min(inked) <= y
      BY <2>1, <1>3, LeastNumber
  <2>3. Max(inked) \in inked /\ \A y \in inked : Max(inked) >= y
      BY <2>1, <1>3, <1>1, GreatestNumber
  <2>4. Trim(t) = SubSeq(t, Min(inked), Max(inked))
      BY <1>3 DEF Trim
  <2>5. /\ Min(inked) \in 1 .. Len(t) /\ Max(inked) \in 1 .. Len(t)
        /\ Min(inked) <= Max(inked)
        /\ t[Min(inked)] # Space /\ t[Max(inked)] # Space
      BY <1>1, <2>2, <2>3
  <2>6. \A i \in 1 .. Len(t) : t[i] # Space => Min(inked) <= i /\ i <= Max(inked)
      BY <1>1, <2>2, <2>3
  <2> HIDE DEF inked
  <2> QED BY <2>4, <2>5, <2>6
<1> QED BY <1>2, <1>3

-------------------------------------------------------------------------------
(* Texts and their ends.                                                   *)

(* t ends in u or in u and B.                                              *)
Ends(t, u) ==
  \/ Len(t) >= 1 /\ t[Len(t)] = u
  \/ Len(t) >= 2 /\ t[Len(t) - 1] = u /\ t[Len(t)] = Byte

(* The first m tokens of t end in u and B.                                 *)
LongEnd(t, u, m) == m >= 2 /\ t[m - 1] = u /\ t[m] = Byte

(* Behind the first m tokens u and B alternate.                            *)
Pairs(t, u, m) ==
  /\ (Len(t) - m) % 2 = 0
  /\ \A i \in m + 1 .. Len(t) : t[i] = IF (i - m) % 2 = 1 THEN u ELSE Byte

(* From the k-th token to the m-th there is only c.                        *)
Same(t, c, k, m) == \A i \in k + 1 .. m : t[i] = c

(* The first k tokens are a numeral and spaces.                            *)
Accepts(t, k) == k >= 1 /\ t[1] \in Numerals /\ \A i \in 2 .. k : t[i] = Space

(* Letters are neither numerals nor spaces, and B is no prefix.            *)
LEMMA Letters ==
  /\ \A u \in Prefixes : u # Byte
  /\ \A u \in Prefixes \union {Byte} : u \notin Numerals /\ u # Space
BY SizeTextAssumption

(* What parse_size reads at its end: one numeral, if the prefix that is    *)
(* left of a trimmed text is a numeral and spaces.                         *)
LEMMA PrefixReads ==
  ASSUME NEW t \in Seq(Tokens), t # <<>> => t[1] # Space, NEW k \in 0 .. Len(t),
         NEW p, p = SubSeq(t, 1, k)
  PROVE  /\ Len(Trim(p)) = 1 /\ Trim(p)[1] \in Numerals <=> Accepts(t, k)
         /\ Accepts(t, k) => Trim(p)[1] = t[1]
<1>1. Len(t) \in Nat /\ \A i \in 1 .. Len(t) : t[i] \in Tokens
    BY LenProperties, ElementOfSeq
<1>2. p \in Seq(Tokens) /\ Len(p) = k /\ \A i \in 1 .. k : p[i] = t[i]
  <2>1. \A i \in 1 .. k : t[i] \in Tokens
      BY <1>1
  <2> QED BY <2>1, <1>1, SubSeqProperties
<1>3. k >= 1 => t[1] # Space
    BY <1>1, EmptySeq
<1>4. CASE Trim(p) = <<>> /\ \A i \in 1 .. Len(p) : p[i] = Space
    BY <1>1, <1>2, <1>3, <1>4 DEF Accepts
<1>5. ASSUME NEW a \in 1 .. Len(p), NEW b \in 1 .. Len(p),
             a <= b, p[a] # Space, p[b] # Space,
             \A i \in 1 .. Len(p) : p[i] # Space => a <= i /\ i <= b,
             Trim(p) = SubSeq(p, a, b)
      PROVE  /\ Len(Trim(p)) = 1 /\ Trim(p)[1] \in Numerals <=> Accepts(t, k)
             /\ Accepts(t, k) => Trim(p)[1] = t[1]
  <2>1. k >= 1 /\ p[1] = t[1] /\ a = 1
      BY <1>2, <1>3, <1>5
  <2>2. \A i \in a .. b : p[i] \in Tokens
      BY <1>1, <1>2
  <2>3. Len(Trim(p)) = b /\ Trim(p)[1] = t[1]
      BY <2>1, <2>2, <1>2, <1>5, SubSeqProperties
  <2>4. Accepts(t, k) => b = 1
    <3>1. SUFFICES ASSUME Accepts(t, k), b # 1 PROVE FALSE
        OBVIOUS
    <3>2. b \in 2 .. k
        BY <3>1, <1>2
    <3> QED BY <3>1, <3>2, <1>2, <1>5 DEF Accepts
  <2>5. b = 1 => \A i \in 2 .. k : t[i] = Space
      BY <1>2, <1>5
  <2> QED BY <2>1, <2>3, <2>4, <2>5 DEF Accepts
<1> QED BY <1>2, <1>4, <1>5, TrimMeaning

(* A unit behind the first n tokens, in positions of the whole text.       *)
LEMMA UnitBehind ==
  ASSUME NEW t \in Seq(Tokens), NEW n \in 1 .. Len(t), NEW u \in Prefixes
  PROVE  /\ IsUnit(SubSeq(t, n + 1, Len(t)), u)
              <=> n < Len(t) /\ \E m \in n .. Len(t) : Same(t, u, n, m) /\ Pairs(t, u, m)
         /\ IsUnit(SubSeq(t, n + 1, Len(t)), Byte) <=> Same(t, Byte, n, Len(t))
<1> DEFINE q == SubSeq(t, n + 1, Len(t))
<1>1. Len(t) \in Nat /\ \A i \in 1 .. Len(t) : t[i] \in Tokens
    BY LenProperties, ElementOfSeq
<1>2. /\ q \in Seq(Tokens) /\ Len(q) = Len(t) - n
      /\ \A i \in 1 .. Len(t) - n : q[i] = t[n + i]
  <2>1. \A i \in n + 1 .. Len(t) : t[i] \in Tokens
      BY <1>1
  <2>2. /\ q \in Seq(Tokens)
        /\ Len(q) = IF n + 1 <= Len(t) THEN Len(t) - (n + 1) + 1 ELSE 0
        /\ \A i \in 1 .. Len(t) - (n + 1) + 1 : q[i] = t[(n + 1) + i - 1]
      BY <2>1, <1>1, SubSeqProperties
  <2>3. \A i \in 1 .. Len(t) - n : i \in 1 .. Len(t) - (n + 1) + 1 /\ (n + 1) + i - 1 = n + i
      BY <1>1
  <2>4. \A i \in 1 .. Len(t) - n : q[i] = t[n + i]
      BY <2>2, <2>3
  <2>5. Len(q) = Len(t) - n
      BY <2>2, <1>1
  <2> QED BY <2>2, <2>4, <2>5
<1>3. DOMAIN q = 1 .. Len(t) - n
    BY <1>2, LenProperties
<1> HIDE DEF q
<1>4. \A i \in n + 1 .. Len(t) : i - n \in 1 .. Len(t) - n /\ t[i] = q[i - n]
  <2> SUFFICES ASSUME NEW i \in n + 1 .. Len(t)
               PROVE  i - n \in 1 .. Len(t) - n /\ t[i] = q[i - n]
      OBVIOUS
  <2>1. i - n \in 1 .. Len(t) - n /\ n + (i - n) = i
      BY <1>1
  <2> QED BY <2>1, <1>2
<1>5. IsUnit(q, Byte) <=> Same(t, Byte, n, Len(t))
  <2>1. ASSUME Same(t, Byte, n, Len(t)), NEW i \in 1 .. Len(t) - n PROVE q[i] = Byte
    <3>1. n + i \in n + 1 .. Len(t)
        BY <1>1
    <3> QED BY <3>1, <2>1, <1>2 DEF Same
  <2>2. ASSUME \A i \in DOMAIN q : q[i] = Byte PROVE Same(t, Byte, n, Len(t))
      BY <2>2, <1>3, <1>4 DEF Same
  <2> QED BY <2>1, <2>2, <1>3 DEF IsUnit
<1>6. u # Byte
    BY Letters
<1>7. ASSUME IsUnit(q, u)
      PROVE  n < Len(t) /\ \E m \in n .. Len(t) : Same(t, u, n, m) /\ Pairs(t, u, m)
  <2>1. PICK l \in 0 .. Len(q) :
          /\ \A i \in 1 .. l : q[i] = u
          /\ (Len(q) - l) % 2 = 0
          /\ \A i \in l + 1 .. Len(q) : q[i] = IF (i - l) % 2 = 1 THEN u ELSE Byte
          /\ Len(q) > 0
      BY <1>6, <1>7 DEF IsUnit
  <2>2. n + l \in n .. Len(t) /\ n < Len(t)
      BY <2>1, <1>1, <1>2
  <2>3. Same(t, u, n, n + l)
    <3> SUFFICES ASSUME NEW i \in n + 1 .. n + l PROVE t[i] = u
        BY DEF Same
    <3>1. i - n \in 1 .. l /\ i \in n + 1 .. Len(t)
        BY <2>2, <1>1
    <3> QED BY <3>1, <2>1, <1>4
  <2>4. Pairs(t, u, n + l)
    <3>1. (Len(t) - (n + l)) % 2 = 0
        BY <2>1, <1>1, <1>2
    <3>2. ASSUME NEW i \in n + l + 1 .. Len(t)
          PROVE  t[i] = IF (i - (n + l)) % 2 = 1 THEN u ELSE Byte
      <4>1. i - n \in l + 1 .. Len(q) /\ (i - n) - l = i - (n + l) /\ i \in n + 1 .. Len(t)
          BY <2>2, <1>1, <1>2
      <4> QED BY <4>1, <2>1, <1>4
    <3> QED BY <3>1, <3>2 DEF Pairs
  <2> QED BY <2>2, <2>3, <2>4
<1>8. ASSUME n < Len(t), NEW m \in n .. Len(t), Same(t, u, n, m), Pairs(t, u, m)
      PROVE  IsUnit(q, u)
  <2>1. m - n \in 0 .. Len(q) /\ Len(q) > 0
      BY <1>8, <1>1, <1>2
  <2>2. (Len(q) - (m - n)) % 2 = 0
      BY <1>8, <1>1, <1>2 DEF Pairs
  <2>3. ASSUME NEW i \in 1 .. m - n PROVE q[i] = u
    <3>1. n + i \in n + 1 .. m /\ i \in 1 .. Len(t) - n
        BY <1>1
    <3> QED BY <3>1, <1>2, <1>8 DEF Same
  <2>4. ASSUME NEW i \in (m - n) + 1 .. Len(q)
        PROVE  q[i] = IF (i - (m - n)) % 2 = 1 THEN u ELSE Byte
    <3>1. /\ n + i \in m + 1 .. Len(t) /\ i \in 1 .. Len(t) - n
          /\ (n + i) - m = i - (m - n)
        BY <1>1, <1>2
    <3> QED BY <3>1, <1>2, <1>8 DEF Pairs
  <2> QED BY <2>1, <2>2, <2>3, <2>4, <1>6 DEF IsUnit
<1> QED BY <1>5, <1>7, <1>8 DEF q

(* The last token of a numeral and spaces is no letter.                    *)
LEMMA LastOfNumber ==
  ASSUME NEW t \in Seq(Tokens), NEW n \in 1 .. Len(t), Accepts(t, n)
  PROVE  \A c \in Prefixes \union {Byte} : t[n] # c
<1>1. n = 1 \/ n \in 2 .. n
    BY LenProperties
<1> QED BY <1>1, Letters DEF Accepts

(* The end of a size tells its unit.                                       *)
LEMMA UnitEnds ==
  ASSUME NEW t \in Seq(Tokens), NEW n \in 1 .. Len(t), Accepts(t, n), NEW u \in Prefixes
  PROVE  /\ IsUnit(SubSeq(t, n + 1, Len(t)), u) => Ends(t, u)
         /\ IsUnit(SubSeq(t, n + 1, Len(t)), Byte) => ~Ends(t, u)
<1>1. Len(t) \in Nat
    BY LenProperties
<1>2. t[n] # u /\ t[n] # Byte /\ u # Byte
    BY LastOfNumber, Letters
<1>3. ASSUME IsUnit(SubSeq(t, n + 1, Len(t)), u) PROVE Ends(t, u)
  <2>1. n < Len(t)
      BY <1>3, UnitBehind
  <2>2. PICK m \in n .. Len(t) : Same(t, u, n, m) /\ Pairs(t, u, m)
      BY <1>3, UnitBehind
  <2>3. CASE m = Len(t)
    <3>1. Len(t) \in n + 1 .. m
        BY <2>1, <2>3, <1>1
    <3> QED BY <3>1, <2>2, <1>1 DEF Same, Ends
  <2>4. CASE m # Len(t)
    <3>1. (Len(t) - m) % 2 = 0 /\ Len(t) - m \in Nat /\ Len(t) - m >= 1
        BY <2>2, <2>4, <1>1 DEF Pairs
    <3>2. Len(t) - m >= 2 /\ (Len(t) - 1 - m) % 2 = 1
        BY <3>1
    <3>3. Len(t) \in m + 1 .. Len(t) /\ Len(t) - 1 \in m + 1 .. Len(t) /\ Len(t) >= 2
        BY <3>2, <1>1
    <3>4. t[Len(t)] = Byte /\ t[Len(t) - 1] = u
        BY <3>1, <3>2, <3>3, <2>2 DEF Pairs
    <3> QED BY <3>3, <3>4 DEF Ends
  <2> QED BY <2>3, <2>4
<1>4. ASSUME IsUnit(SubSeq(t, n + 1, Len(t)), Byte) PROVE ~Ends(t, u)
  <2>1. Same(t, Byte, n, Len(t))
      BY <1>4, UnitBehind
  <2>2. \A i \in n .. Len(t) : t[i] # u
    <3> SUFFICES ASSUME NEW i \in n .. Len(t) PROVE t[i] # u
        OBVIOUS
    <3>1. i = n \/ i \in n + 1 .. Len(t)
        BY <1>1
    <3> QED BY <3>1, <2>1, <1>2 DEF Same
  <2>3. Len(t) \in n .. Len(t)
      BY <1>1
  <2>4. n = Len(t) \/ Len(t) - 1 \in n .. Len(t)
      BY <1>1
  <2> QED BY <2>2, <2>3, <2>4, <1>2 DEF Ends
<1> QED BY <1>3, <1>4

(* A text ends in one prefix only.                                         *)
LEMMA OneEnd ==
  ASSUME NEW t, NEW u \in Prefixes, NEW v \in Prefixes, Ends(t, u), Ends(t, v)
  PROVE  u = v
BY Letters DEF Ends

(* The two loops stop right behind the numeral and its spaces.             *)
LEMMA LoopsStop ==
  ASSUME NEW t \in Seq(Tokens), NEW u \in Prefixes,
         NEW k \in 0 .. Len(t), NEW m \in k .. Len(t),
         Pairs(t, u, m), ~LongEnd(t, u, m), Same(t, u, k, m), k = 0 \/ t[k] # u,
         NEW n \in 1 .. Len(t), Accepts(t, n), IsUnit(SubSeq(t, n + 1, Len(t)), u)
  PROVE  k = n
<1>1. Len(t) \in Nat
    BY LenProperties
<1>2. t[n] # u /\ t[n] # Byte /\ u # Byte
    BY LastOfNumber, Letters
<1>3. PICK l \in n .. Len(t) : Same(t, u, n, l) /\ Pairs(t, u, l)
    BY UnitBehind
<1>4. t[l] # Byte
  <2>1. l = n \/ l \in n + 1 .. l
      BY <1>1
  <2> QED BY <2>1, <1>2, <1>3 DEF Same
<1>5. ~(l < m)
  <2> SUFFICES ASSUME l < m PROVE FALSE
      OBVIOUS
  <2>1. m - l \in Nat /\ m - l >= 2 /\ (m - l) % 2 = 0 /\ (m - 1 - l) % 2 = 1
      BY <1>1, <1>3 DEF Pairs
  <2>2. m \in l + 1 .. Len(t) /\ m - 1 \in l + 1 .. Len(t) /\ m >= 2
      BY <2>1, <1>1
  <2>3. t[m] = Byte /\ t[m - 1] = u
      BY <2>1, <2>2, <1>3 DEF Pairs
  <2> QED BY <2>2, <2>3 DEF LongEnd
<1>6. ~(m < l)
  <2> SUFFICES ASSUME m < l PROVE FALSE
      OBVIOUS
  <2>1. (l - m) % 2 = 0
      BY <1>1, <1>3 DEF Pairs
  <2>2. l \in m + 1 .. Len(t)
      BY <1>1
  <2> QED BY <2>1, <2>2, <1>4 DEF Pairs
<1>7. l = m
    BY <1>1, <1>5, <1>6
<1>8. ~(n > k)
  <2> SUFFICES ASSUME n > k PROVE FALSE
      OBVIOUS
  <2>1. n \in k + 1 .. m
      BY <1>1, <1>7
  <2> QED BY <2>1, <1>2 DEF Same
<1>9. ~(k > n)
  <2> SUFFICES ASSUME k > n PROVE FALSE
      OBVIOUS
  <2>1. k \in n + 1 .. l /\ k # 0
      BY <1>1, <1>7
  <2> QED BY <2>1, <1>3 DEF Same
<1> QED BY <1>1, <1>8, <1>9

-------------------------------------------------------------------------------
(* The state of parse_size.                                                *)

Full == Trim(UpperCase(text))

TypeInv ==
  /\ text \in Texts
  /\ s \in Seq(Tokens)
  /\ unit \in Prefixes \union {Byte}

(* What has been taken off is pairs of unit and B behind units, as far as  *)
(* they go; or, in a text that ends in no prefix, B.                       *)
UnitsOff(k) ==
  \/ /\ unit \in Prefixes /\ Ends(Full, unit)
     /\ \E m \in k .. Len(Full) :
          Pairs(Full, unit, m) /\ ~LongEnd(Full, unit, m) /\ Same(Full, unit, k, m)
  \/ /\ unit = Byte /\ \A u \in Prefixes : ~Ends(Full, u)
     /\ Same(Full, Byte, k, Len(Full))

(* What is left is a prefix of the trimmed text, and the loops that have   *)
(* ended have left nothing that they could take.                           *)
SizesInv ==
  /\ TypeInv
  /\ at = "case" => s = text /\ unit = Byte
  /\ at \in {"unit", "long", "short", "number"} =>
       Len(s) <= Len(Full) /\ s = SubSeq(Full, 1, Len(s))
  /\ at = "unit" => Len(s) = Len(Full) /\ unit = Byte
  /\ at = "long" => unit \in Prefixes /\ Ends(Full, unit) /\ Pairs(Full, unit, Len(s))
  /\ at \in {"short", "number"} => UnitsOff(Len(s))
  /\ at = "number" => Len(s) = 0 \/ Full[Len(s)] # unit
  /\ SizeMeaning

(* The text that is read has no space in front.                            *)
LEMMA FullType ==
  ASSUME TypeInv
  PROVE  Full \in Seq(Tokens) /\ (Full # <<>> => Full[1] # Space)
<1>1. UpperCase(text) \in Seq(Tokens)
    BY UpperCaseType, TextsAssumption DEF TypeInv
<1> DEFINE p == UpperCase(text)
<1>2. Len(p) \in Nat /\ \A i \in 1 .. Len(p) : p[i] \in Tokens
    BY <1>1, LenProperties, ElementOfSeq
<1>3. CASE Full = <<>>
    BY <1>3, EmptySeq
<1>4. ASSUME NEW a \in 1 .. Len(p), NEW b \in 1 .. Len(p), a <= b, p[a] # Space,
             Full = SubSeq(p, a, b)
      PROVE  Full \in Seq(Tokens) /\ (Full # <<>> => Full[1] # Space)
  <2>1. \A i \in a .. b : p[i] \in Tokens
      BY <1>2
  <2>2. /\ Full \in Seq(Tokens)
        /\ \A i \in 1 .. b - a + 1 : Full[i] = p[a + i - 1]
      BY <2>1, <1>4, SubSeqProperties
  <2>3. 1 \in 1 .. b - a + 1 /\ a + 1 - 1 = a
      BY <1>2, <1>4
  <2>4. Full[1] = p[a]
      BY <2>2, <2>3
  <2> QED BY <2>2, <2>4, <1>4
<1> QED BY <1>1, <1>3, <1>4, TrimMeaning DEF Full

(* What ends_with sees at the end of what is left.                         *)
LEMMA EndsInMeaning ==
  ASSUME NEW t \in Seq(Tokens), NEW u
  PROVE  /\ EndsIn(t, <<u>>) <=> Len(t) >= 1 /\ t[Len(t)] = u
         /\ EndsIn(t, <<u, Byte>>) <=> LongEnd(t, u, Len(t))
<1>1. Len(t) \in Nat
    BY LenProperties
<1>2. /\ Len(<<u>>) = 1 /\ DOMAIN <<u>> = {1} /\ <<u>>[1] = u
      /\ Len(<<u, Byte>>) = 2 /\ DOMAIN <<u, Byte>> = {1, 2}
      /\ <<u, Byte>>[1] = u /\ <<u, Byte>>[2] = Byte
    OBVIOUS
<1>3. Len(t) - 1 + 1 = Len(t) /\ Len(t) - 2 + 1 = Len(t) - 1 /\ Len(t) - 2 + 2 = Len(t)
    BY <1>1
<1>4. EndsIn(t, <<u>>) <=> Len(t) >= 1 /\ t[Len(t)] = u
    BY <1>2, <1>3 DEF EndsIn
<1>5. EndsIn(t, <<u, Byte>>) <=> LongEnd(t, u, Len(t))
    BY <1>2, <1>3 DEF EndsIn, LongEnd
<1> QED BY <1>4, <1>5

(* The tests of the three prefixes.                                        *)
LEMMA HasMeaning ==
  ASSUME TypeInv, NEW u
  PROVE  Has(u) <=> Ends(s, u)
BY EndsInMeaning DEF Has, Ends, LongEnd, TypeInv

(* A part of what is left is a part of the whole.                          *)
LEMMA PartOfFull ==
  ASSUME TypeInv, s = SubSeq(Full, 1, Len(s)), Len(s) <= Len(Full),
         NEW k \in 0 .. Len(s)
  PROVE  /\ SubSeq(s, 1, k) = SubSeq(Full, 1, k)
         /\ SubSeq(s, 1, k) \in Seq(Tokens) /\ Len(SubSeq(s, 1, k)) = k
         /\ \A i \in 1 .. Len(s) : s[i] = Full[i]
<1>1. /\ Full \in Seq(Tokens) /\ Len(Full) \in Nat /\ Len(s) \in Nat
      /\ \A i \in 1 .. Len(Full) : Full[i] \in Tokens
      /\ \A i \in 1 .. Len(s) : s[i] \in Tokens
    BY FullType, LenProperties, ElementOfSeq DEF TypeInv
<1>2. \A i \in 1 .. Len(s) : s[i] = Full[i]
  <2>1. \A i \in 1 .. Len(s) : Full[i] \in Tokens
      BY <1>1
  <2>2. \A i \in 1 .. Len(s) - 1 + 1 : SubSeq(Full, 1, Len(s))[i] = Full[1 + i - 1]
      BY <2>1, <1>1, SubSeqProperties
  <2>3. \A i \in 1 .. Len(s) : i \in 1 .. Len(s) - 1 + 1 /\ 1 + i - 1 = i
      BY <1>1
  <2> QED BY <2>2, <2>3
<1>3. \A i \in 1 .. k : s[i] \in Tokens /\ Full[i] \in Tokens /\ s[i] = Full[i]
    BY <1>1, <1>2
<1>4. /\ SubSeq(s, 1, k) \in Seq(Tokens) /\ Len(SubSeq(s, 1, k)) = k
      /\ \A i \in 1 .. k : SubSeq(s, 1, k)[i] = s[i]
    BY <1>3, <1>1, SubSeqProperties
<1>5. /\ SubSeq(Full, 1, k) \in Seq(Tokens) /\ Len(SubSeq(Full, 1, k)) = k
      /\ \A i \in 1 .. k : SubSeq(Full, 1, k)[i] = Full[i]
    BY <1>3, <1>1, SubSeqProperties
<1>6. SubSeq(s, 1, k) = SubSeq(Full, 1, k)
    BY <1>3, <1>4, <1>5, SeqEqual
<1> QED BY <1>2, <1>4, <1>6

(* A size, in terms of its trimmed text.                                   *)
LEMMA SizeParts ==
  ASSUME TypeInv, NEW u \in Prefixes \union {Byte}
  PROVE  IsSize(text, u) <=>
           \E n \in 1 .. Len(Full) :
             Accepts(Full, n) /\ IsUnit(SubSeq(Full, n + 1, Len(Full)), u)
<1>1. Full \in Seq(Tokens) /\ Len(Full) \in Nat
    BY FullType, LenProperties
<1>2. \A n \in 1 .. Len(Full) : Full # <<>> /\ n >= 1
    BY <1>1, EmptySeq
<1> QED BY <1>2 DEF IsSize, Full, Accepts

(* When the loops have ended, the part that is left decides.               *)
LEMMA NumberDecides ==
  ASSUME TypeInv, NEW k \in 0 .. Len(Full), UnitsOff(k), k = 0 \/ Full[k] # unit
  PROVE  /\ Accepts(Full, k) <=> IsSize(text, unit)
         /\ \A v \in Prefixes \union {Byte} : IsSize(text, v) => v = unit
<1>1. Full \in Seq(Tokens) /\ Len(Full) \in Nat
    BY FullType, LenProperties
<1>2. ASSUME NEW v \in Prefixes \union {Byte}, IsSize(text, v) PROVE v = unit
  <2>1. PICK n \in 1 .. Len(Full) :
          Accepts(Full, n) /\ IsUnit(SubSeq(Full, n + 1, Len(Full)), v)
      BY <1>2, SizeParts
  <2>2. CASE unit \in Prefixes /\ Ends(Full, unit)
    <3>1. v \in Prefixes
        BY <2>1, <2>2, <1>1, UnitEnds
    <3> QED BY <3>1, <2>1, <2>2, <1>1, UnitEnds, OneEnd
  <2>3. CASE unit = Byte /\ \A u \in Prefixes : ~Ends(Full, u)
      BY <2>1, <2>3, <1>1, UnitEnds
  <2> QED BY <2>2, <2>3 DEF UnitsOff
<1>3. ASSUME Accepts(Full, k) PROVE IsSize(text, unit)
  <2>1. k \in 1 .. Len(Full)
      BY <1>1, <1>3 DEF Accepts
  <2>2. \A c \in Prefixes \union {Byte} : Full[k] # c
      BY <1>1, <1>3, <2>1, LastOfNumber
  <2>3. CASE unit \in Prefixes /\ UnitsOff(k)
    <3>1. PICK m \in k .. Len(Full) : Pairs(Full, unit, m) /\ Same(Full, unit, k, m)
        BY <2>3, Letters DEF UnitsOff
    <3>2. Ends(Full, unit)
        BY <2>3, Letters DEF UnitsOff
    <3>3. k # Len(Full)
        BY <3>2, <2>1, <2>2, <2>3 DEF Ends
    <3>4. k < Len(Full)
        BY <3>3, <2>1, <1>1
    <3>5. IsUnit(SubSeq(Full, k + 1, Len(Full)), unit)
        BY <3>1, <3>4, <2>1, <2>3, <1>1, UnitBehind
    <3> QED BY <3>5, <2>1, <2>3, <1>3, SizeParts
  <2>4. CASE unit = Byte /\ Same(Full, Byte, k, Len(Full))
    <3>1. Kilo \in Prefixes
        BY DEF Prefixes
    <3>2. IsUnit(SubSeq(Full, k + 1, Len(Full)), Byte)
        BY <3>1, <2>1, <2>4, <1>1, UnitBehind
    <3> QED BY <3>2, <2>1, <2>4, <1>3, SizeParts
  <2> QED BY <2>3, <2>4 DEF UnitsOff
<1>4. ASSUME IsSize(text, unit) PROVE Accepts(Full, k)
  <2>1. PICK n \in 1 .. Len(Full) :
          Accepts(Full, n) /\ IsUnit(SubSeq(Full, n + 1, Len(Full)), unit)
      BY <1>4, SizeParts DEF TypeInv
  <2>2. CASE unit \in Prefixes
    <3>1. PICK m \in k .. Len(Full) :
            Pairs(Full, unit, m) /\ ~LongEnd(Full, unit, m) /\ Same(Full, unit, k, m)
        BY <2>2, Letters DEF UnitsOff
    <3>2. k = n
        BY <3>1, <2>1, <2>2, <1>1, LoopsStop
    <3> QED BY <3>2, <2>1
  <2>3. CASE unit = Byte
    <3>1. Kilo \in Prefixes
        BY DEF Prefixes
    <3>2. Same(Full, Byte, n, Len(Full))
        BY <3>1, <2>1, <2>3, <1>1, UnitBehind
    <3>3. Same(Full, Byte, k, Len(Full))
        BY <2>3, Letters DEF UnitsOff
    <3>4. Full[n] # Byte
        BY <2>1, <1>1, LastOfNumber
    <3>5. ~(n > k)
      <4> SUFFICES ASSUME n > k PROVE FALSE
          OBVIOUS
      <4>1. n \in k + 1 .. Len(Full)
          BY <1>1
      <4> QED BY <4>1, <3>3, <3>4 DEF Same
    <3>6. ~(k > n)
      <4> SUFFICES ASSUME k > n PROVE FALSE
          OBVIOUS
      <4>1. k \in n + 1 .. Len(Full) /\ k # 0
          BY <1>1
      <4> QED BY <4>1, <3>2, <2>3 DEF Same
    <3>7. k = n
        BY <3>5, <3>6, <1>1
    <3> QED BY <3>7, <2>1
  <2> QED BY <2>2, <2>3 DEF TypeInv
<1> QED BY <1>2, <1>3, <1>4

-------------------------------------------------------------------------------
(* The steps.                                                              *)

(* The first test finds the trimmed text in upper case.                    *)
LEMMA NormaliseStep ==
  ASSUME SizesInv, Normalise
  PROVE  SizesInv'
<1>1. TypeInv /\ at = "case" /\ at' = "unit" /\ s = text /\ unit = Byte /\ UNCHANGED <<text, unit>>
    BY DEF SizesInv, Normalise
<1>2. s' = Full /\ Full' = Full
    BY <1>1 DEF Normalise, Full
<1>3. Full \in Seq(Tokens) /\ Len(Full) \in Nat /\ Full = SubSeq(Full, 1, Len(Full))
    BY <1>1, FullType, LenProperties, SubSeqFull
<1>4. TypeInv'
    BY <1>1, <1>2, <1>3 DEF TypeInv
<1>5. SizeMeaning'
    BY <1>1 DEF SizeMeaning
<1> QED BY <1>1, <1>2, <1>3, <1>4, <1>5 DEF SizesInv

(* The tests of the unit leave the whole text to the loops.                *)
LEMMA UnitStep ==
  ASSUME SizesInv, (\E u \in Prefixes : InPrefix(u)) \/ InByte \/ NoUnit
  PROVE  SizesInv'
<1>1. /\ TypeInv /\ at = "unit" /\ unit = Byte /\ UNCHANGED <<text, s>>
      /\ Len(s) = Len(Full) /\ s = SubSeq(Full, 1, Len(s))
    BY DEF SizesInv, InPrefix, InByte, NoUnit
<1>2. Full \in Seq(Tokens) /\ Len(Full) \in Nat /\ s = Full /\ Full' = Full
    BY <1>1, FullType, LenProperties, SubSeqFull DEF Full
<1>3. at' # "done" => SizeMeaning'
    BY DEF SizeMeaning
<1>4. ASSUME NEW u \in Prefixes, InPrefix(u) PROVE SizesInv'
  <2>1. at' = "long" /\ unit' = u /\ Ends(Full, u)
      BY <1>1, <1>2, <1>4, HasMeaning DEF InPrefix
  <2>2. Pairs(Full, u, Len(Full))
      BY <1>2 DEF Pairs
  <2>3. TypeInv'
      BY <1>1, <2>1 DEF TypeInv
  <2> QED BY <1>1, <1>2, <1>3, <2>1, <2>2, <2>3 DEF SizesInv
<1>5. CASE InByte \/ NoUnit
  <2>1. at' \in {"short", "number"} /\ unit' = Byte
      BY <1>1, <1>5 DEF InByte, NoUnit
  <2>2. \A u \in Prefixes : ~Ends(Full, u)
      BY <1>1, <1>2, <1>5, HasMeaning DEF InByte, NoUnit
  <2>3. Same(Full, Byte, Len(Full), Len(Full))
      BY <1>2 DEF Same
  <2>4. UnitsOff(Len(s))'
      BY <1>1, <1>2, <2>1, <2>2, <2>3 DEF UnitsOff
  <2>5. at' = "number" => Len(s') = 0 \/ Full'[Len(s')] # unit'
    <3>1. at' = "number" => ~EndsIn(s, <<Byte>>)
        BY <1>5 DEF InByte, NoUnit
    <3>2. EndsIn(s, <<Byte>>) <=> Len(s) >= 1 /\ s[Len(s)] = Byte
        BY <1>2, EndsInMeaning
    <3> QED BY <3>1, <3>2, <1>1, <1>2, <2>1
  <2>6. TypeInv'
      BY <1>1, <2>1 DEF TypeInv
  <2> QED BY <1>1, <1>2, <1>3, <2>1, <2>4, <2>5, <2>6 DEF SizesInv
<1> QED BY <1>4, <1>5

(* A turn of a loop leaves a shorter part of the text.                     *)
LEMMA ChopShape ==
  ASSUME SizesInv, at \in {"long", "short"}, NEW n \in {1, 2}, Len(s) >= n, Chop(n)
  PROVE  /\ TypeInv' /\ UNCHANGED <<at, unit>> /\ Full' = Full /\ SizeMeaning'
         /\ Len(s') = Len(s) - n /\ Len(s') <= Len(Full)
         /\ s' = SubSeq(Full, 1, Len(s'))
<1>1. TypeInv /\ Len(s) <= Len(Full) /\ s = SubSeq(Full, 1, Len(s))
    BY DEF SizesInv
<1>2. Len(s) \in Nat /\ Len(Full) \in Nat
    BY <1>1, FullType, LenProperties DEF TypeInv
<1>3. Len(s) - n \in 0 .. Len(s)
    BY <1>2
<1>4. /\ s' = SubSeq(s, 1, Len(s) - n) /\ UNCHANGED <<text, unit, at>>
      /\ Full' = Full
    BY DEF Chop, Full
<1>5. /\ s' = SubSeq(Full, 1, Len(s) - n) /\ s' \in Seq(Tokens)
      /\ Len(s') = Len(s) - n
    BY <1>1, <1>3, <1>4, PartOfFull
<1>6. TypeInv'
    BY <1>1, <1>4, <1>5 DEF TypeInv
<1>7. SizeMeaning'
    BY <1>4 DEF SizeMeaning
<1>8. Len(s) - n <= Len(Full)
    BY <1>1, <1>2
<1>9. s' = SubSeq(Full, 1, Len(s'))
    BY <1>5, Zenon
<1> QED BY <1>4, <1>5, <1>6, <1>7, <1>8, <1>9

(* trim_end_matches of a unit and B takes pairs.                           *)
LEMMA LongStep ==
  ASSUME SizesInv, ChopLong \/ EndLong
  PROVE  SizesInv'
<1>1. /\ TypeInv /\ at = "long" /\ Len(s) <= Len(Full) /\ s = SubSeq(Full, 1, Len(s))
      /\ unit \in Prefixes /\ Ends(Full, unit) /\ Pairs(Full, unit, Len(s))
    BY DEF SizesInv, ChopLong, EndLong, GoOn
<1>2. /\ s \in Seq(Tokens) /\ Len(s) \in Nat /\ Len(Full) \in Nat
      /\ \A i \in 1 .. Len(s) : s[i] = Full[i]
  <2>1. Len(s) \in Nat /\ Len(s) \in 0 .. Len(s)
      BY <1>1, LenProperties DEF TypeInv
  <2> QED BY <1>1, <2>1, FullType, LenProperties, PartOfFull DEF TypeInv
<1>3. EndsIn(s, <<unit, Byte>>) <=> LongEnd(Full, unit, Len(s))
  <2>1. Len(s) >= 2 => Len(s) \in 1 .. Len(s) /\ Len(s) - 1 \in 1 .. Len(s)
      BY <1>2
  <2> QED BY <2>1, <1>2, EndsInMeaning DEF LongEnd
<1>4. CASE ChopLong
  <2>1. LongEnd(Full, unit, Len(s)) /\ Len(s) >= 2 /\ Chop(2)
      BY <1>3, <1>4 DEF ChopLong, LongEnd
  <2>2. /\ TypeInv' /\ UNCHANGED <<at, unit>> /\ Full' = Full /\ SizeMeaning'
        /\ Len(s') = Len(s) - 2 /\ Len(s') <= Len(Full)
        /\ s' = SubSeq(Full, 1, Len(s'))
      BY <2>1, <1>1, ChopShape
  <2>3. Pairs(Full, unit, Len(s) - 2)
    <3>1. (Len(Full) - (Len(s) - 2)) % 2 = 0
        BY <1>1, <1>2 DEF Pairs
    <3>2. ASSUME NEW i \in (Len(s) - 2) + 1 .. Len(Full)
          PROVE  Full[i] = IF (i - (Len(s) - 2)) % 2 = 1 THEN unit ELSE Byte
      <4>1. i = Len(s) - 1 \/ i = Len(s) \/ i \in Len(s) + 1 .. Len(Full)
          BY <1>2
      <4>2. (i - (Len(s) - 2)) % 2 = (i - Len(s)) % 2
          BY <1>2
      <4>3. CASE i = Len(s) - 1
          BY <4>3, <2>1, <1>2 DEF LongEnd
      <4>4. CASE i = Len(s)
          BY <4>4, <2>1, <1>2 DEF LongEnd
      <4>5. CASE i \in Len(s) + 1 .. Len(Full)
          BY <4>5, <4>2, <1>1 DEF Pairs
      <4> QED BY <4>1, <4>3, <4>4, <4>5
    <3> QED BY <3>1, <3>2 DEF Pairs
  <2> QED BY <1>1, <2>2, <2>3 DEF SizesInv
<1>5. CASE EndLong
  <2>1. at' = "short" /\ UNCHANGED <<text, s, unit>> /\ Full' = Full
      BY <1>5 DEF EndLong, GoOn, Full
  <2>2. ~LongEnd(Full, unit, Len(s))
      BY <1>3, <1>5 DEF EndLong
  <2>3. Same(Full, unit, Len(s), Len(s)) /\ Len(s) \in Len(s) .. Len(Full)
      BY <1>1, <1>2 DEF Same
  <2>4. UnitsOff(Len(s))
      BY <1>1, <2>2, <2>3 DEF UnitsOff
  <2>5. UnitsOff(Len(s))' /\ TypeInv'
      BY <2>1, <2>4, <1>1 DEF UnitsOff, TypeInv
  <2> QED BY <1>1, <2>1, <2>5 DEF SizesInv, SizeMeaning
<1> QED BY <1>4, <1>5

(* trim_end_matches of a unit takes units.                                 *)
LEMMA ShortStep ==
  ASSUME SizesInv, ChopShort \/ EndShort
  PROVE  SizesInv'
<1>1. /\ TypeInv /\ at = "short" /\ Len(s) <= Len(Full) /\ s = SubSeq(Full, 1, Len(s))
      /\ UnitsOff(Len(s))
    BY DEF SizesInv, ChopShort, EndShort, GoOn
<1>2. /\ s \in Seq(Tokens) /\ Len(s) \in Nat /\ Len(Full) \in Nat
      /\ \A i \in 1 .. Len(s) : s[i] = Full[i]
  <2>1. Len(s) \in Nat /\ Len(s) \in 0 .. Len(s)
      BY <1>1, LenProperties DEF TypeInv
  <2> QED BY <1>1, <2>1, FullType, LenProperties, PartOfFull DEF TypeInv
<1>3. EndsIn(s, <<unit>>) <=> Len(s) >= 1 /\ Full[Len(s)] = unit
  <2>1. Len(s) >= 1 => Len(s) \in 1 .. Len(s)
      BY <1>2
  <2> QED BY <2>1, <1>2, EndsInMeaning
<1>4. CASE ChopShort
  <2>1. Full[Len(s)] = unit /\ Len(s) >= 1 /\ Chop(1)
      BY <1>3, <1>4 DEF ChopShort
  <2>2. /\ TypeInv' /\ UNCHANGED <<at, unit>> /\ Full' = Full /\ SizeMeaning'
        /\ Len(s') = Len(s) - 1 /\ Len(s') <= Len(Full)
        /\ s' = SubSeq(Full, 1, Len(s'))
      BY <2>1, <1>1, ChopShape
  <2>3. ASSUME NEW m \in Len(s) .. Len(Full), Same(Full, unit, Len(s), m)
        PROVE  Same(Full, unit, Len(s) - 1, m) /\ m \in Len(s) - 1 .. Len(Full)
    <3>1. \A i \in (Len(s) - 1) + 1 .. m : i = Len(s) \/ i \in Len(s) + 1 .. m
        BY <1>2
    <3>2. m \in Len(s) - 1 .. Len(Full)
        BY <1>2
    <3> QED BY <3>1, <3>2, <2>1, <2>3 DEF Same
  <2>4. UnitsOff(Len(s) - 1)
    <3>1. Len(Full) \in Len(s) .. Len(Full)
        BY <1>1, <1>2
    <3> QED BY <3>1, <2>3, <1>1 DEF UnitsOff
  <2>5. UnitsOff(Len(s))'
      BY <2>2, <2>4 DEF UnitsOff
  <2> QED BY <1>1, <2>2, <2>5 DEF SizesInv
<1>5. CASE EndShort
  <2>1. at' = "number" /\ UNCHANGED <<text, s, unit>> /\ Full' = Full
      BY <1>5 DEF EndShort, GoOn, Full
  <2>2. Len(s) = 0 \/ Full[Len(s)] # unit
      BY <1>2, <1>3, <1>5 DEF EndShort
  <2>3. UnitsOff(Len(s))' /\ TypeInv'
      BY <2>1, <1>1 DEF UnitsOff, TypeInv
  <2> QED BY <1>1, <2>1, <2>2, <2>3 DEF SizesInv, SizeMeaning
<1> QED BY <1>4, <1>5

(* The number that is read is the size of the text.                        *)
LEMMA ReadStep ==
  ASSUME SizesInv, Read
  PROVE  SizesInv'
<1>1. /\ TypeInv /\ at = "number" /\ Len(s) <= Len(Full) /\ s = SubSeq(Full, 1, Len(s))
      /\ UnitsOff(Len(s)) /\ (Len(s) = 0 \/ Full[Len(s)] # unit)
    BY DEF SizesInv, Read
<1>2. at' = "done" /\ UNCHANGED <<text, s, unit>>
    BY DEF Read
<1>3. /\ Full \in Seq(Tokens) /\ (Full # <<>> => Full[1] # Space)
      /\ Len(s) \in 0 .. Len(Full)
    BY <1>1, FullType, LenProperties DEF TypeInv
<1>4. /\ Len(Trim(s)) = 1 /\ Trim(s)[1] \in Numerals <=> Accepts(Full, Len(s))
      /\ Accepts(Full, Len(s)) => Trim(s)[1] = Full[1]
    BY <1>1, <1>3, PrefixReads
<1>5. /\ Accepts(Full, Len(s)) <=> IsSize(text, unit)
      /\ \A v \in Prefixes \union {Byte} : IsSize(text, v) => v = unit
    BY <1>1, <1>3, NumberDecides
<1>6. result' = SizeOf(text)
  <2>1. CASE IsSize(text, unit)
    <3>1. result' = InBytes(Full[1], unit)
        BY <2>1, <1>4, <1>5 DEF Read
    <3>2. UnitOf(text) = unit
        BY <2>1, <1>1, <1>5 DEF UnitOf, TypeInv
    <3>3. NumeralOf(text) = Full[1]
        BY <1>3, <1>5, <2>1 DEF NumeralOf, Full
    <3> QED BY <3>1, <3>2, <3>3, <2>1, <1>1 DEF SizeOf, TypeInv
  <2>2. CASE ~IsSize(text, unit)
    <3>1. result' = Invalid
        BY <2>2, <1>4, <1>5 DEF Read
    <3>2. \A v \in Prefixes \union {Byte} : ~IsSize(text, v)
        BY <2>2, <1>5
    <3> QED BY <3>1, <3>2 DEF SizeOf
  <2> QED BY <2>1, <2>2
<1>7. SizeMeaning'
    BY <1>2, <1>6 DEF SizeMeaning
<1>8. TypeInv'
    BY <1>1, <1>2 DEF TypeInv
<1> QED BY <1>2, <1>7, <1>8 DEF SizesInv

(* What is left of the text is a front part of it, behind which only the   *)
(* unit has been taken off.                                                *)
LEMMA SizesInvAlways == Safe => []SizesInv
<1>1. Init => SizesInv
    BY TextsAssumption DEF Init, SizesInv, TypeInv, SizeMeaning
<1>2. SizesInv /\ [Next]_vars => SizesInv'
  <2> SUFFICES ASSUME SizesInv, [Next]_vars PROVE SizesInv'
      OBVIOUS
  <2>1. CASE Returned \/ UNCHANGED vars
      BY <2>1 DEF Returned, vars, SizesInv, TypeInv, UnitsOff, Full, SizeMeaning
  <2> QED BY <2>1, NormaliseStep, UnitStep, LongStep, ShortStep, ReadStep DEF Next
<1> QED BY <1>1, <1>2, PTL DEF Safe

(* parse_size accepts exactly the texts that are a number, spaces and a    *)
(* unit in any of its spellings, and multiplies by that unit, for texts of *)
(* any length and any numerals, precision and width (cli.rs:260-282).      *)
THEOREM SizeCorrect == Safe => []SizeMeaning
<1>1. SizesInv => SizeMeaning
    BY DEF SizesInv
<1> QED BY <1>1, SizesInvAlways, PTL

-------------------------------------------------------------------------------
(* The spacing of the f64.                                                 *)

(* Where the spacing starts to grow.                                       *)
LEMMA FinestType ==
  /\ Precision \in Nat \ {0} /\ Least \in Nat \ {0} /\ Finest \in Nat \ {0}
  /\ Finest = Precision * Least
BY SizeTextAssumption DEF Finest

(* The recursion of Spacing, for the numbers up to n.                      *)
IsSpacing(f, n) ==
  f = [x \in 0 .. n |-> IF x <= Finest THEN Least ELSE 2 * f[(x + 1) \div 2]]

(* What is asked for is a smaller number.                                  *)
LEMMA Half ==
  ASSUME NEW x \in Nat, ~(x <= Finest)
  PROVE  (x + 1) \div 2 \in Nat /\ (x + 1) \div 2 < x
BY FinestType

(* The spacing of a number does not depend on how far the recursion goes.  *)
LEMMA SpacingUnique ==
  ASSUME NEW m \in Nat, NEW n \in Nat, m <= n, NEW f, NEW g, IsSpacing(f, m), IsSpacing(g, n)
  PROVE  \A x \in 0 .. m : f[x] = g[x]
<1> DEFINE Bad == {x \in 0 .. m : f[x] # g[x]}
<1> SUFFICES ASSUME Bad # {} PROVE FALSE
    OBVIOUS
<1>1. Min(Bad) \in Bad /\ \A y \in Bad : Min(Bad) <= y
  <2>1. Bad \in SUBSET Nat
      OBVIOUS
  <2> HIDE DEF Bad
  <2> QED BY <2>1, LeastNumber
<1>2. PICK x \in Bad : \A y \in Bad : x <= y
    BY <1>1
<1>3. x \in 0 .. m /\ x \in 0 .. n /\ x \in Nat
    OBVIOUS
<1>4. f[x] = IF x <= Finest THEN Least ELSE 2 * f[(x + 1) \div 2]
    BY <1>3 DEF IsSpacing
<1>5. g[x] = IF x <= Finest THEN Least ELSE 2 * g[(x + 1) \div 2]
    BY <1>3 DEF IsSpacing
<1>6. ~(x <= Finest)
    BY <1>4, <1>5
<1> DEFINE y == (x + 1) \div 2
<1>7. y \in Nat /\ y < x
    BY <1>3, <1>6, Half
<1> HIDE DEF y
<1>8. y \in 0 .. m /\ ~(x <= y)
    BY <1>3, <1>7
<1>9. f[y] = g[y]
    BY <1>2, <1>8
<1> QED BY <1>4, <1>5, <1>6, <1>9 DEF y

(* The recursion goes as far as one likes.                                 *)
LEMMA SpacingUpTo == \A n \in Nat : \E f : IsSpacing(f, n)
<1> DEFINE Bad == {n \in Nat : ~\E f : IsSpacing(f, n)}
<1> SUFFICES ASSUME Bad # {} PROVE FALSE
    OBVIOUS
<1>1. PICK n \in Bad : \A y \in Bad : n <= y
  <2>1. Bad \in SUBSET Nat
      OBVIOUS
  <2> HIDE DEF Bad
  <2> QED BY <2>1, LeastNumber
<1>2. n \in Nat /\ ~\E f : IsSpacing(f, n)
    BY <1>1
<1>3. CASE n = 0
  <2> DEFINE f == [x \in 0 .. 0 |-> Least]
  <2>1. \A x \in 0 .. 0 : x <= Finest
      BY FinestType
  <2>2. f = [x \in 0 .. 0 |-> IF x <= Finest THEN Least ELSE 2 * f[(x + 1) \div 2]]
      BY <2>1
  <2> HIDE DEF f
  <2> QED BY <1>2, <1>3, <2>2 DEF IsSpacing
<1>4. CASE n > 0
  <2>1. n - 1 \in Nat /\ ~(n <= n - 1)
      BY <1>2, <1>4
  <2>2. n - 1 \notin Bad
      BY <1>1, <2>1
  <2>3. PICK g : IsSpacing(g, n - 1)
      BY <2>1, <2>2
  <2> DEFINE h == [x \in 0 .. n |-> IF x < n THEN g[x]
                                    ELSE IF n <= Finest THEN Least ELSE 2 * g[(n + 1) \div 2]]
  <2>4. ASSUME NEW x \in 0 .. n
        PROVE  h[x] = IF x <= Finest THEN Least ELSE 2 * h[(x + 1) \div 2]
    <3>1. x \in Nat
        BY <1>2
    <3>2. ~(x <= Finest) => (x + 1) \div 2 \in 0 .. n /\ (x + 1) \div 2 < n
        BY <1>2, <3>1, Half
    <3>3. ~(x <= Finest) => h[(x + 1) \div 2] = g[(x + 1) \div 2]
        BY <3>2
    <3>4. CASE x < n
      <4>1. x \in 0 .. n - 1
          BY <3>4, <3>1, <1>2
      <4>2. g[x] = IF x <= Finest THEN Least ELSE 2 * g[(x + 1) \div 2]
          BY <2>3, <4>1 DEF IsSpacing
      <4>3. h[x] = g[x]
          BY <3>4
      <4> HIDE DEF h
      <4> QED BY <3>3, <4>2, <4>3
    <3>5. CASE x = n
      <4>1. h[x] = IF n <= Finest THEN Least ELSE 2 * g[(n + 1) \div 2]
          BY <3>5, <1>2
      <4> HIDE DEF h
      <4> QED BY <3>3, <3>5, <4>1
    <3> QED BY <3>1, <3>4, <3>5, <1>2
  <2>5. h = [x \in 0 .. n |-> h[x]]
      OBVIOUS
  <2> HIDE DEF h
  <2>6. h = [x \in 0 .. n |-> IF x <= Finest THEN Least ELSE 2 * h[(x + 1) \div 2]]
      BY <2>4, <2>5
  <2> QED BY <1>2, <2>6 DEF IsSpacing
<1> QED BY <1>2, <1>3, <1>4

(* Spacing is what its definition says.                                    *)
LEMMA SpacingUnfolds ==
  \A x \in Nat : Spacing[x] = IF x <= Finest THEN Least ELSE 2 * Spacing[(x + 1) \div 2]
<1> DEFINE part(n) == CHOOSE f : IsSpacing(f, n)
           whole == [x \in Nat |-> part(x)[x]]
           Is(S) == S = [x \in Nat |-> IF x <= Finest THEN Least ELSE 2 * S[(x + 1) \div 2]]
<1>1. ASSUME NEW x \in Nat
      PROVE  whole[x] = IF x <= Finest THEN Least ELSE 2 * whole[(x + 1) \div 2]
  <2>1. IsSpacing(part(x), x)
      BY SpacingUpTo
  <2>2. part(x)[x] = IF x <= Finest THEN Least ELSE 2 * part(x)[(x + 1) \div 2]
    <3> DEFINE f == part(x)
    <3>1. IsSpacing(f, x) /\ x \in 0 .. x
        BY <2>1
    <3> HIDE DEF f
    <3>2. f[x] = IF x <= Finest THEN Least ELSE 2 * f[(x + 1) \div 2]
        BY <3>1 DEF IsSpacing
    <3> QED BY <3>2 DEF f
  <2>3. CASE ~(x <= Finest)
    <3> DEFINE y == (x + 1) \div 2
    <3>1. y \in Nat /\ y <= x
        BY <2>3, Half
    <3> HIDE DEF y
    <3>2. IsSpacing(part(y), y)
        BY <3>1, SpacingUpTo
    <3> DEFINE f == part(x)
               g == part(y)
    <3>3. IsSpacing(f, x) /\ IsSpacing(g, y)
        BY <2>1, <3>2
    <3> HIDE DEF f, g
    <3>4. y \in 0 .. y
        BY <3>1
    <3>5. g[y] = f[y]
        BY <3>1, <3>3, <3>4, SpacingUnique
    <3>6. part(x)[y] = part(y)[y]
        BY <3>5 DEF f, g
    <3>7. whole[x] = part(x)[x] /\ whole[y] = part(y)[y]
        BY <3>1
    <3> HIDE DEF whole, part
    <3> QED BY <2>2, <2>3, <3>6, <3>7 DEF y
  <2>4. CASE x <= Finest
      BY <2>2, <2>4
  <2> QED BY <2>3, <2>4
<1>2. Is(whole)
  <2>1. whole = [x \in Nat |-> whole[x]]
      OBVIOUS
  <2> HIDE DEF whole
  <2> QED BY <1>1, <2>1
<1>3. Is(CHOOSE S : Is(S))
  <2> HIDE DEF whole, Is
  <2> QED BY <1>2
<1>4. Spacing = CHOOSE S : Is(S)
    BY DEF Spacing
<1>5. Is(Spacing)
  <2> HIDE DEF Is
  <2> QED BY <1>3, <1>4
<1> HIDE DEF whole
<1>6. ASSUME NEW S, Is(S), NEW x \in Nat
      PROVE  S[x] = IF x <= Finest THEN Least ELSE 2 * S[(x + 1) \div 2]
    BY <1>6
<1> QED BY <1>5, <1>6

(* The spacing is a number, ...                                            *)
LEMMA SpacingType == \A x \in Nat : Spacing[x] \in Nat \ {0}
<1> DEFINE T == {x \in Nat : Spacing[x] \in Nat \ {0}}
<1>1. ASSUME NEW x \in Nat, \A m \in Nat : m < x => m \in T PROVE x \in T
    BY <1>1, SpacingUnfolds, Half, FinestType
<1>2. \A x \in Nat : x \in T
  <2> HIDE DEF T
  <2> QED BY <1>1, AllNumbers
<1> QED BY <1>2

(* ... the least one or an even one, ...                                   *)
LEMMA SpacingEven ==
  ASSUME NEW x \in Nat, Spacing[x] # Least
  PROVE  \E k \in Nat : Spacing[x] = 2 * k
BY SpacingUnfolds, SpacingType, Half

(* ... small enough for the number to be kept to the precision of an f64   *)
(* and no smaller, ...                                                     *)
LEMMA SpacingBounds ==
  \A x \in Nat : /\ x <= Precision * Spacing[x]
                 /\ Spacing[x] # Least => 2 * x > Precision * Spacing[x]
<1> DEFINE T == {x \in Nat : /\ x <= Precision * Spacing[x]
                             /\ Spacing[x] # Least => 2 * x > Precision * Spacing[x]}
<1>1. ASSUME NEW x \in Nat, \A m \in Nat : m < x => m \in T PROVE x \in T
  <2>1. CASE x <= Finest
      BY <2>1, SpacingUnfolds, FinestType
  <2>2. CASE ~(x <= Finest)
    <3> DEFINE y == (x + 1) \div 2
               v == Spacing[y]
    <3>1. y \in Nat /\ y < x /\ x <= 2 * y /\ 2 * y <= x + 1
        BY <2>2, Half
    <3>2. Spacing[x] = 2 * v /\ v \in Nat \ {0}
        BY <2>2, <3>1, SpacingUnfolds, SpacingType
    <3>3. y <= Precision * v /\ (v # Least => 2 * y > Precision * v)
        BY <1>1, <3>1
    <3>4. Precision \in Nat \ {0} /\ Finest \in Nat
        BY FinestType
    <3>5. v = Least \/ \E k \in Nat : v = 2 * k
        BY <3>1, SpacingEven
    <3> HIDE DEF y, v
    <3> DEFINE a == Precision * v
    <3>6. a \in Nat /\ Precision * Spacing[x] = 2 * a
        BY <3>2, <3>4
    <3>7. v = Least \/ \E j \in Nat : a = 2 * j
      <4> SUFFICES ASSUME NEW k \in Nat, v = 2 * k PROVE \E j \in Nat : a = 2 * j
          BY <3>5
      <4>1. Precision * k \in Nat /\ a = 2 * (Precision * k)
          BY <3>4
      <4> QED BY <4>1
    <3>8. v = Least => a = Finest
        BY FinestType
    <3> HIDE DEF a
    <3>9. a < x
      <4>1. CASE v = Least
          BY <2>2, <3>4, <3>8, <4>1
      <4>2. CASE v # Least
        <5>1. PICK j \in Nat : a = 2 * j
            BY <3>7, <4>2
        <5>2. 2 * y > a
            BY <3>3, <4>2 DEF a
        <5> QED BY <5>1, <5>2, <3>1
      <4> QED BY <4>1, <4>2
    <3>10. y <= a
        BY <3>3 DEF a
    <3>11. x <= Precision * Spacing[x] /\ 2 * x > Precision * Spacing[x]
        BY <3>1, <3>6, <3>9, <3>10
    <3> QED BY <3>11
  <2> QED BY <2>1, <2>2
<1>2. \A x \in Nat : x \in T
  <2> HIDE DEF T
  <2> QED BY <1>1, AllNumbers
<1> QED BY <1>2

(* ... the same for two numbers or at least twice as large for the larger, *)
(* and always a multiple, ...                                              *)
LEMMA SpacingGrows ==
  \A y \in Nat : \A x \in 0 .. y :
    /\ Spacing[x] = Spacing[y] \/ 2 * Spacing[x] <= Spacing[y]
    /\ \E k \in Nat \ {0} : Spacing[y] = k * Spacing[x]
<1> DEFINE Follows(x, y) == /\ Spacing[x] = Spacing[y] \/ 2 * Spacing[x] <= Spacing[y]
                            /\ \E k \in Nat \ {0} : Spacing[y] = k * Spacing[x]
           T == {y \in Nat : \A x \in 0 .. y : Follows(x, y)}
<1>1. ASSUME NEW y \in Nat, \A m \in Nat : m < y => m \in T PROVE y \in T
  <2> SUFFICES ASSUME NEW x \in 0 .. y PROVE Follows(x, y)
      OBVIOUS
  <2>0. Finest \in Nat /\ Least \in Nat \ {0} /\ x \in Nat
      BY FinestType
  <2>1. CASE y <= Finest
    <3>1. x <= Finest
        BY <2>0, <2>1
    <3>2. Spacing[x] = Least /\ Spacing[y] = Least /\ Least = 1 * Least
        BY <2>0, <2>1, <3>1, SpacingUnfolds
    <3> QED BY <3>2
  <2>2. CASE ~(y <= Finest)
    <3> DEFINE j == (y + 1) \div 2
               i == IF x <= Finest THEN 0 ELSE (x + 1) \div 2
               a == Spacing[i]
               b == Spacing[j]
    <3>1. i \in Nat /\ j \in Nat /\ j < y /\ i <= j
        BY <2>0, <2>2, Half
    <3>2. Spacing[y] = 2 * b
        BY <2>2, SpacingUnfolds
    <3>3. Spacing[x] = IF x <= Finest THEN a ELSE 2 * a
        BY <2>0, SpacingUnfolds
    <3>4. Follows(i, j)
      <4> HIDE DEF i, j, a, b, Follows
      <4> QED BY <1>1, <3>1
    <3>5. a \in Nat \ {0} /\ b \in Nat \ {0}
        BY <3>1, SpacingType
    <3>6. PICK k \in Nat \ {0} : b = k * a
        BY <3>4
    <3>7. a = b \/ 2 * a <= b
        BY <3>4
    <3> HIDE DEF i, j, a, b
    <3>8. 2 * b = (2 * k) * a /\ 2 * b = k * (2 * a) /\ 2 * k \in Nat \ {0}
        BY <3>5, <3>6
    <3>9. Spacing[x] = Spacing[y] \/ 2 * Spacing[x] <= Spacing[y]
        BY <3>2, <3>3, <3>5, <3>7
    <3>10. \E c \in Nat \ {0} : Spacing[y] = c * Spacing[x]
        BY <3>2, <3>3, <3>8
    <3> QED BY <3>9, <3>10
  <2> QED BY <2>1, <2>2
<1>2. \A y \in Nat : y \in T
  <2> HIDE DEF T
  <2> QED BY <1>1, AllNumbers
<1> QED BY <1>2

(* ... in particular of the least one, ...                                 *)
LEMMA SpacingMultiple ==
  ASSUME NEW x \in Nat
  PROVE  Spacing[x] >= Least /\ \E k \in Nat \ {0} : Spacing[x] = k * Least
<1>1. 0 \in Nat /\ 0 \in 0 .. x /\ Spacing[0] = Least /\ Least \in Nat
    BY FinestType, SpacingUnfolds
<1>2. Spacing[x] \in Nat
    BY SpacingType
<1>3. \E k \in Nat \ {0} : Spacing[x] = k * Spacing[0]
    BY <1>1, SpacingGrows
<1>4. Spacing[0] = Spacing[x] \/ 2 * Spacing[0] <= Spacing[x]
    BY <1>1, SpacingGrows
<1>5. Spacing[x] >= Least
    BY <1>1, <1>2, <1>4
<1> QED BY <1>1, <1>3, <1>5

(* ... and twice as large for twice a number, unless both are small.       *)
LEMMA SpacingDoubles ==
  ASSUME NEW x \in Nat, ~(2 * x <= Finest)
  PROVE  Spacing[2 * x] = 2 * Spacing[x]
<1>1. 2 * x \in Nat /\ (2 * x + 1) \div 2 = x
    OBVIOUS
<1> QED BY <1>1, SpacingUnfolds

-------------------------------------------------------------------------------
(* Rounding.                                                               *)

(* Division with remainder.                                                *)
LEMMA Division ==
  ASSUME NEW x \in Nat, NEW u \in Nat \ {0}
  PROVE  /\ x \div u \in Nat /\ x % u \in 0 .. u - 1
         /\ x = (x \div u) * u + (x % u)
OBVIOUS

(* Two multiples of u that are not in order are at least u apart.          *)
LEMMA MultiplesApart ==
  ASSUME NEW u \in Nat, NEW i \in Int, NEW j \in Int, j < i
  PROVE  j * u + u <= i * u
<1>1. PICK d \in Nat : i = j + 1 + d
  <2>1. i - j - 1 \in Nat /\ i = j + 1 + (i - j - 1)
      OBVIOUS
  <2> QED BY <2>1
<1>2. i * u = j * u + u + d * u /\ d * u \in Nat /\ j * u \in Int
    BY <1>1
<1> QED BY <1>2

(* There is one quotient and one remainder.                                *)
LEMMA DivisionUnique ==
  ASSUME NEW u \in Nat \ {0}, NEW q \in Nat, NEW r \in 0 .. u - 1, NEW x \in Nat, x = q * u + r
  PROVE  x \div u = q /\ x % u = r
<1> DEFINE d == x \div u
           m == x % u
<1>1. d \in Nat /\ m \in 0 .. u - 1 /\ x = d * u + m
    BY Division
<1> HIDE DEF d, m
<1>2. q * u \in Nat /\ d * u \in Nat
    BY <1>1
<1>3. ~(q < d)
  <2> SUFFICES ASSUME q < d PROVE FALSE
      OBVIOUS
  <2>1. q * u + u <= d * u
      BY <1>1, MultiplesApart
  <2> QED BY <2>1, <1>1, <1>2
<1>4. ~(d < q)
  <2> SUFFICES ASSUME d < q PROVE FALSE
      OBVIOUS
  <2>1. d * u + u <= q * u
      BY <1>1, MultiplesApart
  <2> QED BY <2>1, <1>1, <1>2
<1>5. d = q
    BY <1>1, <1>3, <1>4
<1>6. m = r
    BY <1>1, <1>2, <1>5
<1> QED BY <1>5, <1>6 DEF d, m

(* A rounded number is a multiple, half a step away at most.               *)
LEMMA RoundShape ==
  ASSUME NEW x \in Nat, NEW u \in Nat \ {0}
  PROVE  \E k \in Nat : /\ Round(x, u) = k * u /\ k * u \in Nat
                        /\ 2 * x - 2 * (k * u) <= u /\ 2 * (k * u) - 2 * x <= u
<1> DEFINE q == x \div u
           over == x % u
           up == 2 * over > u \/ (2 * over = u /\ q % 2 = 1)
           a == q * u
<1>1. Round(x, u) = IF up THEN (q + 1) * u ELSE q * u
    BY DEF Round
<1>2. q \in Nat /\ over \in 0 .. u - 1 /\ x = a + over
    BY Division
<1>3. up => 2 * over >= u
    BY <1>2
<1>4. ~up => 2 * over <= u
  <2>1. ~up => ~(2 * over > u)
      OBVIOUS
  <2> QED BY <2>1, <1>2
<1> HIDE DEF q, over, up
<1>5. a \in Nat /\ (q + 1) * u = a + u
    BY <1>2
<1> HIDE DEF a
<1>6. CASE up
  <2>1. 2 * x - 2 * (a + u) <= u /\ 2 * (a + u) - 2 * x <= u
      BY <1>2, <1>3, <1>5, <1>6
  <2>2. q + 1 \in Nat /\ Round(x, u) = (q + 1) * u /\ (q + 1) * u = a + u /\ a + u \in Nat
      BY <1>1, <1>2, <1>5, <1>6
  <2> QED BY <2>1, <2>2
<1>7. CASE ~up
  <2>1. 2 * x - 2 * a <= u /\ 2 * a - 2 * x <= u
      BY <1>2, <1>4, <1>5, <1>7
  <2>2. Round(x, u) = q * u /\ q * u = a
      BY <1>1, <1>7 DEF a
  <2> QED BY <2>1, <2>2, <1>2, <1>5
<1> QED BY <1>6, <1>7

(* Rounding to multiples of the same number keeps the order.               *)
LEMMA RoundKeepsOrder ==
  ASSUME NEW y \in Nat, NEW x \in 0 .. y, NEW u \in Nat \ {0}
  PROVE  Round(x, u) <= Round(y, u)
<1>0. x \in Nat
    OBVIOUS
<1>1. PICK i \in Nat : /\ Round(x, u) = i * u /\ i * u \in Nat
                       /\ 2 * x - 2 * (i * u) <= u /\ 2 * (i * u) - 2 * x <= u
    BY <1>0, RoundShape
<1>2. PICK j \in Nat : /\ Round(y, u) = j * u /\ j * u \in Nat
                       /\ 2 * y - 2 * (j * u) <= u /\ 2 * (j * u) - 2 * y <= u
    BY RoundShape
<1>3. CASE x = y
    BY <1>2, <1>3
<1>4. CASE x < y /\ j < i
  <2>1. j * u + u <= i * u
      BY <1>4, MultiplesApart
  <2> QED BY <2>1, <1>1, <1>2, <1>4
<1>5. CASE i = j
    BY <1>1, <1>2, <1>5
<1>6. CASE i < j
  <2>1. i * u + u <= j * u
      BY <1>6, MultiplesApart
  <2> QED BY <2>1, <1>1, <1>2
<1> QED BY <1>3, <1>4, <1>5, <1>6

(* A multiple is kept.                                                     *)
LEMMA RoundExact ==
  ASSUME NEW k \in Nat, NEW u \in Nat \ {0}
  PROVE  Round(k * u, u) = k * u
<1>1. k * u \in Nat /\ k * u = k * u + 0 /\ 0 \in 0 .. u - 1
    OBVIOUS
<1>2. (k * u) \div u = k /\ (k * u) % u = 0
    BY <1>1, DivisionUnique
<1>3. ~(2 * 0 > u) /\ ~(2 * 0 = u)
    OBVIOUS
<1> QED BY <1>2, <1>3 DEF Round

(* Twice a number is rounded to twice the multiple of half as much.        *)
LEMMA RoundDoubles ==
  ASSUME NEW x \in Nat, NEW u \in Nat \ {0}
  PROVE  Round(2 * x, 2 * u) = 2 * Round(x, u)
<1> DEFINE q == x \div u
           over == x % u
           up == 2 * over > u \/ (2 * over = u /\ q % 2 = 1)
<1>1. q \in Nat /\ over \in 0 .. u - 1 /\ x = q * u + over
    BY Division
<1> HIDE DEF q, over
<1>2. 2 * x = q * (2 * u) + 2 * over /\ 2 * over \in 0 .. 2 * u - 1 /\ 2 * u \in Nat \ {0}
    BY <1>1
<1>3. (2 * x) \div (2 * u) = q /\ (2 * x) % (2 * u) = 2 * over
  <2> DEFINE X == 2 * x
             U == 2 * u
             R == 2 * over
  <2>1. X \in Nat /\ U \in Nat \ {0} /\ R \in 0 .. U - 1 /\ X = q * U + R
      BY <1>2
  <2> HIDE DEF X, U, R
  <2>2. X \div U = q /\ X % U = R
      BY <1>1, <2>1, DivisionUnique
  <2> QED BY <2>2 DEF X, U, R
<1>4. /\ 2 * (2 * over) > 2 * u <=> 2 * over > u
      /\ 2 * (2 * over) = 2 * u <=> 2 * over = u
    BY <1>1
<1>5. Round(x, u) = IF up THEN (q + 1) * u ELSE q * u
    BY DEF Round, q, over
<1>6. Round(2 * x, 2 * u) = IF up THEN (q + 1) * (2 * u) ELSE q * (2 * u)
    BY <1>3, <1>4 DEF Round
<1> HIDE DEF up
<1>7. (q + 1) * (2 * u) = 2 * ((q + 1) * u) /\ q * (2 * u) = 2 * (q * u)
    BY <1>1
<1> QED BY <1>5, <1>6, <1>7

(* Rounding a number that is not negative.                                 *)
LEMMA NearestNat ==
  ASSUME NEW x \in Nat
  PROVE  Nearest(x) = Round(x, Spacing[x]) /\ Nearest(x) \in Nat
<1>1. ~(x < 0)
    OBVIOUS
<1>2. Round(x, Spacing[x]) \in Nat
    BY SpacingType, RoundShape
<1> QED BY <1>1, <1>2 DEF Nearest

(* A multiple of its own spacing is an f64.                                *)
LEMMA NearestExact ==
  ASSUME NEW x \in Nat, NEW k \in Nat, x = k * Spacing[x]
  PROVE  Nearest(x) = x
<1> DEFINE u == Spacing[x]
<1>1. Nearest(x) = Round(x, u) /\ u \in Nat \ {0}
    BY NearestNat, SpacingType
<1>2. x = k * u
    OBVIOUS
<1> HIDE DEF u
<1>3. Round(k * u, u) = k * u
    BY <1>1, RoundExact
<1> QED BY <1>1, <1>2, <1>3

(* Rounding a number that is negative.                                     *)
LEMMA NearestNegative ==
  ASSUME NEW x \in Int, x < 0
  PROVE  -x \in Nat /\ Nearest(x) = -Nearest(-x) /\ Nearest(-x) \in Nat
<1>1. -x \in Nat
    OBVIOUS
<1>2. Nearest(-x) = Round(-x, Spacing[-x]) /\ Nearest(-x) \in Nat
    BY <1>1, NearestNat
<1> QED BY <1>1, <1>2 DEF Nearest

(* Rounding yields a number.                                               *)
LEMMA NearestType == \A x \in Int : Nearest(x) \in Int
<1> SUFFICES ASSUME NEW x \in Int PROVE Nearest(x) \in Int
    OBVIOUS
<1>1. x \in Nat \/ x < 0
    OBVIOUS
<1> QED BY <1>1, NearestNat, NearestNegative

(* Rounding keeps the order of numbers that are not negative, also where   *)
(* the spacing changes.                                                    *)
LEMMA NearestKeepsOrderNat ==
  ASSUME NEW y \in Nat, NEW x \in 0 .. y
  PROVE  Nearest(x) <= Nearest(y)
<1> DEFINE u == Spacing[x]
           v == Spacing[y]
<1>1. x \in Nat /\ u \in Nat \ {0} /\ v \in Nat \ {0} /\ Precision \in Nat \ {0}
         /\ Least \in Nat \ {0} /\ u >= Least
    BY SpacingType, SpacingMultiple, FinestType
<1>2. Nearest(x) = Round(x, u) /\ Nearest(y) = Round(y, v)
    BY <1>1, NearestNat
<1>3. u = v \/ 2 * u <= v
    BY SpacingGrows
<1>4. x <= Precision * u /\ (v # Least => 2 * y > Precision * v)
    BY <1>1, SpacingBounds
<1> HIDE DEF u, v
<1>5. CASE u = v
    BY <1>1, <1>2, <1>5, RoundKeepsOrder
<1>6. CASE 2 * u <= v
  <2>1. Round(x, u) <= Precision * u
    <3>1. Precision * u \in Nat /\ x \in 0 .. Precision * u
        BY <1>1, <1>4
    <3>2. Round(x, u) <= Round(Precision * u, u)
        BY <1>1, <3>1, RoundKeepsOrder
    <3> QED BY <1>1, <3>2, RoundExact
  <2>2. PICK k \in Nat : /\ Round(y, v) = k * v /\ k * v \in Nat
                         /\ 2 * y - 2 * (k * v) <= v /\ 2 * (k * v) - 2 * y <= v
      BY <1>1, RoundShape
  <2>3. 2 * y > Precision * v
      BY <1>1, <1>4, <1>6
  <2>4. Precision <= 2 * k
    <3> SUFFICES ASSUME 2 * k < Precision PROVE FALSE
        BY <1>1
    <3>1. (2 * k) * v + v <= Precision * v
        BY <1>1, MultiplesApart
    <3>2. (2 * k) * v = 2 * (k * v) /\ Precision * v \in Nat
        BY <1>1
    <3> QED BY <1>1, <2>2, <2>3, <3>1, <3>2
  <2>5. Precision * (2 * u) <= Precision * v
    <3>1. PICK d \in Nat : v = 2 * u + d
      <4>1. v - 2 * u \in Nat /\ v = 2 * u + (v - 2 * u)
          BY <1>1, <1>6
      <4> QED BY <4>1
    <3>2. Precision * v = Precision * (2 * u) + Precision * d /\ Precision * d \in Nat
        BY <1>1, <3>1
    <3>3. Precision * (2 * u) \in Nat
        BY <1>1
    <3> QED BY <3>2, <3>3
  <2>6. Precision * v <= 2 * (k * v)
    <3>1. PICK d \in Nat : 2 * k = Precision + d
      <4>1. 2 * k - Precision \in Nat /\ 2 * k = Precision + (2 * k - Precision)
          BY <1>1, <2>4
      <4> QED BY <4>1
    <3>2. (2 * k) * v = Precision * v + d * v /\ d * v \in Nat /\ Precision * v \in Nat
        BY <1>1, <3>1
    <3>3. (2 * k) * v = 2 * (k * v)
        BY <1>1
    <3> QED BY <3>2, <3>3
  <2>7. Precision * (2 * u) = 2 * (Precision * u) /\ Precision * u \in Nat /\ Precision * v \in Nat
      BY <1>1
  <2>8. Precision * u <= k * v
      BY <2>2, <2>5, <2>6, <2>7
  <2>9. Round(x, u) \in Nat
      BY <1>1, RoundShape
  <2> QED BY <1>2, <2>1, <2>2, <2>7, <2>8, <2>9
<1> QED BY <1>3, <1>5, <1>6

(* Rounding keeps the order.                                               *)
LEMMA NearestKeepsOrder ==
  ASSUME NEW x \in Int, NEW y \in Int, x <= y
  PROVE  Nearest(x) <= Nearest(y)
<1>1. CASE x >= 0
  <2>1. y \in Nat /\ x \in 0 .. y
      BY <1>1
  <2> QED BY <2>1, NearestKeepsOrderNat
<1>2. CASE x < 0 /\ y >= 0
  <2>1. y \in Nat
      BY <1>2
  <2>2. Nearest(x) = -Nearest(-x) /\ Nearest(-x) \in Nat /\ Nearest(y) \in Nat
      BY <1>2, <2>1, NearestNegative, NearestNat
  <2> QED BY <2>2
<1>3. CASE y < 0
  <2>1. x < 0 /\ -x \in Nat /\ -y \in 0 .. -x
      BY <1>3
  <2>2. Nearest(-y) <= Nearest(-x)
      BY <2>1, NearestKeepsOrderNat
  <2>3. /\ Nearest(x) = -Nearest(-x) /\ Nearest(-x) \in Nat
        /\ Nearest(y) = -Nearest(-y) /\ Nearest(-y) \in Nat
      BY <1>3, <2>1, NearestNegative
  <2> QED BY <2>2, <2>3
<1> QED BY <1>1, <1>2, <1>3

(* A product with a number keeps the order.                                *)
LEMMA ProductKeepsOrder ==
  ASSUME NEW m \in Nat, NEW a \in Int, NEW b \in Int, a <= b
  PROVE  m * a <= m * b
<1>1. PICK d \in Nat : b = a + d
  <2>1. b - a \in Nat /\ b = a + (b - a)
      OBVIOUS
  <2> QED BY <2>1
<1>2. m * b = m * a + m * d /\ m * d \in Nat /\ m * a \in Int
    BY <1>1
<1> QED BY <1>2

(* Rounding and doubling can be exchanged, ...                             *)
LEMMA NearestDoubles ==
  ASSUME NEW x \in Nat, x >= Finest
  PROVE  Nearest(2 * x) = 2 * Nearest(x)
<1>1. 2 * x \in Nat /\ ~(2 * x <= Finest)
    BY FinestType
<1>2. Spacing[2 * x] = 2 * Spacing[x]
    BY <1>1, SpacingDoubles
<1>3. Round(2 * x, 2 * Spacing[x]) = 2 * Round(x, Spacing[x])
    BY SpacingType, RoundDoubles
<1>4. Nearest(2 * x) = Round(2 * x, Spacing[2 * x]) /\ Nearest(x) = Round(x, Spacing[x])
    BY <1>1, NearestNat
<1> QED BY <1>2, <1>3, <1>4

(* A product of two numbers is as large as each.                           *)
LEMMA ProductGrows ==
  ASSUME NEW x \in Nat, NEW k \in Nat \ {0}
  PROVE  x * k \in Nat /\ x * k >= x
<1>1. PICK d \in Nat : k = 1 + d
  <2>1. k - 1 \in Nat /\ k = 1 + (k - 1)
      OBVIOUS
  <2> QED BY <2>1
<1>2. x * k = x + x * d /\ x * d \in Nat
    BY <1>1
<1> QED BY <1>2

(* A factor of a product is determined by the other.                       *)
LEMMA FactorUnique ==
  ASSUME NEW i \in Nat, NEW j \in Nat, NEW u \in Nat \ {0}, i * u = j * u
  PROVE  i = j
<1>1. i * u \in Nat /\ j * u \in Nat
    OBVIOUS
<1>2. ~(i < j)
  <2>1. i < j => i * u + u <= j * u
      BY MultiplesApart
  <2> QED BY <2>1, <1>1
<1>3. ~(j < i)
  <2>1. j < i => j * u + u <= i * u
      BY MultiplesApart
  <2> QED BY <2>1, <1>1
<1> QED BY <1>2, <1>3

(* ... hence rounding and a product with a power of two, ...               *)
LEMMA NearestScales ==
  \A n \in Nat : \A t \in Nat \ {0} : Spacing[n] = t * Least =>
    \A x \in Nat : x >= Finest => Nearest(x * t) = Nearest(x) * t
<1> DEFINE Scales(t) == \A x \in Nat : x >= Finest => Nearest(x * t) = Nearest(x) * t
           T == {n \in Nat : \A t \in Nat \ {0} : Spacing[n] = t * Least => Scales(t)}
<1>0. Least \in Nat \ {0} /\ Finest \in Nat
    BY FinestType
<1>1. ASSUME NEW n \in Nat, \A m \in Nat : m < n => m \in T PROVE n \in T
  <2> SUFFICES ASSUME NEW t \in Nat \ {0}, Spacing[n] = t * Least,
                      NEW x \in Nat, x >= Finest
               PROVE  Nearest(x * t) = Nearest(x) * t
      OBVIOUS
  <2>1. CASE n <= Finest
    <3>1. t * Least = 1 * Least
        BY <2>1, <1>0, SpacingUnfolds
    <3>2. t = 1
        BY <1>0, <3>1, FactorUnique
    <3>3. x * 1 = x /\ Nearest(x) * 1 = Nearest(x)
        BY NearestNat
    <3> QED BY <3>2, <3>3
  <2>2. CASE ~(n <= Finest)
    <3> DEFINE m == (n + 1) \div 2
    <3>1. m \in Nat /\ m < n
        BY <2>2, Half
    <3>2. Spacing[n] = 2 * Spacing[m]
        BY <2>2, SpacingUnfolds
    <3> HIDE DEF m
    <3>3. PICK k \in Nat \ {0} : Spacing[m] = k * Least
        BY <3>1, SpacingMultiple
    <3>4. t = 2 * k
      <4>1. t * Least = (2 * k) * Least /\ 2 * k \in Nat
          BY <1>0, <3>2, <3>3
      <4> QED BY <1>0, <4>1, FactorUnique
    <3>5. Scales(k)
      <4> HIDE DEF Scales
      <4> QED BY <1>1, <3>1, <3>3
    <3>6. Nearest(x * k) = Nearest(x) * k
        BY <3>5
    <3> DEFINE z == x * k
    <3>7. z \in Nat /\ z >= Finest /\ x * t = 2 * z
      <4>1. z \in Nat /\ z >= x
          BY ProductGrows
      <4> QED BY <1>0, <3>4, <4>1
    <3>8. Nearest(2 * z) = 2 * Nearest(z)
      <4> HIDE DEF z
      <4> QED BY <3>7, NearestDoubles
    <3>9. Nearest(x) \in Nat
        BY NearestNat
    <3>10. Nearest(x) * t = 2 * (Nearest(x) * k)
        BY <3>4, <3>9
    <3> QED BY <3>6, <3>7, <3>8, <3>10
  <2> QED BY <2>1, <2>2
<1>2. \A n \in Nat : n \in T
  <2> HIDE DEF T
  <2> QED BY <1>1, AllNumbers
<1> QED BY <1>2

(* The multiplier of a unit is at most that of G.                          *)
LEMMA MultiplierType ==
  ASSUME NEW written
  PROVE  /\ Multiplier(written) \in Nat \ {0}
         /\ \A x \in Nat : x * Multiplier(written) <= x * (Thousand * Thousand * Thousand)
<1> DEFINE T == Thousand
           M == Multiplier(written)
<1>1. T \in Nat \ {0}
    BY SizeTextAssumption
<1>2. M \in {T * T * T, T * T, T, 1}
    BY DEF Multiplier
<1> HIDE DEF T, M
<1>3. T * T \in Nat \ {0} /\ T * T * T \in Nat \ {0} /\ T * T * T = (T * T) * T
    BY <1>1
<1>4. 1 <= T /\ T <= T * T /\ T * T <= T * T * T
  <2>1. T * T >= T
      BY <1>1, ProductGrows
  <2>2. (T * T) * T >= T * T
      BY <1>1, <1>3, ProductGrows
  <2> QED BY <1>1, <1>3, <2>1, <2>2
<1>5. M \in Nat \ {0} /\ M <= T * T * T
    BY <1>1, <1>2, <1>3, <1>4
<1>6. \A x \in Nat : x * M <= x * (T * T * T)
    BY <1>3, <1>5, ProductKeepsOrder
<1> QED BY <1>5, <1>6 DEF T, M

(* ... hence rounding and a product with the multiplier of a unit.         *)
LEMMA NearestMultiplies ==
  ASSUME NEW x \in Nat, x >= Finest, NEW written
  PROVE  Nearest(x * Multiplier(written)) = Nearest(x) * Multiplier(written)
<1> DEFINE T == Thousand
<1>1. T \in Nat \ {0} /\ Precision * (T * Least) \in Nat /\ Finest \in Nat
  <2>1. T \in Nat \ {0}
      BY SizeTextAssumption
  <2>2. T * Least \in Nat
      BY <2>1, FinestType
  <2> HIDE DEF T
  <2> QED BY <2>1, <2>2, FinestType
<1>2. \A y \in Nat : y >= Finest => Nearest(y * T) = Nearest(y) * T
    BY <1>1, PowersAssumption, NearestScales
<1> HIDE DEF T
<1>3. \A y \in Nat : /\ Nearest(y) \in Nat
                     /\ y >= Finest => y * T \in Nat /\ y * T >= Finest
  <2> SUFFICES ASSUME NEW y \in Nat, y >= Finest PROVE y * T \in Nat /\ y * T >= Finest
      BY NearestNat
  <2>1. y * T \in Nat /\ y * T >= y
      BY <1>1, ProductGrows
  <2> QED BY <1>1, <2>1
<1>4. \A y \in Nat : y * (T * T) = (y * T) * T /\ y * (T * T * T) = ((y * T) * T) * T
    BY <1>1
<1>5. Nearest((x * T) * T) = (Nearest(x) * T) * T
    BY <1>2, <1>3
<1>6. Nearest(((x * T) * T) * T) = ((Nearest(x) * T) * T) * T
  <2> DEFINE y == (x * T) * T
  <2>1. y \in Nat /\ y >= Finest
      BY <1>3
  <2>2. Nearest(y * T) = Nearest(y) * T
      BY <1>2, <2>1
  <2> QED BY <1>5, <2>2
<1>7. Nearest(x * 1) = Nearest(x) * 1
  <2>1. x * 1 = x /\ Nearest(x) * 1 = Nearest(x)
      BY <1>3
  <2> QED BY <2>1
<1>8. Multiplier(written) \in {T * T * T, T * T, T, 1}
    BY DEF Multiplier, T
<1> QED BY <1>2, <1>3, <1>4, <1>5, <1>6, <1>7, <1>8

(* ToSize cuts off the fraction and saturates.                             *)
LEMMA ToSizeMeaning ==
  ASSUME NEW x \in Int
  PROVE  /\ ToSize(x) \in 0 .. SizeMax
         /\ x < 0 => ToSize(x) = 0
         /\ x >= 0 => \/ ToSize(x) = x \div Fine
                      \/ ToSize(x) = SizeMax /\ SizeMax <= x \div Fine
<1>1. SizeMax \in Nat /\ Fine \in Nat \ {0}
    BY SizeTextAssumption
<1>2. CASE x < 0
    BY <1>1, <1>2 DEF ToSize
<1>3. CASE x >= 0
  <2> DEFINE c == x \div Fine
             T == {c, SizeMax}
  <2>1. c \in Nat
      BY <1>1, <1>3, Division
  <2>2. T \in SUBSET Nat /\ T # {}
      BY <1>1, <2>1
  <2>3. Min(T) \in T /\ Min(T) <= c /\ Min(T) <= SizeMax
    <3> HIDE DEF c
    <3>1. c \in T /\ SizeMax \in T
        OBVIOUS
    <3> HIDE DEF T
    <3> QED BY <2>2, <3>1, LeastNumber
  <2>4. ToSize(x) = Min(T)
      BY <1>3 DEF ToSize
  <2> HIDE DEF c
  <2>5. ToSize(x) = c \/ ToSize(x) = SizeMax
      BY <2>3, <2>4
  <2>6. ToSize(x) <= c /\ ToSize(x) <= SizeMax
      BY <2>3, <2>4
  <2> QED BY <1>1, <1>3, <2>1, <2>5, <2>6 DEF c
<1> QED BY <1>2, <1>3

(* The conversion keeps the order.                                         *)
LEMMA ToSizeKeepsOrder ==
  ASSUME NEW x \in Int, NEW y \in Int, x <= y
  PROVE  ToSize(x) <= ToSize(y)
<1>1. SizeMax \in Nat /\ Fine \in Nat \ {0}
    BY SizeTextAssumption
<1>2. ToSize(x) \in 0 .. SizeMax /\ ToSize(y) \in 0 .. SizeMax
    BY ToSizeMeaning
<1>3. CASE x < 0
    BY <1>1, <1>2, <1>3, ToSizeMeaning
<1>4. CASE x >= 0
  <2> DEFINE i == x \div Fine
             j == y \div Fine
  <2>1. x \in Nat /\ y \in Nat
      BY <1>4
  <2>2. i \in Nat /\ x % Fine \in 0 .. Fine - 1 /\ x = i * Fine + (x % Fine)
      BY <1>1, <2>1, Division
  <2>3. j \in Nat /\ y % Fine \in 0 .. Fine - 1 /\ y = j * Fine + (y % Fine)
      BY <1>1, <2>1, Division
  <2>4. ToSize(x) = i \/ (ToSize(x) = SizeMax /\ SizeMax <= i)
      BY <1>4, ToSizeMeaning
  <2>5. ToSize(y) = j \/ (ToSize(y) = SizeMax /\ SizeMax <= j)
      BY <2>1, ToSizeMeaning
  <2> HIDE DEF i, j
  <2>6. i <= j
    <3> SUFFICES ASSUME j < i PROVE FALSE
        BY <2>2, <2>3
    <3>1. j * Fine + Fine <= i * Fine
        BY <1>1, <2>2, <2>3, MultiplesApart
    <3>2. i * Fine \in Nat /\ j * Fine \in Nat
        BY <1>1, <2>2, <2>3
    <3> QED BY <1>1, <2>1, <2>2, <2>3, <3>1, <3>2
  <2> QED BY <1>1, <1>2, <2>2, <2>3, <2>4, <2>5, <2>6
<1> QED BY <1>3, <1>4

(* Less than a byte is no byte.                                            *)
LEMMA ToSizeSmall ==
  ASSUME NEW x \in Int, x < Fine
  PROVE  ToSize(x) = 0
<1>1. SizeMax \in Nat /\ Fine \in Nat \ {0}
    BY SizeTextAssumption
<1>2. CASE x < 0
    BY <1>2, ToSizeMeaning
<1>3. CASE x >= 0
  <2>1. x \in Nat /\ x \in 0 .. Fine - 1 /\ x = 0 * Fine + x
      BY <1>1, <1>3
  <2>2. x \div Fine = 0
      BY <1>1, <2>1, DivisionUnique
  <2> QED BY <1>1, <1>3, <2>2, ToSizeMeaning
<1> QED BY <1>2, <1>3

(* A size in bytes.                                                        *)
LEMMA InBytesType ==
  ASSUME NEW x \in Numerals, NEW written
  PROVE  InBytes(x, written) \in 0 .. SizeMax
<1>1. CASE Value[x] = NaN
    BY <1>1, SizeTextAssumption DEF InBytes
<1>2. CASE Value[x] # NaN
  <2>1. Value[x] \in Int
      BY <1>2, SizeTextAssumption
  <2>2. Nearest(Value[x]) * Multiplier(written) \in Int
    <3>1. Nearest(Value[x]) \in Int /\ Multiplier(written) \in Nat
        BY <2>1, NearestType, MultiplierType
    <3> QED BY <3>1
  <2> QED BY <1>2, <2>2, ToSizeMeaning DEF InBytes
<1> QED BY <1>1, <1>2

(* The largest number of the least spacing is an f64.                      *)
LEMMA NearestFinest == Nearest(Finest) = Finest
<1>1. Finest \in Nat /\ Precision \in Nat /\ Finest = Precision * Spacing[Finest]
    BY FinestType, SpacingUnfolds
<1> QED BY <1>1, NearestExact

(* Up to there, numbers are less than a byte in every unit.                *)
LEMMA SmallProduct ==
  ASSUME NEW written
  PROVE  Finest * Multiplier(written) \in Nat /\ Finest * Multiplier(written) < Fine
<1> DEFINE M == Multiplier(written)
           a == Finest * M
           b == Finest * (Thousand * Thousand * Thousand)
<1>1. Finest \in Nat /\ M \in Nat /\ a <= b
    BY FinestType, MultiplierType
<1>2. b < Fine /\ b \in Nat /\ Fine \in Nat
  <2>1. Thousand * Thousand * Thousand \in Nat
      BY SizeTextAssumption
  <2> QED BY <2>1, <1>1, FinestAssumption, SizeTextAssumption
<1>3. a \in Nat
    BY <1>1
<1> HIDE DEF a, b
<1>4. a < Fine
    BY <1>1, <1>2, <1>3
<1> QED BY <1>3, <1>4 DEF a, M

LEMMA InBytesSmall ==
  ASSUME NEW x \in Numerals, NEW written, Value[x] # NaN, Value[x] <= Finest
  PROVE  InBytes(x, written) = 0
<1> DEFINE w == Value[x]
           n == Nearest(w)
           M == Multiplier(written)
<1>1. w \in Int /\ n \in Int /\ M \in Nat \ {0} /\ Finest \in Nat /\ Fine \in Nat \ {0}
    BY SizeTextAssumption, NearestType, MultiplierType, FinestType
<1>2. InBytes(x, written) = ToSize(n * M)
    BY DEF InBytes
<1>3. n <= Finest
    BY <1>1, NearestKeepsOrder, NearestFinest
<1>4. Finest * M \in Nat /\ Finest * M < Fine
    BY SmallProduct
<1> HIDE DEF w, n, M
<1>5. M * n <= M * Finest
    BY <1>1, <1>3, ProductKeepsOrder
<1>6. M * n = n * M /\ M * Finest = Finest * M /\ n * M \in Int
    BY <1>1
<1>7. n * M < Fine
    BY <1>1, <1>4, <1>5, <1>6
<1> QED BY <1>2, <1>6, <1>7, ToSizeSmall

(* The order of two sizes, in whichever units.                             *)
LEMMA InBytesKeepsOrder ==
  ASSUME NEW x \in Numerals, NEW y \in Numerals, NEW u, NEW v,
         Value[x] # NaN, Value[y] # NaN,
         Value[x] * Multiplier(u) <= Value[y] * Multiplier(v)
  PROVE  InBytes(x, u) <= InBytes(y, v)
<1> DEFINE i == Value[x]
           j == Value[y]
           K == Multiplier(u)
           M == Multiplier(v)
           a == i * K
           b == j * M
<1>1. /\ i \in Int /\ j \in Int /\ K \in Nat \ {0} /\ M \in Nat \ {0}
      /\ Finest \in Nat \ {0} /\ Fine \in Nat \ {0} /\ a <= b
    BY SizeTextAssumption, MultiplierType, FinestType
<1>2. InBytes(x, u) = ToSize(Nearest(i) * K) /\ InBytes(y, v) = ToSize(Nearest(j) * M)
    BY DEF InBytes
<1>3. InBytes(x, u) \in Nat /\ InBytes(y, v) \in Nat
  <2>1. SizeMax \in Nat
      BY SizeTextAssumption
  <2> QED BY <2>1, InBytesType
<1>4. i <= Finest => InBytes(x, u) = 0
    BY InBytesSmall
<1>5. i >= Finest => Nearest(a) = Nearest(i) * K
    BY <1>1, NearestMultiplies
<1>6. j >= Finest => Nearest(b) = Nearest(j) * M
    BY <1>1, NearestMultiplies
<1>7. Nearest(Finest * M) = Finest * M /\ Finest * M \in Nat /\ Finest * M < Fine
    BY <1>1, NearestMultiplies, NearestFinest, SmallProduct
<1>8. a \in Int /\ b \in Int /\ b = M * j /\ Finest * M = M * Finest
    BY <1>1
<1> HIDE DEF i, j, K, M
<1>9. j <= Finest => b <= Finest * M
    BY <1>1, <1>8, ProductKeepsOrder DEF b
<1> HIDE DEF a, b
<1>10. CASE i <= Finest
    BY <1>3, <1>4, <1>10
<1>11. CASE i > Finest /\ j >= Finest
  <2>1. Nearest(a) \in Int /\ Nearest(b) \in Int /\ Nearest(a) <= Nearest(b)
      BY <1>1, <1>8, NearestType, NearestKeepsOrder
  <2>2. ToSize(Nearest(a)) <= ToSize(Nearest(b))
      BY <2>1, ToSizeKeepsOrder
  <2>3. Nearest(a) = Nearest(i) * K /\ Nearest(b) = Nearest(j) * M
      BY <1>1, <1>5, <1>6, <1>11
  <2> QED BY <1>2, <2>2, <2>3
<1>12. CASE i > Finest /\ j < Finest
  <2>1. a <= Finest * M
      BY <1>1, <1>7, <1>8, <1>9, <1>12
  <2>2. Nearest(a) \in Int /\ Nearest(a) <= Finest * M
      BY <1>7, <1>8, <2>1, NearestType, NearestKeepsOrder
  <2>3. Nearest(a) < Fine
      BY <1>1, <1>7, <2>2
  <2>4. ToSize(Nearest(a)) = 0
      BY <2>2, <2>3, ToSizeSmall
  <2>5. Nearest(a) = Nearest(i) * K
      BY <1>1, <1>5, <1>12
  <2> QED BY <1>2, <1>3, <2>4, <2>5
<1> QED BY <1>1, <1>10, <1>11, <1>12

(* A text that is accepted starts with its numeral.                        *)
LEMMA AcceptedText ==
  ASSUME SizeOf(text) # Invalid
  PROVE  /\ NumeralOf(text) \in Numerals
         /\ SizeOf(text) = InBytes(NumeralOf(text), UnitOf(text))
<1>1. PICK unit_ \in Prefixes \union {Byte} : IsSize(text, unit_)
    BY DEF SizeOf
<1>2. Full # <<>> /\ Full[1] \in Numerals
    BY <1>1 DEF IsSize, Full
<1>3. NumeralOf(text) = Full[1]
    BY <1>2 DEF NumeralOf, Full
<1> QED BY <1>1, <1>2, <1>3 DEF SizeOf

(* A number is rounded by one part in Precision at most.                   *)
LEMMA NearestAccurate ==
  ASSUME NEW w \in Nat, w > Finest
  PROVE  Precision * (w - Nearest(w)) <= w /\ Precision * (Nearest(w) - w) <= w
<1> DEFINE u == Spacing[w]
           n == Nearest(w)
<1>1. Precision \in Nat \ {0} /\ u \in Nat \ {0} /\ n \in Nat
    BY FinestType, SpacingType, NearestNat
<1>2. u # Least
  <2>1. ~(w <= Finest) /\ Least \in Nat \ {0}
      BY FinestType
  <2>2. (w + 1) \div 2 \in Nat /\ u = 2 * Spacing[(w + 1) \div 2]
      BY <2>1, Half, SpacingUnfolds
  <2>3. Spacing[(w + 1) \div 2] \in Nat /\ Spacing[(w + 1) \div 2] >= Least
      BY <2>2, SpacingMultiple, SpacingType
  <2> QED BY <2>1, <2>2, <2>3
<1>3. 2 * w > Precision * u
    BY <1>2, SpacingBounds
<1>4. 2 * w - 2 * n <= u /\ 2 * n - 2 * w <= u
    BY <1>1, NearestNat, RoundShape
<1> HIDE DEF u, n
<1>5. Precision * (2 * w - 2 * n) <= Precision * u /\ Precision * (2 * n - 2 * w) <= Precision * u
    BY <1>1, <1>4, ProductKeepsOrder
<1>6. /\ Precision * (2 * w - 2 * n) = 2 * (Precision * (w - n))
      /\ Precision * (2 * n - 2 * w) = 2 * (Precision * (n - w))
      /\ Precision * u \in Nat /\ Precision * (w - n) \in Int /\ Precision * (n - w) \in Int
    BY <1>1
<1>7. Precision * (w - n) <= w /\ Precision * (n - w) <= w
    BY <1>3, <1>5, <1>6
<1> QED BY <1>7 DEF n

(* Whole bytes that the mantissa holds are not rounded.                    *)
LEMMA WholeBytes ==
  ASSUME NEW w \in Nat, w % Fine = 0, w <= Precision * Fine
  PROVE  /\ Nearest(w) = w
         /\ \A m \in Nat : w * m = ((w * m) \div Fine) * Fine
<1> DEFINE c == w \div Fine
           u == Spacing[w]
           top == Precision * Fine
<1>1. Fine \in Nat \ {0} /\ Precision \in Nat \ {0} /\ top \in Nat
    BY SizeTextAssumption
<1>2. c \in Nat /\ w = c * Fine
    BY <1>1, Division
<1>3. Spacing[top] = Fine
    BY PowersAssumption
<1>4. w \in 0 .. top
    BY <1>1
<1> HIDE DEF top
<1>5. PICK k \in Nat \ {0} : Spacing[top] = k * u
    BY <1>1, <1>4, SpacingGrows
<1>6. u \in Nat
    BY SpacingType
<1>7. Nearest(w) = w
  <2> HIDE DEF u, c
  <2>1. w = (c * k) * u /\ c * k \in Nat
      BY <1>2, <1>3, <1>5, <1>6
  <2> QED BY <2>1, NearestExact DEF u
<1>8. ASSUME NEW m \in Nat PROVE w * m = ((w * m) \div Fine) * Fine
  <2> DEFINE x == w * m
             q == c * m
  <2> HIDE DEF c
  <2>1. x \in Nat /\ q \in Nat /\ x = q * Fine /\ x = q * Fine + 0 /\ 0 \in 0 .. Fine - 1
      BY <1>1, <1>2
  <2> HIDE DEF x, q
  <2>2. x \div Fine = q
      BY <1>1, <2>1, DivisionUnique
  <2> QED BY <2>1, <2>2 DEF x
<1> QED BY <1>7, <1>8

(* The same in bytes, after the fraction of a byte has been cut off.       *)
LEMMA InBytesAccurate ==
  ASSUME NEW x \in Numerals, NEW written, Value[x] # NaN, Value[x] >= 0
  PROVE  LET exact == Value[x] * Multiplier(written)
             result_ == InBytes(x, written)
             off == exact - Fine * result_
         IN  \/ result_ = SizeMax /\ off >= 0
             \/ /\ Precision * off < exact + Precision * Fine
                /\ -Precision * off <= exact
                /\ Value[x] % Fine = 0 /\ Value[x] <= Precision * Fine => off = 0
<1> DEFINE w == Value[x]
           M == Multiplier(written)
           n == Nearest(w)
           t == n * M
           exact == w * M
           r == InBytes(x, written)
           off == exact - Fine * r
           Whole == w % Fine = 0 /\ w <= Precision * Fine
<1>1. /\ w \in Nat /\ Fine \in Nat \ {0} /\ Precision \in Nat \ {0} /\ SizeMax \in Nat
      /\ Finest \in Nat
    BY SizeTextAssumption, FinestType
<1>2. M \in Nat \ {0} /\ n \in Nat
    BY <1>1, MultiplierType, NearestNat
<1>3. t \in Nat /\ exact \in Nat
    BY <1>1, <1>2
<1>4. r \in 0 .. SizeMax /\ (r = t \div Fine \/ (r = SizeMax /\ SizeMax <= t \div Fine))
    BY <1>3, ToSizeMeaning DEF InBytes
<1>5. w > Finest => Precision * (w - n) <= w /\ Precision * (n - w) <= w
    BY <1>1, NearestAccurate
<1>6. Whole => n = w /\ exact = (exact \div Fine) * Fine
    BY <1>1, <1>2, WholeBytes
<1>7. w <= Finest => r = 0
    BY InBytesSmall
<1>8. Finest * M \in Nat /\ Finest * M < Fine
    BY SmallProduct
<1> HIDE DEF w, M, n, r, Whole
<1>9. Whole => exact = t /\ t = (t \div Fine) * Fine
    BY <1>6
<1>10. -Precision * off = -(Precision * off) /\ Precision * off \in Int /\ off \in Int
         /\ Precision * Fine \in Nat \ {0}
    BY <1>1, <1>3, <1>4
<1> SUFFICES \/ r = SizeMax /\ off >= 0
             \/ /\ Precision * off < exact + Precision * Fine
                /\ -(Precision * off) <= exact
                /\ Whole => off = 0
    BY <1>10 DEF w, M, r, Whole
<1>11. CASE w <= Finest
  <2>1. exact <= Finest * M
    <3>1. M * w <= M * Finest
        BY <1>1, <1>2, <1>11, ProductKeepsOrder
    <3>2. M * w = exact /\ M * Finest = Finest * M
        BY <1>1, <1>2
    <3> QED BY <3>1, <3>2
  <2>2. r = 0
      BY <1>7, <1>11
  <2> HIDE DEF exact
  <2>3. off = exact /\ exact < Fine
      BY <1>1, <1>3, <1>8, <2>1, <2>2
  <2>4. 0 <= Precision * exact /\ Precision * exact < Precision * Fine
    <3>1. Precision * exact <= Precision * (Fine - 1) /\ Precision * 0 <= Precision * exact
        BY <1>1, <1>3, <2>3, ProductKeepsOrder
    <3>2. /\ Precision * (Fine - 1) = Precision * Fine - Precision /\ Precision * 0 = 0
          /\ Precision * Fine \in Nat /\ Precision * exact \in Nat
        BY <1>1, <1>3
    <3> QED BY <1>1, <3>1, <3>2
  <2>5. Whole => exact = 0
    <3> SUFFICES ASSUME Whole PROVE exact = 0
        OBVIOUS
    <3>1. exact = 0 * Fine + exact /\ exact \in 0 .. Fine - 1
        BY <1>1, <1>3, <2>3
    <3>2. exact \div Fine = 0
        BY <1>1, <1>3, <3>1, DivisionUnique
    <3>3. exact = (exact \div Fine) * Fine
        BY <1>9
    <3> QED BY <1>1, <3>2, <3>3
  <2> HIDE DEF off
  <2>6. Precision * off \in Nat /\ Precision * off < Precision * Fine
      BY <1>1, <1>3, <2>3, <2>4
  <2> QED BY <1>3, <1>10, <2>3, <2>5, <2>6
<1>12. CASE w > Finest
  <2>1. Precision * (exact - t) <= exact /\ Precision * (t - exact) <= exact
    <3>1. M * (Precision * (w - n)) <= M * w /\ M * (Precision * (n - w)) <= M * w
        BY <1>1, <1>2, <1>5, <1>12, ProductKeepsOrder
    <3>2. /\ M * (Precision * (w - n)) = Precision * (exact - t)
          /\ M * (Precision * (n - w)) = Precision * (t - exact) /\ M * w = exact
        BY <1>1, <1>2
    <3> QED BY <3>1, <3>2
  <2> HIDE DEF t, exact
  <2> DEFINE g == t - Fine * r
  <2>2. g \in Int /\ off = (exact - t) + g
      BY <1>1, <1>3, <1>4
  <2>3. /\ Precision * off = Precision * (exact - t) + Precision * g /\ Precision * g \in Int
        /\ Precision * (exact - t) \in Int /\ Precision * (t - exact) = -(Precision * (exact - t))
      BY <1>1, <1>3, <2>2
  <2>4. CASE r = t \div Fine
    <3>1. t % Fine \in 0 .. Fine - 1 /\ t = r * Fine + (t % Fine)
        BY <1>1, <1>3, <2>4, Division
    <3>2. g \in 0 .. Fine - 1
        BY <1>1, <1>4, <3>1
    <3>3. Whole => off = 0
      <4> SUFFICES ASSUME Whole PROVE off = 0
          OBVIOUS
      <4>1. exact = t /\ t = r * Fine
          BY <1>9, <2>4
      <4> QED BY <1>1, <1>3, <1>4, <4>1
    <3> HIDE DEF g, off
    <3>4. 0 <= Precision * g /\ Precision * g < Precision * Fine
      <4>1. Precision * g <= Precision * (Fine - 1) /\ Precision * 0 <= Precision * g
          BY <1>1, <3>2, ProductKeepsOrder
      <4>2. Precision * (Fine - 1) = Precision * Fine - Precision /\ Precision * 0 = 0
              /\ Precision * Fine \in Nat
          BY <1>1
      <4> QED BY <1>1, <2>3, <4>1, <4>2
    <3>5. Precision * off < exact + Precision * Fine /\ -(Precision * off) <= exact
        BY <1>3, <1>10, <2>1, <2>3, <3>4
    <3> QED BY <3>3, <3>5
  <2>5. CASE r = SizeMax /\ SizeMax <= t \div Fine
    <3> DEFINE c == t \div Fine
    <3>1. c \in Nat /\ t % Fine \in 0 .. Fine - 1 /\ t = c * Fine + (t % Fine)
        BY <1>1, <1>3, Division
    <3>2. Fine * r <= t
      <4> HIDE DEF c
      <4>1. Fine * SizeMax <= Fine * c
          BY <1>1, <2>5, <3>1, ProductKeepsOrder DEF c
      <4>2. Fine * c = c * Fine /\ c * Fine \in Nat /\ Fine * SizeMax \in Nat
          BY <1>1, <3>1
      <4>3. c * Fine <= t
          BY <1>3, <3>1, <4>2, <1>1
      <4> QED BY <1>3, <2>5, <4>1, <4>2, <4>3
    <3>3. g >= 0
        BY <1>1, <1>3, <1>4, <3>2
    <3> HIDE DEF g, off
    <3>4. CASE off < 0
      <4>1. ~Whole
          BY <1>3, <1>9, <2>2, <3>3, <3>4
      <4>2. 0 <= Precision * g /\ Precision * off <= 0
        <5>1. Precision * 0 <= Precision * g /\ Precision * off <= Precision * 0 /\ Precision * 0 = 0
            BY <1>1, <1>10, <2>2, <3>3, <3>4, ProductKeepsOrder
        <5> QED BY <5>1
      <4>3. Precision * off < exact + Precision * Fine /\ -(Precision * off) <= exact
          BY <1>3, <1>10, <2>1, <2>3, <4>2
      <4> QED BY <4>1, <4>3
    <3> QED BY <1>10, <2>5, <3>4
  <2> QED BY <1>4, <2>4, <2>5
<1> QED BY <1>1, <1>11, <1>12

-------------------------------------------------------------------------------
(* What the sizes have in common.                                          *)

(* A range tells its length.                                               *)
LEMMA SameRange ==
  ASSUME NEW m \in Nat, NEW n \in Nat, 1 .. m = 1 .. n
  PROVE  m = n
<1>1. m \in 0 .. n
  <2>1. m = 0 \/ m \in 1 .. m
      OBVIOUS
  <2> QED BY <2>1
<1>2. n \in 0 .. m
  <2>1. n = 0 \/ n \in 1 .. n
      OBVIOUS
  <2> QED BY <2>1
<1> QED BY <1>1, <1>2

(* Upper case and trimming leave no longer text.                           *)
LEMMA FullIsShort ==
  ASSUME TypeInv
  PROVE  Len(text) \in Nat /\ Len(Full) \in Nat /\ Len(Full) <= Len(text)
<1> DEFINE p == UpperCase(text)
<1>1. text \in Seq(Tokens) /\ p \in Seq(Tokens)
    BY UpperCaseType, TextsAssumption DEF TypeInv
<1>2. /\ Len(text) \in Nat /\ DOMAIN text = 1 .. Len(text)
      /\ Len(p) \in Nat /\ DOMAIN p = 1 .. Len(p) /\ DOMAIN p = DOMAIN text
  <2>1. DOMAIN p = DOMAIN text
      BY DEF UpperCase
  <2> HIDE DEF p
  <2> QED BY <1>1, <2>1, LenProperties
<1>3. \A i \in 1 .. Len(p) : p[i] \in Tokens
    BY <1>1, ElementOfSeq
<1>4. Len(p) = Len(text)
  <2> HIDE DEF p
  <2>1. 1 .. Len(p) = 1 .. Len(text)
      BY <1>2
  <2> QED BY <1>2, <2>1, SameRange
<1>5. CASE Full = <<>>
    BY <1>2, <1>5, EmptySeq
<1>6. ASSUME NEW a \in 1 .. Len(p), NEW b \in 1 .. Len(p), a <= b, Full = SubSeq(p, a, b)
      PROVE  Len(Full) \in Nat /\ Len(Full) <= Len(p)
  <2>1. \A i \in a .. b : p[i] \in Tokens
      BY <1>2, <1>3
  <2>2. Len(Full) = b - a + 1
      BY <1>2, <1>6, <2>1, SubSeqProperties
  <2> QED BY <1>2, <2>2
<1> QED BY <1>1, <1>2, <1>4, <1>5, <1>6, TrimMeaning DEF Full

(* What parse_size returns is a number of bytes that a u64 holds, or an    *)
(* error; what is left of the text is a text, and no longer than the       *)
(* argument (cli.rs:260-282).                                              *)
THEOREM SizesTypeCorrect == Safe => []TypeOK
<1>1. Init => TypeOK
  <2> SUFFICES ASSUME Init PROVE TypeOK
      OBVIOUS
  <2>1. text \in Seq(Tokens) /\ Len(text) \in Nat
      BY TextsAssumption, LenProperties DEF Init
  <2> QED BY <2>1 DEF Init, TypeOK
<1>2. SizesInv /\ SizesInv' /\ TypeOK /\ [Next]_vars => TypeOK'
  <2> SUFFICES ASSUME SizesInv, SizesInv', TypeOK, [Next]_vars PROVE TypeOK'
      OBVIOUS
  <2>1. TypeInv /\ TypeInv'
      BY DEF SizesInv
  <2>2. at' \in {"case", "unit", "long", "short", "number", "done"}
      BY DEF TypeOK, Next, vars, Normalise, InPrefix, InByte, NoUnit, ChopLong, EndLong,
             ChopShort, EndShort, Chop, GoOn, Read, Returned
  <2>3. result' \in 0 .. SizeMax \union {Invalid}
    <3>1. CASE Read
        BY <2>1, <3>1, InBytesType DEF Read
    <3>2. CASE ~Read
      <4>1. result' = result
          BY <3>2 DEF Next, vars, Normalise, InPrefix, InByte, NoUnit, ChopLong, EndLong,
                 ChopShort, EndShort, Chop, GoOn, Returned
      <4> QED BY <4>1 DEF TypeOK
    <3> QED BY <3>1, <3>2
  <2>4. text' = text
      BY DEF Next, vars, Normalise, InPrefix, InByte, NoUnit, ChopLong, EndLong,
             ChopShort, EndShort, Chop, GoOn, Read, Returned
  <2>5. Len(s') <= Len(text')
    <3>1. CASE at' \in {"unit", "long", "short", "number"}
      <4>1. Len(s') <= Len(Full')
          BY <3>1 DEF SizesInv
      <4>2. Full' = Full
          BY <2>4 DEF Full
      <4>3. s' \in Seq(Tokens)
          BY <2>1 DEF TypeInv
      <4>4. Len(s') \in Nat
          BY <4>3, LenProperties
      <4> QED BY <2>1, <2>4, <4>1, <4>2, <4>4, FullIsShort
    <3>2. CASE at' \in {"case", "done"}
      <4>1. s' = s
          BY <3>2 DEF Next, vars, Normalise, InPrefix, InByte, NoUnit, ChopLong, EndLong,
                 ChopShort, EndShort, Chop, GoOn, Read, Returned, TypeOK
      <4> QED BY <2>4, <4>1 DEF TypeOK
    <3> QED BY <2>2, <3>1, <3>2
  <2> QED BY <2>1, <2>2, <2>3, <2>5 DEF TypeInv, TypeOK
<1> QED BY <1>1, <1>2, SizesInvAlways, PTL DEF Safe

(* Whatever the units, the precision and the width, two sizes are in bytes *)
(* in the order in which the user wrote them: a range that is not empty on *)
(* the command line is not turned round (cli.rs:280).                      *)
THEOREM OrderCorrect == Safe => []OrderKept
<1>1. SizesInv => OrderKept
  <2> SUFFICES ASSUME SizesInv, at = "done", result # Invalid, Value[NumeralOf(text)] # NaN,
                      NEW y \in Numerals, NEW v \in Prefixes \union {Byte}, Value[y] # NaN,
                      Value[NumeralOf(text)] * Multiplier(UnitOf(text)) <= Value[y] * Multiplier(v)
               PROVE  result <= InBytes(y, v)
      BY DEF OrderKept
  <2>1. result = SizeOf(text)
      BY DEF SizesInv, SizeMeaning
  <2>2. NumeralOf(text) \in Numerals /\ result = InBytes(NumeralOf(text), UnitOf(text))
      BY <2>1, AcceptedText
  <2> QED BY <2>2, InBytesKeepsOrder
<1> QED BY <1>1, SizesInvAlways, PTL

(* A size that is not negative and that a u64 holds is off by less than a  *)
(* byte and one part in the precision of an f64, whatever decimal it is    *)
(* written as, and not at all if it is a whole number of bytes, K, M or G  *)
(* that a mantissa holds (cli.rs:279-281).                                 *)
THEOREM AccurateCorrect == Safe => []Accurate
<1>1. SizesInv => Accurate
  <2> SUFFICES ASSUME SizesInv, at = "done", result # Invalid,
                      Value[NumeralOf(text)] # NaN, Value[NumeralOf(text)] >= 0
               PROVE  LET written == Value[NumeralOf(text)]
                          exact == written * Multiplier(UnitOf(text))
                          off == exact - Fine * result
                      IN  \/ result = SizeMax /\ off >= 0
                          \/ /\ Precision * off < exact + Precision * Fine
                             /\ -Precision * off <= exact
                             /\ written % Fine = 0 /\ written <= Precision * Fine => off = 0
      BY DEF Accurate
  <2>1. result = SizeOf(text)
      BY DEF SizesInv, SizeMeaning
  <2>2. NumeralOf(text) \in Numerals /\ result = InBytes(NumeralOf(text), UnitOf(text))
      BY <2>1, AcceptedText
  <2> DEFINE x == NumeralOf(text)
             u == UnitOf(text)
  <2>3. x \in Numerals /\ result = InBytes(x, u) /\ Value[x] # NaN /\ Value[x] >= 0
      BY <2>2
  <2> HIDE DEF x, u
  <2>4. LET exact == Value[x] * Multiplier(u)
            off == exact - Fine * result
        IN  \/ result = SizeMax /\ off >= 0
            \/ /\ Precision * off < exact + Precision * Fine
               /\ -Precision * off <= exact
               /\ Value[x] % Fine = 0 /\ Value[x] <= Precision * Fine => off = 0
      BY <2>3, InBytesAccurate
  <2> QED BY <2>4 DEF x, u
<1> QED BY <1>1, SizesInvAlways, PTL
===============================================================================
