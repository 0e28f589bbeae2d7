----------------------------- MODULE FilterLemmas -----------------------------
(***************************************************************************)
(* What the name filters written by hand mean, for every pattern and every *)
(* name.                                                                   *)
(***************************************************************************)
EXTENDS Filters, BasicLemmas

(* A pattern without special characters matches itself only.               *)
LEMMA PlainMeaning ==
  ASSUME NEW p \in Seq(Chars), NEW n \in Seq(Chars),
         \A k \in 1 .. Len(p) : p[k] # Star /\ p[k] # Query
  PROVE  Matches(p, n) <=> p = n
<1>0. Len(p) \in Nat /\ Len(n) \in Nat
    OBVIOUS
<1>1. ASSUME Matches(p, n) PROVE p = n
  <2>1. PICK c \in [0 .. Len(p) -> 0 .. Len(n)] :
               c[0] = 0 /\ c[Len(p)] = Len(n) /\ Cuts(p, n, 0, c)
      BY <1>1 DEF Matches, MatchesFrom
  <2>2. \A k \in 1 .. Len(p) : c[k] = k
    <3> SUFFICES ASSUME NEW k \in 1 .. Len(p) PROVE c[k] = k
        OBVIOUS
    <3>1. 0 \in 0 .. Len(p) /\ k \in 0 .. Len(p) /\ 0 < k /\ \A m \in 0 + 1 .. k : p[m] # Star
        BY <1>0
    <3>2. c[k] = c[0] + (k - 0)
        BY <2>1, <3>1 DEF Cuts
    <3> QED BY <2>1, <3>2
  <2>3. Len(p) = Len(n)
      BY <1>0, <2>1, <2>2
  <2>4. \A k \in 1 .. Len(p) : n[k] = p[k]
      BY <2>1, <2>2 DEF Cuts
  <2> QED BY <2>3, <2>4
<1>2. ASSUME p = n PROVE Matches(p, n)
  <2> DEFINE c == [k \in 0 .. Len(p) |-> k]
  <2>1. c \in [0 .. Len(p) -> 0 .. Len(n)] /\ c[0] = 0 /\ c[Len(p)] = Len(n)
      BY <1>0, <1>2
  <2>2. Cuts(p, n, 0, c)
      BY <1>0, <1>2 DEF Cuts
  <2> QED BY <2>1, <2>2 DEF Matches, MatchesFrom
<1> QED BY <1>1, <1>2

(* A star and behind it nothing special: what the name ends in.            *)
LEMMA SuffixMeaning ==
  ASSUME NEW p \in Seq(Chars), NEW n \in Seq(Chars), Len(p) > 0, p[1] = Star,
         \A k \in 2 .. Len(p) : p[k] # Star /\ p[k] # Query
  PROVE  Matches(p, n) <=>
           /\ Len(n) >= Len(p) - 1
           /\ \A k \in 2 .. Len(p) : n[Len(n) - Len(p) + k] = p[k]
<1>0. Len(p) \in Nat /\ Len(n) \in Nat
    OBVIOUS
<1>1. ASSUME Matches(p, n)
      PROVE  /\ Len(n) >= Len(p) - 1
             /\ \A k \in 2 .. Len(p) : n[Len(n) - Len(p) + k] = p[k]
  <2>1. PICK c \in [0 .. Len(p) -> 0 .. Len(n)] :
               c[0] = 0 /\ c[Len(p)] = Len(n) /\ Cuts(p, n, 0, c)
      BY <1>1 DEF Matches, MatchesFrom
  <2>2. \A k \in 2 .. Len(p) : c[k] = c[1] + (k - 1)
    <3> SUFFICES ASSUME NEW k \in 2 .. Len(p) PROVE c[k] = c[1] + (k - 1)
        OBVIOUS
    <3>1. 1 \in 0 .. Len(p) /\ k \in 0 .. Len(p) /\ 1 < k /\ \A m \in 1 + 1 .. k : p[m] # Star
        BY <1>0
    <3> QED BY <2>1, <3>1 DEF Cuts
  <2>3. c[1] \in Nat /\ c[Len(p)] = c[1] + (Len(p) - 1)
    <3>1. 1 \in 0 .. Len(p) /\ c[1] \in 0 .. Len(n)
        BY <1>0
    <3>2. CASE Len(p) = 1
        BY <3>1, <3>2
    <3>3. CASE Len(p) # 1
        BY <1>0, <2>2, <3>1, <3>3
    <3> QED BY <3>2, <3>3
  <2>4. c[1] = Len(n) - Len(p) + 1
      BY <1>0, <2>1, <2>3
  <2>5. ASSUME NEW k \in 2 .. Len(p) PROVE n[Len(n) - Len(p) + k] = p[k]
    <3>1. c[k] = Len(n) - Len(p) + k
        BY <1>0, <2>2, <2>4
    <3>2. k \in 0 + 1 .. Len(p)
        BY <1>0
    <3>3. n[c[k]] = p[k]
        BY <2>1, <3>2 DEF Cuts
    <3> QED BY <3>1, <3>3
  <2> QED BY <1>0, <2>3, <2>4, <2>5
<1>2. ASSUME Len(n) >= Len(p) - 1, \A k \in 2 .. Len(p) : n[Len(n) - Len(p) + k] = p[k]
      PROVE  Matches(p, n)
  <2> DEFINE c == [k \in 0 .. Len(p) |-> IF k = 0 THEN 0 ELSE Len(n) - Len(p) + k]
  <2>1. \A k \in 0 .. Len(p) : c[k] = IF k = 0 THEN 0 ELSE Len(n) - Len(p) + k
      OBVIOUS
  <2>2. c \in [0 .. Len(p) -> 0 .. Len(n)] /\ c[0] = 0 /\ c[Len(p)] = Len(n)
      BY <1>0, <1>2
  <2> HIDE DEF c
  <2>3. ASSUME NEW k \in 0 .. Len(p), NEW l \in 0 .. Len(p), k < l
        PROVE  /\ c[k] <= c[l]
               /\ (\A m \in k + 1 .. l : p[m] # Star) => c[l] = c[k] + (l - k)
    <3>1. c[k] <= c[l]
        BY <1>0, <1>2, <2>1, <2>3
    <3>2. CASE k = 0
      <4>1. 1 \in k + 1 .. l
          BY <2>3, <3>2
      <4> QED BY <3>1, <4>1
    <3>3. CASE k # 0
      <4>1. c[k] = Len(n) - Len(p) + k /\ c[l] = Len(n) - Len(p) + l
          BY <2>1, <2>3, <3>3
      <4> QED BY <1>0, <3>1, <4>1
    <3> QED BY <3>2, <3>3
  <2>4. ASSUME NEW k \in 0 + 1 .. Len(p), p[k] # Star PROVE n[c[k]] = p[k]
    <3>1. k \in 2 .. Len(p)
        BY <1>0, <2>4
    <3>2. c[k] = Len(n) - Len(p) + k
        BY <2>1, <3>1
    <3> QED BY <1>2, <3>1, <3>2
  <2>5. Cuts(p, n, 0, c)
      BY <2>3, <2>4 DEF Cuts
  <2> QED BY <2>2, <2>5 DEF Matches, MatchesFrom
<1> QED BY <1>1, <1>2

(* An entry of the skip list means what -n would mean by it, when its only *)
(* special character is a leading star.                                    *)
LEMMA SkipMeaning ==
  ASSUME NEW p \in Seq(Chars), NEW n \in Seq(Chars), Query \notin Range(p),
         p # <<>> => StarFree(Tail(p))
  PROVE  SkipMatches(p, n) <=> Matches(p, n)
<1>1. p \in Seq(Chars) /\ n \in Seq(Chars)
    OBVIOUS
<1>2. \A k \in 1 .. Len(p) : p[k] # Query
    BY <1>1 DEF Range
<1>3. \A k \in 2 .. Len(p) : p[k] # Star
  <2> SUFFICES ASSUME NEW k \in 2 .. Len(p) PROVE p[k] # Star
      OBVIOUS
  <2>1. p # <<>> /\ k - 1 \in 1 .. Len(Tail(p)) /\ Tail(p)[k - 1] = p[k]
      BY <1>1
  <2>2. Tail(p) \in Seq(Chars)
      BY <1>1, <2>1
  <2>3. k - 1 \in DOMAIN Tail(p)
      BY <2>1, <2>2, LenProperties
  <2>4. Tail(p)[k - 1] \in Range(Tail(p))
      BY <2>3 DEF Range
  <2> QED BY <2>1, <2>4 DEF StarFree
<1>4. CASE p # <<>> /\ p[1] = Star
  <2>2. Len(p) > 0 /\ Len(p) \in Nat /\ Len(n) \in Nat
      BY <1>1, <1>4
  <2>3. Matches(p, n) <=>
          /\ Len(n) >= Len(p) - 1
          /\ \A k \in 2 .. Len(p) : n[Len(n) - Len(p) + k] = p[k]
      BY <1>1, <1>2, <1>3, <1>4, <2>2, SuffixMeaning
  <2>1. p = n => Matches(p, n)
      BY <2>2, <2>3
  <2>4. ASSUME Len(n) >= Len(p) - 1
        PROVE  SubSeq(n, Len(n) - Len(p) + 2, Len(n)) = Tail(p) <=>
                 \A k \in 2 .. Len(p) : n[Len(n) - Len(p) + k] = p[k]
    <3> DEFINE back == SubSeq(n, Len(n) - Len(p) + 2, Len(n))
    <3>1. \A i \in Len(n) - Len(p) + 2 .. Len(n) : n[i] \in Chars
        BY <1>1, <2>2, <2>4
    <3>2. /\ back \in Seq(Chars) /\ Len(back) = Len(p) - 1
          /\ \A i \in 1 .. Len(p) - 1 : back[i] = n[Len(n) - Len(p) + 1 + i]
      <4> DEFINE lo == Len(n) - Len(p) + 2
      <4>1. lo \in Int /\ Len(n) \in Int
          BY <2>2
      <4> HIDE DEF lo
      <4>2. \A i \in lo .. Len(n) : n[i] \in Chars
          BY <3>1 DEF lo
      <4>3. /\ SubSeq(n, lo, Len(n)) \in Seq(Chars)
            /\ Len(SubSeq(n, lo, Len(n))) = IF lo <= Len(n) THEN Len(n) - lo + 1 ELSE 0
            /\ \A i \in 1 .. Len(n) - lo + 1 : SubSeq(n, lo, Len(n))[i] = n[lo + i - 1]
          BY <4>1, <4>2, SubSeqProperties
      <4>4. Len(n) - lo + 1 = Len(p) - 1 /\ (lo <= Len(n) \/ Len(p) - 1 = 0)
        <5>1. Len(n) - lo + 1 = Len(p) - 1
            BY <2>2 DEF lo
        <5>2. Len(p) = 1 \/ Len(p) >= 2
          <6>1. \A l \in Nat : l > 0 => l = 1 \/ l >= 2
              OBVIOUS
          <6> QED BY <2>2, <6>1
        <5>3. Len(p) >= 2 => lo <= Len(n)
            BY <2>2 DEF lo
        <5> QED BY <5>1, <5>2, <5>3
      <4>5. \A i \in 1 .. Len(p) - 1 : lo + i - 1 = Len(n) - Len(p) + 1 + i
          BY <2>2 DEF lo
      <4>6. Len(back) = Len(p) - 1 /\ back \in Seq(Chars)
          BY <4>3, <4>4 DEF lo
      <4>7. ASSUME NEW i \in 1 .. Len(p) - 1
            PROVE  back[i] = n[Len(n) - Len(p) + 1 + i]
        <5>1. SubSeq(n, lo, Len(n))[i] = n[lo + i - 1]
            BY <4>3, <4>4
        <5> QED BY <4>5, <5>1 DEF lo
      <4> QED BY <4>6, <4>7
    <3>3. /\ Tail(p) \in Seq(Chars) /\ Len(Tail(p)) = Len(p) - 1
          /\ \A i \in 1 .. Len(p) - 1 : Tail(p)[i] = p[i + 1]
        BY <1>1, <1>4
    <3> HIDE DEF back
    <3>4. back = Tail(p) <=> \A i \in 1 .. Len(p) - 1 : back[i] = Tail(p)[i]
        BY <3>2, <3>3, SeqEqual
    <3>5. ASSUME \A i \in 1 .. Len(p) - 1 : back[i] = Tail(p)[i],
                 NEW k \in 2 .. Len(p)
          PROVE  n[Len(n) - Len(p) + k] = p[k]
      <4>1. k - 1 \in 1 .. Len(p) - 1 /\ Len(n) - Len(p) + 1 + (k - 1) = Len(n) - Len(p) + k
              /\ (k - 1) + 1 = k
          BY <2>2
      <4> QED BY <3>2, <3>3, <3>5, <4>1
    <3>6. ASSUME \A k \in 2 .. Len(p) : n[Len(n) - Len(p) + k] = p[k],
                 NEW i \in 1 .. Len(p) - 1
          PROVE  back[i] = Tail(p)[i]
      <4>1. i + 1 \in 2 .. Len(p) /\ Len(n) - Len(p) + (i + 1) = Len(n) - Len(p) + 1 + i
          BY <2>2
      <4> QED BY <3>2, <3>3, <3>6, <4>1
    <3> QED BY <3>4, <3>5, <3>6 DEF back
  <2> QED BY <1>1, <1>4, <2>1, <2>3, <2>4 DEF SkipMatches
<1>5. CASE ~(p # <<>> /\ p[1] = Star)
  <2>1. \A k \in 1 .. Len(p) : p[k] # Star
      BY <1>1, <1>3, <1>5
  <2>2. Matches(p, n) <=> p = n
      BY <1>1, <1>2, <2>1, PlainMeaning
  <2> QED BY <1>1, <1>5, <2>2 DEF SkipMatches
<1> QED BY <1>4, <1>5
===============================================================================
