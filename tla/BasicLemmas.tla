----------------------------- MODULE BasicLemmas ------------------------------
(***************************************************************************)
(* Lemmas about sets of numbers, and about sequences: what the operations  *)
(* on a deque (push at the back, pop at the back, steal at the front) do   *)
(* to the set of its entries.                                              *)
(***************************************************************************)
EXTENDS Integers, Sequences, Functions, FiniteSets, FiniteSetsExt, SequenceTheorems,
        FiniteSetTheorems, TLAPS

-------------------------------------------------------------------------------
(* Sets of numbers.                                                        *)

(* A set of numbers has a least one: of the parts of the set below one of  *)
(* its elements some is included in no other.                              *)
LEMMA LeastNumber ==
  ASSUME NEW T \in SUBSET Nat, T # {}
  PROVE  Min(T) \in T /\ \A y \in T : Min(T) <= y
<1> DEFINE below(x) == {y \in T : y < x}
           C == {below(x) : x \in T}
<1>1. C \subseteq FiniteSubsetsOf(T)
  <2> SUFFICES ASSUME NEW x \in T PROVE below(x) \in FiniteSubsetsOf(T)
      OBVIOUS
  <2>1. IsFiniteSet(below(x))
      BY FS_BoundedSetOfNaturals
  <2> QED BY <2>1 DEF FiniteSubsetsOf
<1>2. C # {}
    OBVIOUS
<1>3. PICK c \in C : \A d \in C : ~(<<d, c>> \in StrictSubsetOrdering(T))
    BY <1>1, <1>2, FS_StrictSubsetOrderingWellFounded, WFMin
<1>4. PICK x \in T : c = below(x)
    OBVIOUS
<1>5. ASSUME NEW y \in T, y < x PROVE FALSE
  <2>1. below(y) \subseteq below(x)
    <3>1. \A z \in T : z \in Nat
        OBVIOUS
    <3>2. \A z \in T : z < y => z < x
        BY <3>1, <1>5
    <3> QED BY <3>2
  <2>2. y \in below(x) /\ y \notin below(y)
      BY <1>5
  <2>3. <<below(y), below(x)>> \in StrictSubsetOrdering(T)
      BY <2>1, <2>2 DEF StrictSubsetOrdering
  <2> QED BY <2>3, <1>3, <1>4
<1>6. \A y \in T : x <= y
    BY <1>5
<1> QED BY <1>6 DEF Min

(* A set of numbers up to n has a greatest one.                            *)
LEMMA GreatestNumber ==
  ASSUME NEW n \in Nat, NEW T \in SUBSET (0 .. n), T # {}
  PROVE  Max(T) \in T /\ \A y \in T : Max(T) >= y
<1> DEFINE D == {n - y : y \in T}
<1>0. \A y \in T : y \in Nat /\ n - y \in Nat
    OBVIOUS
<1>1. D \in SUBSET Nat /\ D # {}
    BY <1>0
<1>2. Min(D) \in D /\ \A d \in D : Min(D) <= d
    BY <1>1, LeastNumber
<1>3. PICK x \in T : Min(D) = n - x
    BY <1>2
<1>4. \A y \in T : x >= y
  <2>1. \A y \in T : n - x <= n - y
      BY <1>2, <1>3
  <2> QED BY <2>1, <1>0
<1> QED BY <1>4 DEF Max

(* A set of numbers that holds each number whose smaller ones it holds.    *)
LEMMA AllNumbers ==
  ASSUME NEW T, \A n \in Nat : (\A m \in Nat : m < n => m \in T) => n \in T
  PROVE  \A n \in Nat : n \in T
<1> DEFINE Bad == {n \in Nat : n \notin T}
<1> SUFFICES ASSUME Bad # {} PROVE FALSE
    OBVIOUS
<1>1. PICK n \in Bad : \A y \in Bad : n <= y
  <2>1. Bad \in SUBSET Nat
      OBVIOUS
  <2> HIDE DEF Bad
  <2> QED BY <2>1, LeastNumber
<1>2. \A m \in Nat : m < n => m \in T
    BY <1>1
<1> QED BY <1>1, <1>2

-------------------------------------------------------------------------------
(* Sequences.                                                              *)

(* Worker::push: what a deque holds after a push at its back.              *)
LEMMA AppendRange ==
  ASSUME NEW S, NEW s \in Seq(S), NEW x \in S
  PROVE  /\ Append(s, x) \in Seq(S)
         /\ Range(Append(s, x)) = Range(s) \union {x}
         /\ IsInjective(s) /\ x \notin Range(s) => IsInjective(Append(s, x))
<1> DEFINE t == Append(s, x)
<1>1. /\ t \in Seq(S) /\ Len(t) = Len(s) + 1 /\ DOMAIN t = 1 .. Len(s) + 1
      /\ DOMAIN s = 1 .. Len(s) /\ Len(s) \in Nat
  BY AppendProperties, LenProperties
<1>2. (\A i \in 1..Len(s) : t[i] = s[i]) /\ t[Len(s)+1] = x
  BY AppendProperties
<1> HIDE DEF t
<1>3. Range(t) = Range(s) \union {x}
  BY <1>1, <1>2 DEF Range
<1>4. IsInjective(s) /\ x \notin Range(s) => IsInjective(t)
  BY <1>1, <1>2 DEF IsInjective, Range
<1> QED BY <1>1, <1>3, <1>4 DEF t

(* Stealer::steal: the head leaves a sequence without repetitions.         *)
LEMMA TailRange ==
  ASSUME NEW S, NEW s \in Seq(S), s # <<>>
  PROVE  /\ Head(s) \in S /\ Tail(s) \in Seq(S)
         /\ Head(s) \in Range(s)
         /\ Len(Tail(s)) = Len(s) - 1
         /\ IsInjective(s) => /\ Range(Tail(s)) = Range(s) \ {Head(s)}
                           /\ IsInjective(Tail(s))
<1> DEFINE t == Tail(s)
<1>1. /\ t \in Seq(S) /\ Len(t) = Len(s) - 1 /\ DOMAIN t = 1 .. Len(s) - 1
      /\ DOMAIN s = 1 .. Len(s) /\ Len(s) \in Nat \ {0}
  BY HeadTailProperties, LenProperties, EmptySeq
<1>2. (\A i \in 1..Len(s)-1 : t[i] = s[i+1]) /\ Head(s) = s[1] /\ Head(s) \in S
  BY HeadTailProperties, <1>1
<1> HIDE DEF t
<1>3. Head(s) \in Range(s)
  BY <1>1, <1>2 DEF Range
<1>4. ASSUME IsInjective(s) PROVE Range(t) = Range(s) \ {Head(s)}
  <2>1. ASSUME NEW i \in DOMAIN t PROVE t[i] \in Range(s) /\ t[i] # Head(s)
    <3>1. i + 1 \in DOMAIN s /\ 1 \in DOMAIN s /\ i + 1 # 1
      BY <1>1
    <3>2. t[i] = s[i+1]
      BY <1>1, <1>2
    <3> QED BY <3>1, <3>2, <1>2, <1>4 DEF IsInjective, Range
  <2>2. ASSUME NEW i \in DOMAIN s, s[i] # Head(s) PROVE s[i] \in Range(t)
    <3>1. i-1 \in DOMAIN t /\ t[i-1] = s[i]
      BY <2>2, <1>1, <1>2
    <3> QED BY <3>1 DEF Range
  <2> QED BY <2>1, <2>2 DEF Range
<1>5. ASSUME IsInjective(s) PROVE IsInjective(t)
  <2> SUFFICES ASSUME NEW i \in DOMAIN t, NEW j \in DOMAIN t, t[i] = t[j]
               PROVE  i = j
    BY DEF IsInjective
  <2>1. i + 1 \in DOMAIN s /\ j + 1 \in DOMAIN s /\ i \in Int /\ j \in Int
    BY <1>1
  <2>2. s[i+1] = s[j+1]
    BY <1>1, <1>2
  <2>3. i + 1 = j + 1
    BY <1>5, <2>1, <2>2 DEF IsInjective
  <2> QED BY <2>1, <2>3
<1> QED BY <1>1, <1>2, <1>3, <1>4, <1>5 DEF t

(* Worker::pop of a LIFO deque: the last entry leaves it.                  *)
LEMMA FrontRange ==
  ASSUME NEW S, NEW s \in Seq(S), s # <<>>
  PROVE  LET last == s[Len(s)]
             front == SubSeq(s, 1, Len(s) - 1)
         IN  /\ last \in S /\ front \in Seq(S)
             /\ last \in Range(s)
             /\ Len(front) = Len(s) - 1
             /\ IsInjective(s) => /\ Range(front) = Range(s) \ {last}
                               /\ IsInjective(front)
<1> DEFINE t == SubSeq(s, 1, Len(s) - 1)
<1>1. DOMAIN s = 1..Len(s) /\ Len(s) \in Nat \ {0} /\ \A i \in 1..Len(s) : s[i] \in S
  BY LenProperties, EmptySeq, ElementOfSeq
<1>2. t \in Seq(S) /\ Len(t) = Len(s) - 1 /\ \A i \in 1..Len(s)-1 : t[i] = s[i]
  BY SubSeqProperties, <1>1
<1>3. DOMAIN t = 1..Len(s)-1
  BY <1>2, LenProperties
<1> HIDE DEF t
<1>4. s[Len(s)] \in Range(s)
  BY <1>1 DEF Range
<1>5. ASSUME IsInjective(s) PROVE Range(t) = Range(s) \ {s[Len(s)]}
  <2>1. Range(t) \subseteq Range(s) \ {s[Len(s)]}
    BY <1>1, <1>2, <1>3, <1>5 DEF IsInjective, Range
  <2>2. ASSUME NEW i \in DOMAIN s, s[i] # s[Len(s)] PROVE s[i] \in Range(t)
    <3>1. i \in DOMAIN t /\ t[i] = s[i]
      BY <2>2, <1>1, <1>2, <1>3
    <3> QED BY <3>1 DEF Range
  <2> QED BY <2>1, <2>2 DEF Range
<1>6. ASSUME IsInjective(s) PROVE IsInjective(t)
  BY <1>1, <1>2, <1>3, <1>6 DEF IsInjective
<1> QED BY <1>1, <1>2, <1>4, <1>5, <1>6 DEF t

(* add_dirs(n) adds the length of child_dirs, which is the number of       *)
(* directories in it because it has no repetitions.                        *)
LEMMA InjectiveCardinality ==
  ASSUME NEW S, NEW s \in Seq(S), IsInjective(s)
  PROVE  IsFiniteSet(Range(s)) /\ Cardinality(Range(s)) = Len(s)
<1>1. DOMAIN s = 1..Len(s) /\ Len(s) \in Nat /\ s \in [1..Len(s) -> S]
  BY LenProperties
<1>2. s \in Bijection(1..Len(s), Range(s))
  BY <1>1 DEF Bijection, Injection, Surjection, Range, IsInjective
<1>3. ExistsBijection(1..Len(s), Range(s))
  BY <1>2 DEF ExistsBijection
<1>4. IsFiniteSet(1..Len(s)) /\ Cardinality(1..Len(s)) = Len(s)
  BY <1>1, FS_Interval
<1> QED BY <1>3, <1>4, FS_Bijection
===============================================================================
