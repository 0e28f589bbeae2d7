----------------------------- MODULE ProgramProofs -----------------------------
(***************************************************************************)
(* The whole program, for every command line, every tree and every way the *)
(* workers run: what a run prints that nothing disturbs is what the        *)
(* documentation promises of the command line.                             *)
(***************************************************************************)
EXTENDS Program, ScanProofs, FilterLemmas

-------------------------------------------------------------------------------
(* The lists made of the user's and the program's.                         *)

(* The recursion of Completed, up to n.                                    *)
IsCompletion(f, own, given, n) ==
  f = [i \in 0 .. n |->
        IF i = 0 THEN own
        ELSE IF given[i] \in Range(f[i - 1]) THEN f[i - 1] ELSE Append(f[i - 1], given[i])]

(* The recursion has a solution.                                           *)
LEMMA CompletionExists ==
  ASSUME NEW own, NEW given
  PROVE  \A n \in Nat : \E f : IsCompletion(f, own, given, n)
<1> DEFINE T == {n \in Nat : \E f : IsCompletion(f, own, given, n)}
<1>1. ASSUME NEW n \in Nat, \A m \in Nat : m < n => m \in T PROVE n \in T
  <2>1. CASE n = 0
    <3> DEFINE f == [i \in 0 .. 0 |-> own]
    <3>1. \A i \in 0 .. 0 : i = 0
        OBVIOUS
    <3>2. IsCompletion(f, own, given, 0)
        BY <3>1 DEF IsCompletion
    <3> QED BY <2>1, <3>2
  <2>2. CASE n # 0
    <3>1. n - 1 \in T
        BY <1>1, <2>2
    <3>2. PICK g : IsCompletion(g, own, given, n - 1)
        BY <3>1
    <3> DEFINE Next1(s, i) == IF given[i] \in Range(s) THEN s ELSE Append(s, given[i])
               f == [i \in 0 .. n |-> IF i = n THEN Next1(g[n - 1], n) ELSE g[i]]
    <3>3. \A i \in 0 .. n - 1 : g[i] = IF i = 0 THEN own ELSE Next1(g[i - 1], i)
        BY <3>2 DEF IsCompletion
    <3> HIDE DEF Next1
    <3>4. ASSUME NEW i \in 0 .. n PROVE f[i] = IF i = 0 THEN own ELSE Next1(f[i - 1], i)
      <4>1. CASE i = n
        <5>1. f[i] = Next1(g[n - 1], n) /\ f[i - 1] = g[n - 1] /\ i # 0
            BY <2>2, <4>1
        <5> QED BY <4>1, <5>1
      <4>2. CASE i # n
        <5>1. i \in 0 .. n - 1 /\ f[i] = g[i]
            BY <4>2
        <5>2. i # 0 => f[i - 1] = g[i - 1]
            BY <4>2
        <5> QED BY <3>3, <5>1, <5>2
      <4> QED BY <4>1, <4>2
    <3>5. f = [i \in 0 .. n |-> f[i]]
        OBVIOUS
    <3> HIDE DEF f
    <3>6. f = [i \in 0 .. n |-> IF i = 0 THEN own ELSE Next1(f[i - 1], i)]
        BY <3>4, <3>5
    <3>7. IsCompletion(f, own, given, n)
        BY <3>6 DEF IsCompletion, Next1
    <3> QED BY <3>7
  <2> QED BY <2>1, <2>2
<1>2. \A n \in Nat : n \in T
  <2> HIDE DEF T
  <2> QED BY <1>1, AllNumbers
<1> QED BY <1>2

(* The list has what either list has.                                      *)
LEMMA CompletedRange ==
  ASSUME NEW S, NEW own \in Seq(S), NEW given \in Seq(S)
  PROVE  /\ Completed(own, given) \in Seq(S)
         /\ Range(Completed(own, given)) = Range(own) \union Range(given)
<1> DEFINE list == CHOOSE f : IsCompletion(f, own, given, Len(given))
           upto(n) == {given[i] : i \in 1 .. n}
           T == {n \in Nat : n <= Len(given) =>
                   list[n] \in Seq(S) /\ Range(list[n]) = Range(own) \union upto(n)}
<1>1. Len(given) \in Nat /\ \A i \in 1 .. Len(given) : given[i] \in S
    BY LenProperties, ElementOfSeq
<1>2. IsCompletion(list, own, given, Len(given))
    BY <1>1, CompletionExists
<1>3. Completed(own, given) = list[Len(given)]
    BY DEF Completed, IsCompletion
<1> HIDE DEF list
<1>4. \A i \in 0 .. Len(given) :
        list[i] = IF i = 0 THEN own
                  ELSE IF given[i] \in Range(list[i - 1]) THEN list[i - 1]
                  ELSE Append(list[i - 1], given[i])
    BY <1>2 DEF IsCompletion
<1>5. ASSUME NEW n \in Nat, \A m \in Nat : m < n => m \in T PROVE n \in T
  <2> SUFFICES ASSUME n <= Len(given)
               PROVE  list[n] \in Seq(S) /\ Range(list[n]) = Range(own) \union upto(n)
      OBVIOUS
  <2>1. CASE n = 0
    <3>1. list[0] = own /\ upto(0) = {}
        BY <1>1, <1>4
    <3> QED BY <2>1, <3>1
  <2>2. CASE n # 0
    <3> DEFINE s == list[n - 1]
    <3>1. s \in Seq(S) /\ Range(s) = Range(own) \union upto(n - 1)
      <4>1. n - 1 \in Nat /\ n - 1 < n /\ n - 1 <= Len(given)
          BY <1>1, <2>2
      <4>2. n - 1 \in T
          BY <1>5, <4>1
      <4> HIDE DEF upto
      <4> QED BY <4>1, <4>2
    <3>2. given[n] \in S /\ upto(n) = upto(n - 1) \union {given[n]}
        BY <1>1, <2>2
    <3>3. list[n] = IF given[n] \in Range(s) THEN s ELSE Append(s, given[n])
        BY <1>1, <1>4, <2>2
    <3> HIDE DEF s, upto
    <3>4. CASE given[n] \in Range(s)
        BY <3>1, <3>2, <3>3, <3>4
    <3>5. CASE given[n] \notin Range(s)
      <4>1. Append(s, given[n]) \in Seq(S) /\ Range(Append(s, given[n])) = Range(s) \union {given[n]}
          BY <3>1, <3>2, AppendRange
      <4> QED BY <3>1, <3>2, <3>3, <3>5, <4>1
    <3> QED BY <3>4, <3>5
  <2> QED BY <2>1, <2>2
<1>6. \A n \in Nat : n \in T
  <2> HIDE DEF T
  <2> QED BY <1>5, AllNumbers
<1>7. upto(Len(given)) = Range(given)
  <2>1. DOMAIN given = 1 .. Len(given)
      BY LenProperties
  <2> QED BY <2>1 DEF Range
<1>8. Len(given) \in T
    BY <1>1, <1>6
<1> HIDE DEF upto
<1> QED BY <1>1, <1>3, <1>7, <1>8

-------------------------------------------------------------------------------
(* Extensions.                                                             *)

(* An extension without its dots is a text.                                *)
LEMMA StripDotsType ==
  ASSUME NEW e \in Seq(Chars)
  PROVE  StripDots(e) \in Seq(Chars)
<1> DEFINE dots == {n \in 0 .. Len(e) : \A i \in 1 .. n : e[i] = Dot}
<1>1. Len(e) \in Nat /\ \A i \in 1 .. Len(e) : e[i] \in Chars
    BY LenProperties, ElementOfSeq
<1>2. 0 \in dots /\ dots \in SUBSET (0 .. Len(e))
    BY <1>1
<1> HIDE DEF dots
<1>3. Max(dots) \in 0 .. Len(e)
    BY <1>1, <1>2, GreatestNumber
<1> DEFINE m == Max(dots) + 1
<1>4. m \in 1 .. Len(e) + 1
    BY <1>1, <1>3
<1> HIDE DEF m
<1>5. SubSeq(e, m, Len(e)) \in Seq(Chars)
    BY <1>1, <1>4, SubSeqProperties
<1> QED BY <1>5 DEF StripDots, dots, m

(* Lower case is a text as long.                                           *)
LEMMA LowerCaseType ==
  ASSUME NEW n \in Seq(Chars)
  PROVE  /\ LowerCase(n) \in Seq(Chars) /\ Len(LowerCase(n)) = Len(n)
         /\ \A i \in 1 .. Len(n) : LowerCase(n)[i] = Lower[n[i]]
BY CharsAssumption DEF LowerCase

(* The end of a name is compared where its dot would be; that is the end   *)
(* behind some dot.                                                        *)
LEMMA ExtensionMeaning ==
  ASSUME NEW n \in Seq(Chars), NEW e \in Seq(Chars)
  PROVE  ExtensionMatches(n, e)
           <=> \E k \in DOMAIN n : n[k] = Dot /\ LowerCase(SubSeq(n, k + 1, Len(n))) = e
<1>1. /\ Len(n) \in Nat /\ DOMAIN n = 1 .. Len(n) /\ \A i \in 1 .. Len(n) : n[i] \in Chars
      /\ Len(e) \in Nat /\ DOMAIN e = 1 .. Len(e)
    BY LenProperties, ElementOfSeq
<1>2. ASSUME NEW k \in 1 .. Len(n)
      PROVE  LowerCase(SubSeq(n, k + 1, Len(n))) = e <=>
               Len(e) = Len(n) - k /\ \A i \in 1 .. Len(e) : Lower[n[k + i]] = e[i]
  <2> DEFINE back == SubSeq(n, k + 1, Len(n))
  <2>1. /\ back \in Seq(Chars) /\ Len(back) = Len(n) - k
        /\ \A i \in 1 .. Len(n) - k : back[i] = n[k + i]
    <3> DEFINE m == k + 1
    <3>1. m \in Int /\ \A i \in m .. Len(n) : n[i] \in Chars
        BY <1>1
    <3> HIDE DEF m
    <3>2. /\ SubSeq(n, m, Len(n)) \in Seq(Chars)
          /\ Len(SubSeq(n, m, Len(n))) = IF m <= Len(n) THEN Len(n) - m + 1 ELSE 0
          /\ \A i \in 1 .. Len(n) - m + 1 : SubSeq(n, m, Len(n))[i] = n[m + i - 1]
        BY <1>1, <3>1, SubSeqProperties
    <3>3. Len(n) - m + 1 = Len(n) - k /\ (m <= Len(n) \/ Len(n) - k = 0)
            /\ \A i \in 1 .. Len(n) - k : m + i - 1 = k + i
      <4> DEFINE l == Len(n)
      <4>1. l \in Nat /\ k \in 1 .. l
          BY <1>1
      <4> HIDE DEF l
      <4>2. l - m + 1 = l - k /\ (m <= l \/ l - k = 0) /\ \A i \in 1 .. l - k : m + i - 1 = k + i
          BY <4>1 DEF m
      <4> QED BY <4>2 DEF l
    <3>4. Len(SubSeq(n, m, Len(n))) = Len(n) - k
        BY <3>2, <3>3
    <3>5. \A i \in 1 .. Len(n) - k : SubSeq(n, m, Len(n))[i] = n[k + i]
        BY <3>2, <3>3
    <3> QED BY <3>2, <3>4, <3>5 DEF m
  <2> HIDE DEF back
  <2>2. /\ LowerCase(back) \in Seq(Chars) /\ Len(LowerCase(back)) = Len(n) - k
        /\ \A i \in 1 .. Len(n) - k : LowerCase(back)[i] = Lower[n[k + i]]
    <3>1. /\ LowerCase(back) \in Seq(Chars) /\ Len(LowerCase(back)) = Len(back)
          /\ \A i \in 1 .. Len(back) : LowerCase(back)[i] = Lower[back[i]]
        BY <2>1, LowerCaseType
    <3> QED BY <2>1, <3>1
  <2>3. LowerCase(back) = e <=>
          Len(LowerCase(back)) = Len(e) /\ \A i \in 1 .. Len(e) : LowerCase(back)[i] = e[i]
      BY <2>2, SeqEqual
  <2> QED BY <2>2, <2>3 DEF back
<1>3. ASSUME ExtensionMatches(n, e)
      PROVE  \E k \in DOMAIN n : n[k] = Dot /\ LowerCase(SubSeq(n, k + 1, Len(n))) = e
  <2> DEFINE k == Len(n) - Len(e)
  <2>1. k \in 1 .. Len(n) /\ Len(e) = Len(n) - k
      BY <1>1, <1>3 DEF ExtensionMatches
  <2>2. n[k] = Dot /\ \A i \in 1 .. Len(e) : Lower[n[k + i]] = e[i]
      BY <1>1, <1>3 DEF ExtensionMatches
  <2> HIDE DEF k
  <2> QED BY <1>1, <1>2, <2>1, <2>2
<1>4. ASSUME NEW k \in DOMAIN n, n[k] = Dot, LowerCase(SubSeq(n, k + 1, Len(n))) = e
      PROVE  ExtensionMatches(n, e)
  <2>1. k \in 1 .. Len(n) /\ Len(e) = Len(n) - k /\ \A i \in 1 .. Len(e) : Lower[n[k + i]] = e[i]
      BY <1>1, <1>2, <1>4
  <2>2. Len(n) > Len(e) /\ Len(n) - Len(e) = k
      BY <1>1, <2>1
  <2> QED BY <1>1, <1>4, <2>1, <2>2 DEF ExtensionMatches
<1> QED BY <1>3, <1>4

-------------------------------------------------------------------------------
(* Patterns.                                                               *)

(* For names and patterns between which characters and bytes make no       *)
(* difference, what a pattern means in characters is what it means in bytes*)
LEMMA DescribesMeaning ==
  ASSUME NEW p \in Seq(Chars), NEW n \in Seq(Chars),
         Query \in Range(p) => Range(n) \intersect Continuing = {}
  PROVE  Describes(p, n) <=> Matches(p, n)
<1> DEFINE C == [0 .. Len(p) -> 0 .. Len(n)]
<1>0. /\ Len(p) \in Nat /\ Len(n) \in Nat /\ DOMAIN p = 1 .. Len(p) /\ DOMAIN n = 1 .. Len(n)
      /\ Star # Query
    BY LenProperties, CharsAssumption
<1>1. ASSUME NEW k \in 1 .. Len(p), p[k] = Query, NEW m \in 1 .. Len(n)
      PROVE  n[m] \notin Continuing
  <2>1. Query \in Range(p) /\ n[m] \in Range(n)
      BY <1>0, <1>1 DEF Range
  <2> QED BY <2>1
<1>2. ASSUME Describes(p, n) PROVE Matches(p, n)
  <2>1. PICK c \in C :
          /\ c[0] = 0 /\ c[Len(p)] = Len(n)
          /\ \A k \in 1 .. Len(p) :
               CASE p[k] = Star -> c[k - 1] <= c[k]
                 [] p[k] = Query -> IsCharacter(n, c[k - 1], c[k])
                 [] OTHER -> c[k] = c[k - 1] + 1 /\ n[c[k]] = p[k]
      BY <1>2 DEF Describes
  <2>2. \A k \in 0 .. Len(p) : c[k] \in 0 .. Len(n)
      OBVIOUS
  <2>3. ASSUME NEW k \in 1 .. Len(p)
        PROVE  /\ c[k - 1] <= c[k]
               /\ p[k] # Star => c[k] = c[k - 1] + 1
               /\ p[k] # Star /\ p[k] # Query => n[c[k]] = p[k]
    <3>1. c[k - 1] \in 0 .. Len(n) /\ c[k] \in 0 .. Len(n)
        BY <1>0, <2>2
    <3>2. CASE p[k] = Star
        BY <1>0, <2>1, <3>2
    <3>3. CASE p[k] = Query
      <4>1. IsCharacter(n, c[k - 1], c[k])
          BY <1>0, <2>1, <3>3
      <4> DEFINE i == c[k - 1]
                 j == c[k]
      <4>2. i \in 0 .. Len(n) /\ j \in 0 .. Len(n)
          BY <3>1
      <4>3. i < j /\ \A m \in i + 1 .. j : n[m] \in Continuing <=> m > i + 1
          BY <4>1 DEF IsCharacter
      <4>4. n[j] \notin Continuing
          BY <1>0, <1>1, <3>3, <4>2, <4>3
      <4> HIDE DEF i, j
      <4>5. j = i + 1
          BY <1>0, <4>2, <4>3, <4>4
      <4> QED BY <1>0, <3>1, <3>3, <4>5 DEF i, j
    <3>4. CASE p[k] # Star /\ p[k] # Query
      <4>1. c[k] = c[k - 1] + 1 /\ n[c[k]] = p[k]
          BY <2>1, <3>4
      <4> QED BY <3>1, <4>1
    <3> QED BY <3>2, <3>3, <3>4
  <2> DEFINE Along(k, l) ==
               /\ c[k] <= c[l]
               /\ (\A m \in k + 1 .. l : p[m] # Star) => c[l] = c[k] + (l - k)
  <2>4. ASSUME NEW k \in 0 .. Len(p)
        PROVE  \A l \in Nat : l \in k .. Len(p) => Along(k, l)
    <3> DEFINE T == {l \in Nat : l \in k .. Len(p) => Along(k, l)}
    <3>1. ASSUME NEW l \in Nat, \A m \in Nat : m < l => m \in T PROVE l \in T
      <4> SUFFICES ASSUME l \in k .. Len(p) PROVE Along(k, l)
          OBVIOUS
      <4>1. CASE l = k
          BY <1>0, <2>2, <4>1
      <4>2. CASE l # k
        <5>1. l - 1 \in Nat /\ l - 1 < l /\ l - 1 \in k .. Len(p) /\ l \in 1 .. Len(p)
            BY <1>0, <4>2
        <5>2. Along(k, l - 1)
            BY <3>1, <5>1
        <5>3. /\ c[k] \in Nat /\ c[l - 1] \in Nat /\ c[l] \in Nat
              /\ c[l - 1] <= c[l] /\ (p[l] # Star => c[l] = c[l - 1] + 1)
            BY <1>0, <2>2, <2>3, <5>1
        <5>4. \A m \in k + 1 .. l - 1 : m \in k + 1 .. l
            BY <1>0, <5>1
        <5>5. l \in k + 1 .. l
            BY <1>0, <5>1, <4>2
        <5> QED BY <5>1, <5>2, <5>3, <5>4, <5>5
      <4> QED BY <4>1, <4>2
    <3> HIDE DEF T
    <3>2. \A l \in Nat : l \in T
        BY <3>1, AllNumbers
    <3> QED BY <3>2 DEF T
  <2>5. \A k, l \in 0 .. Len(p) : k < l => Along(k, l)
    <3> SUFFICES ASSUME NEW k \in 0 .. Len(p), NEW l \in 0 .. Len(p), k < l PROVE Along(k, l)
        OBVIOUS
    <3> HIDE DEF Along
    <3>1. l \in Nat /\ l \in k .. Len(p)
        BY <1>0
    <3> QED BY <2>4, <3>1
  <2>6. Cuts(p, n, 0, c)
      BY <2>3, <2>5 DEF Cuts
  <2> QED BY <2>1, <2>6 DEF Matches, MatchesFrom
<1>3. ASSUME Matches(p, n) PROVE Describes(p, n)
  <2>1. PICK c \in C : c[0] = 0 /\ c[Len(p)] = Len(n) /\ Cuts(p, n, 0, c)
      BY <1>3 DEF Matches, MatchesFrom
  <2>2. \A k \in 0 .. Len(p) : c[k] \in 0 .. Len(n)
      OBVIOUS
  <2>3. ASSUME NEW k \in 1 .. Len(p)
        PROVE  CASE p[k] = Star -> c[k - 1] <= c[k]
                 [] p[k] = Query -> IsCharacter(n, c[k - 1], c[k])
                 [] OTHER -> c[k] = c[k - 1] + 1 /\ n[c[k]] = p[k]
    <3>1. /\ k - 1 \in 0 .. Len(p) /\ k \in 0 .. Len(p) /\ k - 1 < k
          /\ k \in 0 + 1 .. Len(p) /\ (k - 1) + 1 = k /\ k - (k - 1) = 1
        BY <1>0
    <3>2. c[k - 1] \in 0 .. Len(n) /\ c[k] \in 0 .. Len(n) /\ c[k - 1] <= c[k]
        BY <2>1, <2>2, <3>1 DEF Cuts
    <3>3. p[k] # Star => c[k] = c[k - 1] + 1
      <4>1. p[k] # Star => \A m \in (k - 1) + 1 .. k : p[m] # Star
          BY <3>1
      <4>2. (\A m \in (k - 1) + 1 .. k : p[m] # Star) => c[k] = c[k - 1] + (k - (k - 1))
          BY <2>1, <3>1 DEF Cuts
      <4> QED BY <3>1, <4>1, <4>2
    <3>4. p[k] # Star /\ p[k] # Query => n[c[k]] = p[k]
        BY <2>1, <3>1 DEF Cuts
    <3>5. CASE p[k] = Query
      <4> DEFINE i == c[k - 1]
      <4>1. i \in 0 .. Len(n) /\ i + 1 \in 0 .. Len(n) /\ c[k] = i + 1
          BY <1>0, <3>2, <3>3, <3>5
      <4>2. \A m \in 1 .. Len(n) : n[m] \notin Continuing
          BY <1>1, <3>5
      <4> HIDE DEF i
      <4>3. IsCharacter(n, i, i + 1)
          BY <1>0, <4>1, <4>2 DEF IsCharacter
      <4> QED BY <1>0, <3>5, <4>1, <4>3 DEF i
    <3> QED BY <3>2, <3>3, <3>4, <3>5
  <2> QED BY <2>1, <2>3 DEF Describes
<1> QED BY <1>2, <1>3

-------------------------------------------------------------------------------
(* A command line and what is made of it.                                  *)

(* The fields of Cli.                                                      *)
LEMMA LineTypes ==
  ASSUME NEW c \in CommandLines
  PROVE  /\ c.ext \in Seq(Seq(Chars)) /\ c.skip \in Seq(Seq(Chars))
         /\ c.file_type # None => Presets[c.file_type] \in Seq(Seq(Chars))
         /\ c.name # None => c.name \in Seq(Chars)
         /\ {c.no_skip_defaults, c.count, c.sum_size, c.dirs} \subseteq BOOLEAN
<1>1. c \in [file_type : {None} \union DOMAIN Presets, ext : Seq(Seq(Chars)),
             min_size : {None} \union Seq(Tokens), max_size : {None} \union Seq(Tokens),
             skip : Seq(Seq(Chars)), no_skip_defaults : BOOLEAN, count : BOOLEAN,
             sum_size : BOOLEAN, long : BOOLEAN, threads : {None} \union Nat,
             dirs : BOOLEAN, name : {None} \union Seq(Chars)]
    BY CommandLineAssumption
<1> QED BY <1>1, ArgumentsAssumption

(* What the walk knows of it.                                              *)
LEMMA OptionsOf ==
  ASSUME NEW c \in CommandLines, opts = Configurations[c]
  PROVE  /\ opts.count_only = c.count /\ opts.sum_size = c.sum_size /\ opts.match_dirs = c.dirs
         /\ opts.min_size = SizeArgument(c.min_size) /\ opts.max_size = SizeArgument(c.max_size)
         /\ opts.named <=> all_extensions(c) # <<>> \/ c.name # None
         /\ opts.hits = {e \in Entries :
                           NameAccepted(all_extensions(c), {c.name} \ {None}, NameOf[e])}
         /\ opts.skips = {d \in Dirs : ShouldSkip(skip_dirs(c), NameOf[d])}
BY DEF Configurations, Configure, filter_config, output_config

(* The extensions the filter compares with are the ones asked for.         *)
LEMMA ExtensionsAsked ==
  ASSUME NEW c \in CommandLines, Understood(c)
  PROVE  /\ all_extensions(c) \in Seq(Seq(Chars))
         /\ Range(all_extensions(c)) = AskedExtensions(c)
<1> DEFINE own == [i \in DOMAIN c.ext |-> ToLowercase(StripDots(c.ext[i]))]
           given == IF c.file_type = None THEN <<>> ELSE Presets[c.file_type]
           S == Seq(Chars)
<1>1. c.ext \in Seq(S) /\ (c.file_type # None => Presets[c.file_type] \in Seq(S))
    BY LineTypes
<1>2. \A i \in DOMAIN c.ext : /\ c.ext[i] \in S /\ c.ext[i] \in Range(c.ext)
                              /\ ToLowercase(StripDots(c.ext[i])) = LowerCase(StripDots(c.ext[i]))
                              /\ LowerCase(StripDots(c.ext[i])) \in S
  <2> SUFFICES ASSUME NEW i \in DOMAIN c.ext
               PROVE  /\ c.ext[i] \in S /\ c.ext[i] \in Range(c.ext)
                      /\ ToLowercase(StripDots(c.ext[i])) = LowerCase(StripDots(c.ext[i]))
                      /\ LowerCase(StripDots(c.ext[i])) \in S
      OBVIOUS
  <2>1. c.ext[i] \in S /\ c.ext[i] \in Range(c.ext)
      BY <1>1, ElementOfSeq, LenProperties DEF Range
  <2>2. LowerCase(StripDots(c.ext[i])) \in S
      BY <2>1, StripDotsType, LowerCaseType
  <2> QED BY <2>1, <2>2 DEF Understood
<1>3. own \in Seq(S) /\ Range(own) = {LowerCase(StripDots(e)) : e \in Range(c.ext)}
  <2>1. DOMAIN c.ext = 1 .. Len(c.ext) /\ Len(c.ext) \in Nat
      BY <1>1, LenProperties
  <2>2. own = [i \in 1 .. Len(c.ext) |-> LowerCase(StripDots(c.ext[i]))]
      BY <1>2, <2>1
  <2>3. own \in Seq(S)
      BY <1>2, <2>1, <2>2
  <2>4. Range(own) = {LowerCase(StripDots(c.ext[i])) : i \in 1 .. Len(c.ext)}
      BY <2>2 DEF Range
  <2>5. {LowerCase(StripDots(e)) : e \in Range(c.ext)}
          = {LowerCase(StripDots(c.ext[i])) : i \in 1 .. Len(c.ext)}
      BY <2>1 DEF Range
  <2> QED BY <2>3, <2>4, <2>5
<1>4. given \in Seq(S) /\ Range(given) = IF c.file_type = None THEN {} ELSE Range(Documented[c.file_type])
  <2>1. <<>> \in Seq(S) /\ Range(<<>>) = {}
      BY DEF Range
  <2>2. c.file_type # None => Range(Presets[c.file_type]) = Range(Documented[c.file_type])
      BY DEF Understood
  <2> QED BY <1>1, <2>1, <2>2
<1>5. all_extensions(c) = Completed(own, given)
    BY DEF all_extensions
<1> HIDE DEF own, given, S
<1>6. /\ Completed(own, given) \in Seq(S)
      /\ Range(Completed(own, given)) = Range(own) \union Range(given)
    BY <1>3, <1>4, CompletedRange
<1> QED BY <1>3, <1>4, <1>5, <1>6 DEF AskedExtensions, S

(* The names the filters accept are the ones asked for.                    *)
LEMMA NameAsked ==
  ASSUME NEW c \in CommandLines, opts = Configurations[c], Understood(c), NEW e \in Entries
  PROVE  NameMatches(e) <=> AskedName(c, NameOf[e])
<1> DEFINE n == NameOf[e]
           exts == all_extensions(c)
<1>1. n \in Seq(Chars)
    BY NameAssumption
<1>2. exts \in Seq(Seq(Chars)) /\ Range(exts) = AskedExtensions(c)
    BY ExtensionsAsked
<1>3. NameMatches(e) <=> /\ exts # <<>> => \E x \in Range(exts) : ExtensionMatches(n, x)
                         /\ c.name # None => Glob(c.name, n)
  <2>1. e \in opts.hits <=> NameAccepted(exts, {c.name} \ {None}, n)
      BY OptionsOf
  <2>2. NameAccepted(exts, {c.name} \ {None}, n)
          <=> /\ exts # <<>> => \E x \in Range(exts) : ExtensionMatches(n, x)
              /\ c.name # None => Glob(c.name, n)
      BY DEF NameAccepted
  <2>3. opts.named <=> exts # <<>> \/ c.name # None
      BY OptionsOf
  <2> HIDE DEF n, exts
  <2> QED BY <2>1, <2>2, <2>3 DEF NameMatches
<1>7. c.name # None => (Glob(c.name, n) <=> Describes(c.name, n))
  <2> SUFFICES ASSUME c.name # None PROVE Glob(c.name, n) <=> Describes(c.name, n)
      OBVIOUS
  <2>1. StarFree(n) /\ (Query \in Range(c.name) => Range(n) \intersect Continuing = {})
      BY DEF Understood
  <2>2. Glob(c.name, n) <=> Matches(c.name, n)
      BY <2>1, GlobAssumption
  <2>3. c.name \in Seq(Chars)
      BY LineTypes
  <2> QED BY <1>1, <2>1, <2>2, <2>3, DescribesMeaning
<1> HIDE DEF n, exts
<1>4. exts # <<>> <=> AskedExtensions(c) # {}
  <2>1. exts = <<>> => Range(exts) = {}
      BY DEF Range
  <2>2. exts # <<>> => exts[1] \in Range(exts)
    <3>1. DOMAIN exts = 1 .. Len(exts) /\ (exts # <<>> => Len(exts) \in Nat \ {0})
        BY <1>2, LenProperties, EmptySeq
    <3> QED BY <3>1 DEF Range
  <2> QED BY <1>2, <2>1, <2>2
<1>5. \A x \in Range(exts) : ExtensionMatches(n, x)
        <=> \E k \in DOMAIN n : n[k] = Dot /\ LowerCase(SubSeq(n, k + 1, Len(n))) = x
  <2>1. Range(exts) \subseteq Seq(Chars)
      BY <1>2, RangeOfSeq
  <2> QED BY <1>1, <2>1, ExtensionMeaning
<1>6. (\E x \in Range(exts) : ExtensionMatches(n, x))
        <=> \E k \in DOMAIN n : n[k] = Dot /\ LowerCase(SubSeq(n, k + 1, Len(n))) \in AskedExtensions(c)
    BY <1>2, <1>5
<1> QED BY <1>3, <1>4, <1>6, <1>7 DEF AskedName, HasAskedExtension, n

(* What an entry of the skip list is taken for by the documentation.       *)
LEMMA EntryAsked ==
  ASSUME NEW p \in Seq(Chars), NEW n \in Seq(Chars),
         p # <<>> /\ Head(p) = Star => {Star, Query} \intersect Range(Tail(p)) = {}
  PROVE  SkipMatches(p, n) <=> p = n \/ (p # <<>> /\ Head(p) = Star /\ Describes(p, n))
<1>1. CASE p # <<>> /\ Head(p) = Star
  <2>1. StarFree(Tail(p)) /\ Query \notin Range(Tail(p))
      BY <1>1 DEF StarFree
  <2>2. Query \notin Range(p)
    <3>1. /\ Len(p) \in Nat /\ DOMAIN p = 1 .. Len(p) /\ p[1] = Star
          /\ Tail(p) \in Seq(Chars) /\ Len(Tail(p)) = Len(p) - 1
          /\ \A k \in 1 .. Len(p) - 1 : Tail(p)[k] = p[k + 1]
        BY <1>1, LenProperties
    <3>2. ASSUME NEW k \in 1 .. Len(p) PROVE p[k] # Query
      <4>1. CASE k = 1
          BY <3>1, <4>1, CharsAssumption
      <4>2. CASE k # 1
        <5>1. k - 1 \in 1 .. Len(p) - 1 /\ (k - 1) + 1 = k
            BY <3>1, <4>2
        <5>2. Tail(p)[k - 1] = p[k] /\ k - 1 \in DOMAIN Tail(p)
            BY <3>1, <5>1, LenProperties
        <5>3. p[k] \in Range(Tail(p))
            BY <5>2 DEF Range
        <5> QED BY <2>1, <5>3
      <4> QED BY <4>1, <4>2
    <3> QED BY <3>1, <3>2 DEF Range
  <2>3. SkipMatches(p, n) <=> Matches(p, n)
      BY <2>1, <2>2, SkipMeaning
  <2>4. Describes(p, n) <=> Matches(p, n)
      BY <2>2, DescribesMeaning
  <2>5. p = n => SkipMatches(p, n)
      BY DEF SkipMatches
  <2> QED BY <1>1, <2>3, <2>4, <2>5
<1>2. CASE ~(p # <<>> /\ Head(p) = Star)
    BY <1>2 DEF SkipMatches
<1> QED BY <1>1, <1>2

(* What is skipped is what the command line asks to skip.                  *)
LEMMA SkipAsked ==
  ASSUME NEW c \in CommandLines, opts = Configurations[c], Understood(c), NEW d \in Dirs
  PROVE  d \in opts.skips <=> AskedSkip(c, NameOf[d])
<1> DEFINE n == NameOf[d]
           given == IF c.no_skip_defaults THEN <<>> ELSE Defaults
           all == Range(c.skip) \union (IF c.no_skip_defaults THEN {} ELSE Range(Defaults))
<1>1. n \in Seq(Chars)
    BY NameAssumption DEF Entries
<1>2. c.skip \in Seq(Seq(Chars)) /\ given \in Seq(Seq(Chars))
        /\ all = Range(c.skip) \union Range(given)
  <2>1. <<>> \in Seq(Seq(Chars)) /\ Range(<<>>) = {}
      BY DEF Range
  <2> QED BY <2>1, LineTypes, ArgumentsAssumption
<1>3. skip_dirs(c) = Completed(c.skip, given)
    BY DEF skip_dirs
<1> HIDE DEF given
<1>4. Range(skip_dirs(c)) = all /\ skip_dirs(c) \in Seq(Seq(Chars))
    BY <1>2, <1>3, CompletedRange
<1>5. d \in opts.skips <=> \E p \in all : SkipMatches(p, n)
    BY <1>4, OptionsOf DEF ShouldSkip
<1>6. ASSUME NEW p \in all
      PROVE  SkipMatches(p, n) <=> p = n \/ (p # <<>> /\ Head(p) = Star /\ Describes(p, n))
  <2>1. p \in Seq(Chars)
      BY <1>4, <1>6, RangeOfSeq
  <2>2. p # <<>> /\ Head(p) = Star => {Star, Query} \intersect Range(Tail(p)) = {}
      BY <1>4, <1>6 DEF Understood
  <2> QED BY <1>1, <2>1, <2>2, EntryAsked
<1> HIDE DEF all, n
<1>7. (\E p \in all : SkipMatches(p, n))
        <=> \E p \in all : p = n \/ (p # <<>> /\ Head(p) = Star /\ Describes(p, n))
    BY <1>6
<1> QED BY <1>5, <1>7 DEF AskedSkip, all, n

(* The bounds on the size are the ones asked for.                          *)
LEMMA SizeAsked ==
  ASSUME NEW c \in CommandLines, opts = Configurations[c], Understood(c), NEW e \in Entries
  PROVE  SizeFits(e) <=> WithinBounds(c, e)
<1>1. ASSUME NEW text \in {c.min_size, c.max_size}
      PROVE  /\ text = None => SizeArgument(text) = NoBound
             /\ text # None => /\ SizeArgument(text) = SizeOf(text) /\ SizeOf(text) # Invalid
                               /\ SizeOf(text) # NoBound
  <2>1. text # None => SizeOf(text) \in Nat
      BY <1>1 DEF Understood
  <2>2. text # None => SizeOf(text) # Invalid /\ SizeOf(text) # NoBound
      BY <2>1, CommandLineAssumption, SizeTextAssumption
  <2> QED BY <2>2, CommandLineAssumption DEF SizeArgument
<1>2. opts.min_size = SizeArgument(c.min_size) /\ opts.max_size = SizeArgument(c.max_size)
    BY OptionsOf
<1> QED BY <1>1, <1>2 DEF SizeFits, WithinBounds

-------------------------------------------------------------------------------
(* The run that nothing disturbs.                                          *)

(* What has been opened is what can be reached without being skipped.      *)
LEMMA FoundAsked ==
  ASSUME NEW c \in CommandLines, opts = Configurations[c], Understood(c),
         WalkInv, Ended, Reached, Undisturbed
  PROVE  found = AskedDirs(c) /\ listed = found
<1>1. found = walked /\ listed = walked /\ failed = {}
    BY AllWalked DEF Undisturbed
<1>2. found = {Root} \union UNION {Children(d) : d \in found} /\ found \subseteq Dirs
    BY <1>1 DEF WalkInv, DirInv, FoundExact, TypeOK
<1>3. \A d \in Dirs : Children(d) = (Range(Contents[d]) \intersect Dirs) \ opts.skips
    BY <1>1 DEF Children
<1> DEFINE Whole(S) ==
             /\ Root \in S
             /\ \A d \in S : \A e \in Range(Contents[d]) \intersect Dirs :
                  ~AskedSkip(c, NameOf[e]) => e \in S
<1>4. AskedDirs(c) = {d \in Dirs : \A S \in SUBSET Dirs : Whole(S) => d \in S}
    BY DEF AskedDirs
<1>5. ASSUME NEW S \in SUBSET Dirs PROVE Closed(S) <=> Whole(S)
  <2>1. \A e \in Dirs : e \in opts.skips <=> AskedSkip(c, NameOf[e])
      BY SkipAsked
  <2> QED BY <2>1 DEF Closed
<1>6. Closed(found)
    BY <1>2, <1>3 DEF Closed
<1> HIDE DEF Whole
<1>7. \A d \in found : d \in AskedDirs(c)
    BY <1>2, <1>4, <1>5 DEF Reached
<1>8. \A d \in AskedDirs(c) : d \in found
    BY <1>2, <1>4, <1>5, <1>6
<1> QED BY <1>1, <1>7, <1>8

(* What is looked for is what is asked for.                                *)
LEMMA WantedAsked ==
  ASSUME NEW c \in CommandLines, opts = Configurations[c], Understood(c),
         WalkInv, Ended, Reached, Undisturbed
  PROVE  Wanted = Asked[c]
<1>1. listed = AskedDirs(c) /\ listed = found /\ found = walked /\ failed = {}
    BY FoundAsked, AllWalked DEF Undisturbed
<1>2. found = {Root} \union UNION {Children(d) : d \in found} /\ found \subseteq Dirs
    BY <1>1 DEF WalkInv, DirInv, FoundExact, TypeOK
<1>3. ASSUME NEW d \in found, NEW e \in Range(Contents[d])
      PROVE  e \in Entries /\ (e \in Dirs \ opts.skips <=> e \in AskedDirs(c))
  <2>1. e \in Entries /\ e # Root
      BY <1>2, ContentsType
  <2>2. e \in Dirs \ opts.skips => e \in found
      BY <1>1, <1>2 DEF Children
  <2>3. e \in found => e \in Dirs \ opts.skips
    <3> SUFFICES ASSUME e \in found PROVE e \in Dirs \ opts.skips
        OBVIOUS
    <3>1. PICK x \in found : e \in Children(x)
        BY <1>2, <2>1
    <3> QED BY <3>1 DEF Children
  <2> QED BY <1>1, <2>1, <2>2, <2>3
<1>4. ASSUME NEW d \in found, NEW e \in Range(Contents[d])
      PROVE  Qualifies(e) <=>
               /\ AskedName(c, NameOf[e])
               /\ IF c.dirs THEN e \in AskedDirs(c) ELSE e \in Files /\ WithinBounds(c, e)
  <2>1. opts.match_dirs = c.dirs
      BY OptionsOf
  <2> QED BY <1>3, <2>1, NameAsked, SizeAsked DEF Qualifies
<1> DEFINE all == UNION {Range(Contents[d]) : d \in found}
           Meets(e) == /\ AskedName(c, NameOf[e])
                       /\ IF c.dirs THEN e \in AskedDirs(c) ELSE e \in Files /\ WithinBounds(c, e)
<1>5. Asked[c] = {e \in all : Meets(e)}
    BY <1>1 DEF Asked
<1>6. Wanted = {e \in all : Qualifies(e)}
    BY <1>1 DEF Wanted
<1>7. \A e \in all : Qualifies(e) <=> Meets(e)
    BY <1>4
<1> HIDE DEF all, Meets
<1> QED BY <1>5, <1>6, <1>7

(* The last number of the summary is the total.                            *)
LEMMA TotalIsLast ==
  ASSUME TypeOK, opts.sum_size
  PROVE  Summary[Len(Summary)] = total
<1> DEFINE first == IF opts.count_only THEN <<matched>> ELSE <<>>
           last == <<total>>
<1>1. matched \in 0 .. U64Max /\ total \in 0 .. U64Max
    BY DEF TypeOK
<1>2. /\ <<matched>> \in Seq(0 .. U64Max)
      /\ last \in Seq(0 .. U64Max) /\ Len(last) = 1 /\ last[1] = total
    BY <1>1
<1>3. first \in Seq(0 .. U64Max)
  <2>1. <<>> \in Seq(0 .. U64Max)
      OBVIOUS
  <2> QED BY <1>2, <2>1
<1> DEFINE second == IF opts.sum_size THEN last ELSE <<>>
<1>4. Summary = first \o second
    BY Zenon DEF Summary
<1>5. second = last
    OBVIOUS
<1> DEFINE numbers == 0 .. U64Max
<1>6. first \in Seq(numbers) /\ last \in Seq(numbers)
    BY <1>2, <1>3
<1> HIDE DEF first, second, last, numbers
<1>7. /\ Len(first \o last) = Len(first) + Len(last)
      /\ \A i \in 1 .. Len(first) + Len(last) :
           (first \o last)[i] = IF i <= Len(first) THEN first[i] ELSE last[i - Len(first)]
    BY <1>6, ConcatProperties
<1>8. Len(first) \in Nat
    BY <1>6, LenProperties
<1>9. (first \o last)[Len(first) + 1] = last[1]
    BY <1>2, <1>7, <1>8
<1> QED BY <1>2, <1>4, <1>5, <1>7, <1>9

(* A run of the program is a walk.                                         *)
LEMMA ProgramWalks == ProgramSafe => Safe /\ [](cli \in CommandLines /\ opts = Configurations[cli])
<1>1. ProgramInit => Init /\ cli \in CommandLines /\ opts = Configurations[cli]
    BY OptionsSuffice DEF ProgramInit, Init
<1>2. [ProgramNext]_<<vars, cli>> => [Next]_vars
    BY DEF ProgramNext
<1>3. [Next]_vars => UNCHANGED opts
  <2>1. ASSUME NEW w \in Workers, Worker(w) PROVE UNCHANGED opts
    <3>1. ASSUME NEW e \in Entries, Returns(w, e) PROVE UNCHANGED opts
        BY <3>1 DEF Returns
    <3>2. ASSUME NEW e \in Entries,
                 EntryFails(w, e) \/ CountFile(w, e) \/ SkipDir(w, e)
                   \/ ChildDir(w, e) \/ File(w, e) \/ Ignore(w, e)
          PROVE  Returns(w, e)
        BY <3>2 DEF EntryFails, CountFile, SkipDir, ChildDir, File, Ignore, Passes, Records, WriteMatch,
                     Tallies
    <3>3. ASSUME \/ \E d \in Dirs : Take(w, d)
                 \/ Leave(w) \/ OpenFails(w) \/ Open(w) \/ Publish(w)
          PROVE  UNCHANGED opts
        BY <3>3 DEF Take, Leave, OpenFails, Open, Publish
    <3>4. ASSUME FlushFull(w) \/ FlushFinal(w) \/ AddCount(w) \/ AddSize(w)
          PROVE  UNCHANGED opts
        BY <3>4 DEF FlushFull, FlushFinal, Flush, AddCount, AddSize
    <3> QED BY <2>1, <3>1, <3>2, <3>3, <3>4 DEF Worker
  <2> QED BY <2>1 DEF Next, PrintSummary, Return, Reader, Fill, Empty, Close, Exited, vars
<1>4. /\ cli \in CommandLines /\ opts = Configurations[cli] /\ [ProgramNext]_<<vars, cli>>
      => (cli \in CommandLines /\ opts = Configurations[cli])'
    BY <1>2, <1>3 DEF ProgramNext
<1> QED BY <1>1, <1>2, <1>4, PTL DEF ProgramSafe, Safe

(* For every tree, every command line that is understood there, every      *)
(* number of workers and every order of their steps: a run that nothing    *)
(* disturbs prints each entry the command line asks for once and no other, *)
(* or their number with -c, and the sum of their sizes with -s             *)
(* (cli.rs:14-64).                                                         *)
THEOREM AsAskedCorrect == ProgramSafe => []AsAsked
<1> DEFINE Line == cli \in CommandLines /\ opts = Configurations[cli]
           Walk == /\ WalkInv /\ Ended /\ MatchInv /\ Reached /\ Silent
                   /\ EachMatchOnce /\ CountExact /\ TotalExact
<1>1. Line /\ Walk => AsAsked
  <2> SUFFICES ASSUME cli \in CommandLines, opts = Configurations[cli], Understood(cli), Walk,
                      Undisturbed
               PROVE  /\ IF cli.count
                         THEN stdout = <<>> /\ report[1] = Cardinality(Asked[cli])
                         ELSE IsInjective(stdout) /\ Range(stdout) = Asked[cli]
                      /\ cli.sum_size =>
                           report[Len(report)] = SumOf(Asked[cli]) % (U64Max + 1)
      BY DEF AsAsked, SumOf
  <2>1. Wanted = Asked[cli]
      BY WantedAsked
  <2>2. exit = "ok" /\ sizeless = {} /\ TypeOK
      BY DEF Undisturbed, WalkInv, DirInv
  <2>3. opts.count_only = cli.count /\ opts.sum_size = cli.sum_size
      BY OptionsOf
  <2>4. cli.count => stdout = <<>> /\ report[1] = Cardinality(Asked[cli])
      BY <2>1, <2>2, <2>3 DEF Silent, CountExact
  <2>5. ~cli.count => IsInjective(stdout) /\ Range(stdout) = Asked[cli]
      BY <2>1, <2>2, <2>3 DEF EachMatchOnce
  <2>6. ASSUME cli.sum_size PROVE report[Len(report)] = SumOf(Asked[cli]) % (U64Max + 1)
    <3>1. report[Len(report)] = total
        BY <2>2, <2>3, <2>6, TotalIsLast DEF MatchInv, Printed
    <3>2. total = SumOf(Wanted \ {}) % (U64Max + 1)
        BY <2>2, <2>3, <2>6 DEF TotalExact, need_size, SumOf
    <3>3. Wanted \ {} = Wanted
        OBVIOUS
    <3> QED BY <2>1, <3>1, <3>2, <3>3
  <2> QED BY <2>4, <2>5, <2>6
<1> QED BY <1>1, ProgramWalks, MatchInvAlways, ReachedAlways, EachMatchOnceCorrect, CountCorrect,
           TotalCorrect, PTL
===============================================================================
