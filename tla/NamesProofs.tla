----------------------------- MODULE NamesProofs -----------------------------
(***************************************************************************)
(* Theorems about glob_match, for every pattern and every name: no index   *)
(* leaves its sequence, the loops end within the quadratic bound, and the  *)
(* answer is the one the declarative meaning of the pattern gives.         *)
(***************************************************************************)
EXTENDS Names, FilterLemmas

(* Where the positions stand to one another.  The part of the pattern that *)
(* follows the last star, up to the present position, holds no star and    *)
(* has been laid over the name from match_si on.                           *)
Positions ==
  /\ star < pi
  /\ at = "scan" /\ star = -1 => match_si = 0 /\ pi = si
  /\ at = "scan" /\ star # -1 =>
       pat[star + 1] = Star /\ pi - (star + 1) = si - match_si
  /\ at = "tail" => si = SLen

(* The bound on the turns while the loops run.  Between two backtracks the *)
(* pattern's position only grows, and every backtrack moves match_si.      *)
TurnsLeft ==
  /\ at # "done" => steps <= match_si * (PLen + 1) + pi
  /\ at = "done" => steps <= SLen * (PLen + 1) + PLen

(* The lengths of the arguments are natural numbers.                       *)
LEMMA Lengths ==
  ASSUME pat \in Patterns, name \in Inputs
  PROVE  /\ pat \in Seq(Chars) /\ name \in Seq(Chars)
         /\ PLen \in Nat /\ SLen \in Nat
         /\ \A k \in 1 .. PLen : pat[k] \in Chars
         /\ \A k \in 1 .. SLen : name[k] \in Chars
BY InputsAssumption DEF PLen, SLen

(* Every step keeps the positions inside the pattern and the name.         *)
LEMMA PositionsStep ==
  ASSUME TypeOK, Positions, [Next]_vars
  PROVE  TypeOK' /\ Positions'
<1> USE DEF TypeOK, Positions, arguments
<1>0. PLen \in Nat /\ SLen \in Nat
    BY Lengths
<1>1. CASE Advance
    BY <1>0, <1>1 DEF Advance, Scanning, Fits, PLen, SLen
<1>2. CASE MeetStar
    BY <1>0, <1>2 DEF MeetStar, Scanning, AtStar, PLen, SLen
<1>3. CASE Backtrack
  <2>1. match_si < SLen
      BY <1>0, <1>3 DEF Backtrack, Scanning
  <2> QED BY <1>0, <1>3, <2>1 DEF Backtrack, Scanning, PLen, SLen
<1>4. CASE GiveUp
  <2>1. /\ at' = "done" /\ result' = FALSE /\ steps' = steps + 1
        /\ UNCHANGED <<pat, name, pi, si, star, match_si>>
      BY <1>4 DEF GiveUp, Scanning
  <2>2. UNCHANGED <<PLen, SLen>>
      BY <2>1 DEF PLen, SLen
  <2>3. result' \in BOOLEAN
      BY <2>1
  <2> QED BY <2>1, <2>2, <2>3
<1>5. CASE EndOfName
    BY <1>0, <1>5 DEF EndOfName, PLen, SLen
<1>6. CASE SkipStar
    BY <1>0, <1>6 DEF SkipStar, AtStar, PLen, SLen
<1>7. CASE Finish
    BY <1>0, <1>7 DEF Finish, PLen, SLen
<1>8. CASE Returned \/ UNCHANGED vars
    BY <1>0, <1>8 DEF Returned, vars, PLen, SLen
<1> QED BY <1>1, <1>2, <1>3, <1>4, <1>5, <1>6, <1>7, <1>8 DEF Next

(* Every turn is paid for by a step of match_si or of pi.                  *)
LEMMA TurnsStep ==
  ASSUME TypeOK, Positions, TurnsLeft, [Next]_vars
  PROVE  TurnsLeft'
<1> USE DEF TypeOK, Positions, TurnsLeft, arguments
<1>0. PLen \in Nat /\ SLen \in Nat
    BY Lengths
<1> DEFINE turns(m) == m * (PLen + 1)
<1>1. \A m, n \in Nat : /\ turns(m) \in Nat
                        /\ turns(m + 1) = turns(m) + PLen + 1
                        /\ m <= n => turns(m) <= turns(n)
  <2>1. TAKE m, n \in Nat
  <2>2. turns(m) \in Nat /\ turns(m + 1) = turns(m) + PLen + 1
      BY <1>0
  <2>3. ASSUME m <= n PROVE turns(m) <= turns(n)
    <3>1. turns(n) = turns(m) + turns(n - m) /\ turns(n - m) \in Nat
        BY <1>0, <2>3
    <3> QED BY <2>2, <3>1, <1>0
  <2> QED BY <2>2, <2>3
<1>2. at = "scan" => match_si <= si
    BY <1>0
<1> HIDE DEF turns
<1>3. CASE Advance \/ MeetStar
  <2>1. /\ UNCHANGED <<PLen, SLen>> /\ at' = at /\ steps' = steps + 1 /\ pi' = pi + 1
        /\ match_si' \in {match_si, si} /\ at = "scan"
      BY <1>3 DEF Advance, MeetStar, Scanning, PLen, SLen
  <2>2. turns(match_si) <= turns(match_si') /\ turns(match_si') \in Nat
      BY <1>1, <1>2, <2>1, <1>0
  <2>3. turns(match_si)' = turns(match_si')
      BY <2>1 DEF turns
  <2>4. steps <= turns(match_si) + pi
      BY <2>1 DEF turns
  <2>5. steps' <= turns(match_si') + pi'
      BY <1>0, <1>1, <2>1, <2>2, <2>4
  <2> QED BY <2>1, <2>3, <2>5 DEF turns
<1>4. CASE Backtrack
  <2>1. /\ UNCHANGED <<PLen, SLen>> /\ at' = at /\ steps' = steps + 1
        /\ pi' = star + 1 /\ match_si' = match_si + 1 /\ at = "scan" /\ star # -1
      BY <1>4 DEF Backtrack, Scanning, PLen, SLen
  <2>2. steps <= turns(match_si) + pi
      BY <2>1 DEF turns
  <2>3. steps' <= turns(match_si + 1) + pi'
      BY <1>0, <1>1, <2>1, <2>2
  <2> QED BY <2>1, <2>3 DEF turns
<1>5. CASE GiveUp
  <2>1. /\ UNCHANGED <<PLen, SLen>> /\ at = "scan" /\ at' = "done" /\ steps' = steps + 1
        /\ match_si = 0 /\ si < SLen
      BY <1>5 DEF GiveUp, Scanning, PLen, SLen
  <2>2. steps <= turns(match_si) + pi /\ turns(0) = 0 /\ turns(1) = PLen + 1
      BY <1>0, <2>1 DEF turns
  <2>3. turns(1) <= turns(SLen) /\ turns(SLen) \in Nat
      BY <1>0, <1>1, <2>1
  <2>4. steps' <= turns(SLen) + PLen
      BY <1>0, <2>1, <2>2, <2>3
  <2> QED BY <2>1, <2>4 DEF turns
<1>6. CASE EndOfName
    BY <1>6 DEF EndOfName, PLen, SLen
<1>7. CASE SkipStar
  <2>1. /\ UNCHANGED <<PLen, SLen, match_si, at>> /\ at = "tail"
        /\ steps' = steps + 1 /\ pi' = pi + 1
      BY <1>7 DEF SkipStar, PLen, SLen
  <2>2. steps <= turns(match_si) + pi /\ turns(match_si) \in Nat
      BY <1>1, <2>1 DEF turns
  <2>3. steps' <= turns(match_si) + pi'
      BY <2>1, <2>2
  <2> QED BY <2>1, <2>3 DEF turns
<1>8. CASE Finish
  <2>1. /\ UNCHANGED <<PLen, SLen, steps>> /\ at = "tail" /\ at' = "done"
      BY <1>8 DEF Finish, PLen, SLen
  <2>2. steps <= turns(match_si) + pi
      BY <2>1 DEF turns
  <2>3. turns(match_si) <= turns(SLen) /\ turns(match_si) \in Nat /\ turns(SLen) \in Nat
      BY <1>0, <1>1
  <2>4. steps' <= turns(SLen) + PLen
      BY <1>0, <2>1, <2>2, <2>3
  <2> QED BY <2>1, <2>4 DEF turns
<1>9. CASE Returned \/ UNCHANGED vars
    BY <1>9 DEF Returned, vars, PLen, SLen
<1> QED BY <1>3, <1>4, <1>5, <1>6, <1>7, <1>8, <1>9 DEF Next

(* No position leaves its sequence and no turn is wasted, in every state.  *)
THEOREM GlobInvariant == Safe => [](TypeOK /\ Positions /\ TurnsLeft)
<1>1. Init => TypeOK /\ Positions /\ TurnsLeft
  <2> SUFFICES ASSUME Init PROVE TypeOK /\ Positions /\ TurnsLeft
    OBVIOUS
  <2>1. PLen \in Nat /\ SLen \in Nat
      BY Lengths DEF Init
  <2>2. TypeOK
    <3>1. result \in BOOLEAN /\ at \in {"scan", "tail", "done"}
        BY DEF Init
    <3>2. /\ pi \in 0 .. PLen /\ si \in 0 .. SLen /\ star \in -1 .. PLen - 1
          /\ match_si \in 0 .. SLen /\ steps \in Nat
        BY <2>1 DEF Init
    <3> QED BY <3>1, <3>2 DEF Init, TypeOK
  <2>3. 0 * (PLen + 1) = 0
      BY <2>1
  <2>4. steps <= match_si * (PLen + 1) + pi
      BY <2>1, <2>3 DEF Init
  <2> QED BY <2>2, <2>4 DEF Init, Positions, TurnsLeft
<1>2. TypeOK /\ Positions /\ TurnsLeft /\ [Next]_vars => (TypeOK /\ Positions /\ TurnsLeft)'
    BY PositionsStep, TurnsStep
<1> QED BY <1>1, <1>2, PTL DEF Safe

(* glob_match never reads outside the pattern or the name (process.rs:12,  *)
(* 15, 28).                                                                *)
THEOREM NamesTypeCorrect == Safe => []TypeOK
BY GlobInvariant, PTL

(* glob_match never takes more turns than the quadratic bound that its     *)
(* comment admits (process.rs:5), so it ends.                              *)
THEOREM QuadraticCorrect == Safe => []Quadratic
<1>1. TypeOK /\ Positions /\ TurnsLeft => Quadratic
  <2> SUFFICES ASSUME TypeOK, Positions, TurnsLeft PROVE Quadratic
    OBVIOUS
  <2>1. PLen \in Nat /\ SLen \in Nat
      BY Lengths DEF TypeOK
  <2>2. CASE at = "done"
      BY <2>2 DEF TurnsLeft, Quadratic
  <2>3. CASE at # "done"
    <3>1. match_si * (PLen + 1) <= SLen * (PLen + 1)
      <4>1. SLen * (PLen + 1) = match_si * (PLen + 1) + (SLen - match_si) * (PLen + 1)
          BY <2>1 DEF TypeOK
      <4>2. (SLen - match_si) * (PLen + 1) \in Nat /\ match_si * (PLen + 1) \in Nat
          BY <2>1 DEF TypeOK
      <4> QED BY <4>1, <4>2, <2>1 DEF TypeOK
    <3>2. match_si * (PLen + 1) \in Nat /\ SLen * (PLen + 1) \in Nat
        BY <2>1 DEF TypeOK
    <3> QED BY <2>1, <2>3, <3>1, <3>2 DEF TurnsLeft, Quadratic, TypeOK
  <2> QED BY <2>2, <2>3
<1> QED BY <1>1, GlobInvariant, PTL

-------------------------------------------------------------------------------
(* What the turns do to the meaning of the pattern.                        *)

(* A cut of the name can be followed to any later position of the pattern; *)
(* over a stretch without stars it moves by the length of the stretch, and *)
(* over a character that stands for itself it meets that character.        *)
LEMMA FollowCut ==
  ASSUME NEW p \in Seq(Chars), NEW n \in Seq(Chars),
         NEW i \in 0 .. Len(p), NEW j \in 0 .. Len(n), NEW m \in i .. Len(p),
         MatchesFrom(p, n, i, j)
  PROVE  \E e \in j .. Len(n) :
           /\ MatchesFrom(p, n, m, e)
           /\ (\A k \in i + 1 .. m : p[k] # Star) => e = j + (m - i)
           /\ i < m /\ p[m] # Star /\ p[m] # Query => n[e] = p[m]
<1>0. Len(p) \in Nat /\ Len(n) \in Nat
    OBVIOUS
<1>1. PICK c \in [i .. Len(p) -> j .. Len(n)] :
         c[i] = j /\ c[Len(p)] = Len(n) /\ Cuts(p, n, i, c)
    BY DEF MatchesFrom
<1>2. /\ i \in i .. Len(p) /\ m \in i .. Len(p) /\ Len(p) \in i .. Len(p)
      /\ c[m] \in j .. Len(n)
    BY <1>0, <1>1
<1>3. \A k \in m .. Len(p) : c[k] \in c[m] .. Len(n)
  <2> TAKE k \in m .. Len(p)
  <2>1. k \in i .. Len(p) /\ c[k] \in j .. Len(n)
      BY <1>0, <1>1
  <2>2. CASE k = m
      BY <1>0, <1>2, <2>1, <2>2
  <2>3. CASE m < k
      BY <1>0, <1>1, <1>2, <2>1, <2>3 DEF Cuts
  <2> QED BY <2>2, <2>3, <1>0
<1> DEFINE b == [k \in m .. Len(p) |-> c[k]]
<1>4. /\ b \in [m .. Len(p) -> c[m] .. Len(n)]
      /\ b[m] = c[m] /\ b[Len(p)] = Len(n)
    BY <1>0, <1>1, <1>2, <1>3
<1>5. Cuts(p, n, m, b)
  <2>1. m .. Len(p) \subseteq i .. Len(p) /\ m + 1 .. Len(p) \subseteq i + 1 .. Len(p)
        /\ m + 1 .. Len(p) \subseteq m .. Len(p)
      BY <1>0
  <2>2. \A k \in m .. Len(p) : b[k] = c[k]
      OBVIOUS
  <2> HIDE DEF b
  <2> QED BY <1>1, <2>1, <2>2 DEF Cuts
<1>6. MatchesFrom(p, n, m, c[m])
    BY <1>4, <1>5 DEF MatchesFrom
<1>7. (\A k \in i + 1 .. m : p[k] # Star) => c[m] = j + (m - i)
  <2>1. CASE m = i
      BY <1>0, <1>1, <2>1
  <2>2. CASE i < m
      BY <1>1, <1>2, <2>2 DEF Cuts
  <2> QED BY <2>1, <2>2, <1>0
<1>8. i < m /\ p[m] # Star /\ p[m] # Query => n[c[m]] = p[m]
    BY <1>0, <1>1 DEF Cuts
<1> QED BY <1>2, <1>6, <1>7, <1>8

(* In particular: over a stretch without stars there is one way to follow  *)
(* it.                                                                     *)
LEMMA FollowStretch ==
  ASSUME NEW p \in Seq(Chars), NEW n \in Seq(Chars),
         NEW i \in 0 .. Len(p), NEW j \in 0 .. Len(n), NEW m \in i .. Len(p),
         MatchesFrom(p, n, i, j),
         \A k \in i + 1 .. m : p[k] # Star
  PROVE  j + (m - i) \in j .. Len(n) /\ MatchesFrom(p, n, m, j + (m - i))
<1>1. PICK e \in j .. Len(n) :
         /\ MatchesFrom(p, n, m, e)
         /\ (\A k \in i + 1 .. m : p[k] # Star) => e = j + (m - i)
         /\ i < m /\ p[m] # Star /\ p[m] # Query => n[e] = p[m]
    BY FollowCut, Zenon
<1> QED BY <1>1

(* A cut can be extended backwards over a star, by any part of the name,   *)
(* and over another character by one that it stands for.                   *)
LEMMA ExtendCut ==
  ASSUME NEW p \in Seq(Chars), NEW n \in Seq(Chars),
         NEW i \in 0 .. Len(p) - 1, NEW j \in 0 .. Len(n), NEW e \in j .. Len(n),
         MatchesFrom(p, n, i + 1, e),
         p[i + 1] # Star =>
           e = j + 1 /\ (p[i + 1] = Query \/ p[i + 1] = n[j + 1])
  PROVE  MatchesFrom(p, n, i, j)
<1>0. Len(p) \in Nat /\ Len(n) \in Nat
    OBVIOUS
<1>1. PICK c \in [i + 1 .. Len(p) -> e .. Len(n)] :
         c[i + 1] = e /\ c[Len(p)] = Len(n) /\ Cuts(p, n, i + 1, c)
    BY DEF MatchesFrom
<1> DEFINE b == [k \in i .. Len(p) |-> IF k = i THEN j ELSE c[k]]
<1>2. \A k \in i + 1 .. Len(p) : b[k] = c[k] /\ c[k] \in e .. Len(n) /\ k \in Int
    BY <1>0, <1>1
<1>3. b \in [i .. Len(p) -> j .. Len(n)] /\ b[i] = j /\ b[Len(p)] = Len(n)
    BY <1>0, <1>1
<1> HIDE DEF b
<1>4. ASSUME NEW k \in i .. Len(p), NEW l \in i .. Len(p), k < l
      PROVE  /\ b[k] <= b[l]
             /\ (\A m \in k + 1 .. l : p[m] # Star) => b[l] = b[k] + (l - k)
  <2>1. l \in i + 1 .. Len(p) /\ i + 1 \in i + 1 .. Len(p)
      BY <1>0, <1>4
  <2>2. CASE k # i
      BY <1>1, <1>2, <1>4, <2>1, <2>2, <1>0 DEF Cuts
  <2>3. CASE k = i
    <3>1. b[k] = j /\ b[l] = c[l] /\ c[l] \in e .. Len(n)
        BY <1>2, <1>3, <2>1, <2>3
    <3>2. ASSUME \A m \in k + 1 .. l : p[m] # Star PROVE b[l] = b[k] + (l - k)
      <4>1. e = j + 1
          BY <1>0, <1>4, <2>3, <3>2
      <4>2. c[l] = e + (l - (i + 1))
        <5>1. CASE l = i + 1
            BY <1>1, <5>1
        <5>2. CASE i + 1 < l
          <6>1. \A m \in (i + 1) + 1 .. l : p[m] # Star
              BY <2>3, <3>2
          <6> QED BY <1>1, <2>1, <5>2, <6>1 DEF Cuts
        <5> QED BY <2>1, <5>1, <5>2
      <4> QED BY <2>1, <2>3, <3>1, <4>1, <4>2
    <3> QED BY <3>1, <3>2, <1>0
  <2> QED BY <2>2, <2>3
<1>5. ASSUME NEW k \in i + 1 .. Len(p), p[k] # Star, p[k] # Query
      PROVE  n[b[k]] = p[k]
  <2>1. CASE k = i + 1
      BY <1>1, <1>2, <1>5, <2>1
  <2>2. CASE k # i + 1
      BY <1>0, <1>1, <1>2, <1>5, <2>2 DEF Cuts
  <2> QED BY <2>1, <2>2
<1>6. Cuts(p, n, i, b)
    BY <1>4, <1>5 DEF Cuts
<1> QED BY <1>3, <1>6 DEF MatchesFrom

(* A pattern of which nothing is left matches the end of the name only.    *)
LEMMA EndCut ==
  ASSUME NEW p \in Seq(Chars), NEW n \in Seq(Chars), NEW j \in 0 .. Len(n)
  PROVE  MatchesFrom(p, n, Len(p), j) <=> j = Len(n)
<1>0. Len(p) \in Nat /\ Len(n) \in Nat
    OBVIOUS
<1>1. MatchesFrom(p, n, Len(p), j) => j = Len(n)
    BY DEF MatchesFrom
<1>2. ASSUME j = Len(n) PROVE MatchesFrom(p, n, Len(p), j)
  <2> DEFINE b == [k \in Len(p) .. Len(p) |-> j]
  <2>1. b \in [Len(p) .. Len(p) -> j .. Len(n)] /\ b[Len(p)] = j
      BY <1>0, <1>2
  <2>2. Cuts(p, n, Len(p), b)
      BY <1>0 DEF Cuts
  <2> QED BY <1>2, <2>1, <2>2 DEF MatchesFrom
<1> QED BY <1>1, <1>2

-------------------------------------------------------------------------------
(* The answer is right.                                                    *)

(* Behind the last star the pattern has been read up to the present        *)
(* position without meeting another.                                       *)
Stretch ==
  at = "scan" /\ star # -1 /\ StarFree(name) => \A k \in star + 2 .. pi : pat[k] # Star

(* When the name is used up, what is left of the pattern decides.          *)
TailDecides ==
  at = "tail" /\ StarFree(name) => (Matches(pat, name) <=> MatchesFrom(pat, name, pi, SLen))

Meaning == Stretch /\ NoMatchLost /\ TailDecides /\ Correct

(* The loop goes on after the pattern's next character has been laid over  *)
(* the name's.                                                             *)
LEMMA AdvanceMeaning ==
  ASSUME TypeOK, Positions, Meaning, Advance
  PROVE  Meaning'
<1>0. /\ pat \in Seq(Chars) /\ name \in Seq(Chars) /\ PLen \in Nat /\ SLen \in Nat
      /\ \A k \in 1 .. PLen : pat[k] \in Chars
    BY Lengths DEF TypeOK
<1>1. /\ pi' = pi + 1 /\ si' = si + 1 /\ pi < PLen /\ si < SLen
      /\ UNCHANGED <<pat, name, star, match_si, at, result, PLen, SLen>>
      /\ pat[pi + 1] = Query \/ pat[pi + 1] = name[si + 1]
      /\ at = "scan"
    BY DEF Advance, Scanning, Fits, arguments, PLen, SLen
<1>2. pi \in 0 .. PLen - 1 /\ si \in 0 .. SLen - 1
    BY <1>0, <1>1 DEF TypeOK
<1>3. ASSUME StarFree(name) PROVE pat[pi + 1] # Star
  <2>1. si + 1 \in DOMAIN name
      BY <1>0, <1>2 DEF SLen
  <2>2. name[si + 1] # Star
      BY <1>3, <2>1 DEF StarFree, Range
  <2> QED BY <2>2, <1>1, CharsAssumption
<1>4. ASSUME StarFree(name)
      PROVE  MatchesFrom(pat, name, pi, si) <=> MatchesFrom(pat, name, pi + 1, si + 1)
  <2>1. ASSUME MatchesFrom(pat, name, pi, si)
        PROVE  MatchesFrom(pat, name, pi + 1, si + 1)
    <3>1. PICK e \in si .. Len(name) :
            /\ MatchesFrom(pat, name, pi + 1, e)
            /\ (\A k \in pi + 1 .. pi + 1 : pat[k] # Star) => e = si + ((pi + 1) - pi)
      <4>1. pi \in 0 .. Len(pat) /\ si \in 0 .. Len(name) /\ pi + 1 \in pi .. Len(pat)
          BY <1>0, <1>2 DEF PLen, SLen
      <4> QED BY <1>0, <4>1, <2>1, FollowCut
    <3>2. e = si + 1
        BY <3>1, <1>3, <1>4, <1>2, <1>0
    <3> QED BY <3>1, <3>2
  <2>2. ASSUME MatchesFrom(pat, name, pi + 1, si + 1)
        PROVE  MatchesFrom(pat, name, pi, si)
    <3>1. pi \in 0 .. Len(pat) - 1 /\ si \in 0 .. Len(name) /\ si + 1 \in si .. Len(name)
        BY <1>0, <1>2 DEF PLen, SLen
    <3> QED BY <1>0, <1>1, <3>1, <2>2, ExtendCut
  <2> QED BY <2>1, <2>2
<1>5. Stretch'
  <2> SUFFICES ASSUME star # -1, StarFree(name), NEW k \in star + 2 .. pi + 1
               PROVE  pat[k] # Star
    BY <1>1 DEF Stretch
  <2>1. CASE k = pi + 1
      BY <2>1, <1>3
  <2>2. CASE k # pi + 1
      BY <1>1, <1>2, <2>2 DEF Meaning, Stretch, TypeOK
  <2> QED BY <2>1, <2>2
<1>6. NoMatchLost'
    BY <1>1, <1>4 DEF Meaning, NoMatchLost
<1>7. TailDecides' /\ Correct'
    BY <1>1 DEF TailDecides, Correct
<1> QED BY <1>5, <1>6, <1>7 DEF Meaning
(* The loop meets a star: whatever an older star could still have given,   *)
(* the new one gives as well.                                              *)
LEMMA MeetStarMeaning ==
  ASSUME TypeOK, Positions, Meaning, MeetStar
  PROVE  Meaning'
<1>0. pat \in Seq(Chars) /\ name \in Seq(Chars) /\ PLen \in Nat /\ SLen \in Nat
    BY Lengths DEF TypeOK
<1>1. /\ pi' = pi + 1 /\ star' = pi /\ match_si' = si /\ pi < PLen /\ si < SLen
      /\ UNCHANGED <<pat, name, si, at, result, PLen, SLen>>
      /\ pat[pi + 1] = Star /\ at = "scan"
    BY DEF MeetStar, Scanning, AtStar, arguments, PLen, SLen
<1>2. pi \in 0 .. Len(pat) - 1 /\ pi \in 0 .. Len(pat) /\ si \in 0 .. Len(name)
      /\ pi + 1 \in pi .. Len(pat) /\ pi # -1 /\ pi \in Nat /\ si \in Nat
    BY <1>0, <1>1 DEF TypeOK, PLen, SLen
<1> DEFINE Later(i, j) == \E e \in j .. SLen : MatchesFrom(pat, name, i, e)
<1>3. ASSUME NEW j \in si .. SLen, MatchesFrom(pat, name, pi, j)
      PROVE  Later(pi + 1, si)
  <2>1. j \in 0 .. Len(name)
      BY <1>0, <1>2 DEF SLen
  <2>2. PICK e \in j .. Len(name) : MatchesFrom(pat, name, pi + 1, e)
      BY <1>0, <1>2, <1>3, <2>1, FollowCut
  <2> QED BY <1>0, <1>2, <2>1, <2>2 DEF SLen
<1>4. Later(pi + 1, si) => MatchesFrom(pat, name, pi, si)
  <2> SUFFICES ASSUME NEW e \in si .. SLen, MatchesFrom(pat, name, pi + 1, e)
               PROVE  MatchesFrom(pat, name, pi, si)
    OBVIOUS
  <2> QED BY <1>0, <1>1, <1>2, ExtendCut DEF SLen
<1>5. ASSUME star # -1, StarFree(name), NEW j \in match_si + 1 .. SLen,
             MatchesFrom(pat, name, star + 1, j)
      PROVE  Later(pi + 1, si)
  <2>1. /\ star + 1 \in 0 .. Len(pat) /\ j \in 0 .. Len(name) /\ pi \in star + 1 .. Len(pat)
        /\ pi - (star + 1) = si - match_si /\ match_si \in Nat /\ star \in Int
      BY <1>0, <1>1, <1>2, <1>5 DEF TypeOK, Positions, PLen, SLen
  <2>2. \A k \in (star + 1) + 1 .. pi : pat[k] # Star
      BY <1>1, <1>5, <2>1 DEF Meaning, Stretch
  <2> DEFINE e == j + (pi - (star + 1))
  <2>3. e \in j .. Len(name) /\ MatchesFrom(pat, name, pi, e)
      BY <1>0, <1>5, <2>1, <2>2, FollowStretch
  <2>4. e \in si .. SLen
      BY <1>0, <1>2, <1>5, <2>1, <2>3 DEF SLen
  <2> QED BY <1>3, <2>3, <2>4
<1>6. ASSUME StarFree(name)
      PROVE  Matches(pat, name) <=>
               \/ MatchesFrom(pat, name, pi + 1, si)
               \/ \E j \in si + 1 .. SLen : MatchesFrom(pat, name, pi + 1, j)
  <2>1. Matches(pat, name) <=> Later(pi + 1, si)
    <3>1. si \in si .. SLen
        BY <1>0, <1>2 DEF SLen
    <3> QED BY <1>1, <1>3, <1>4, <1>5, <1>6, <3>1 DEF Meaning, NoMatchLost
  <2>2. si .. SLen = {si} \union (si + 1 .. SLen)
      BY <1>0, <1>2 DEF SLen
  <2> QED BY <2>1, <2>2
<1>7. Stretch'
    BY <1>1, <1>2 DEF Stretch
<1>8. NoMatchLost'
    BY <1>1, <1>2, <1>6 DEF NoMatchLost
<1>9. TailDecides' /\ Correct'
    BY <1>1 DEF TailDecides, Correct
<1> QED BY <1>7, <1>8, <1>9 DEF Meaning

(* A mismatch: the present position matches nothing, a later start of what *)
(* the last star leaves may.                                               *)
LEMMA MismatchLoses ==
  ASSUME TypeOK, at = "scan", si < SLen, ~Fits, ~AtStar, StarFree(name)
  PROVE  ~MatchesFrom(pat, name, pi, si)
<1>0. pat \in Seq(Chars) /\ name \in Seq(Chars) /\ PLen \in Nat /\ SLen \in Nat
    BY Lengths DEF TypeOK
<1>1. pi \in 0 .. Len(pat) /\ si \in 0 .. Len(name)
    BY <1>0 DEF TypeOK, PLen, SLen
<1> SUFFICES ASSUME MatchesFrom(pat, name, pi, si) PROVE FALSE
  OBVIOUS
<1>2. CASE pi = PLen
    BY <1>0, <1>1, <1>2, EndCut DEF PLen, SLen
<1>3. CASE pi < PLen
  <2>1. pi + 1 \in pi .. Len(pat)
      BY <1>0, <1>1, <1>3 DEF PLen
  <2>2. pat[pi + 1] # Star /\ pat[pi + 1] # Query /\ pat[pi + 1] # name[si + 1]
      BY <1>3 DEF Fits, AtStar
  <2>3. PICK e \in si .. Len(name) :
          /\ (\A k \in pi + 1 .. pi + 1 : pat[k] # Star) => e = si + ((pi + 1) - pi)
          /\ name[e] = pat[pi + 1]
      BY <1>0, <1>1, <2>1, <2>2, FollowCut
  <2>4. e = si + 1
      BY <1>1, <2>2, <2>3
  <2> QED BY <2>2, <2>3, <2>4
<1> QED BY <1>0, <1>1, <1>2, <1>3 DEF PLen

(* The last star is stretched by one character, or there is none.          *)
LEMMA BacktrackMeaning ==
  ASSUME TypeOK, Positions, Meaning, Backtrack
  PROVE  Meaning'
<1>0. PLen \in Nat /\ SLen \in Nat
    BY Lengths DEF TypeOK
<1>1. /\ at = "scan" /\ si < SLen /\ ~Fits /\ ~AtStar /\ star # -1
      /\ pi' = star + 1 /\ match_si' = match_si + 1 /\ si' = match_si + 1
      /\ UNCHANGED <<pat, name, star, at, result, PLen, SLen>>
    BY DEF Backtrack, Scanning, arguments, PLen, SLen
<1>2. match_si + 1 <= SLen /\ match_si \in Nat /\ star \in Int
    BY <1>0, <1>1 DEF TypeOK, Positions
<1>3. match_si + 1 .. SLen = {match_si + 1} \union ((match_si + 1) + 1 .. SLen)
    BY <1>0, <1>2
<1>4. ASSUME StarFree(name)
      PROVE  Matches(pat, name) <=>
               \/ MatchesFrom(pat, name, star + 1, match_si + 1)
               \/ \E j \in (match_si + 1) + 1 .. SLen : MatchesFrom(pat, name, star + 1, j)
  <2>1. ~MatchesFrom(pat, name, pi, si)
      BY <1>1, <1>4, MismatchLoses
  <2> QED BY <1>1, <1>3, <1>4, <2>1 DEF Meaning, NoMatchLost
<1>5. Stretch'
    BY <1>1, <1>2 DEF Stretch
<1>6. NoMatchLost'
    BY <1>1, <1>4 DEF NoMatchLost
<1>7. TailDecides' /\ Correct'
    BY <1>1 DEF TailDecides, Correct
<1> QED BY <1>5, <1>6, <1>7 DEF Meaning

(* Without a star to go back to a mismatch is final.                       *)
LEMMA GiveUpMeaning ==
  ASSUME TypeOK, Positions, Meaning, GiveUp
  PROVE  Meaning'
<1>1. /\ at = "scan" /\ si < SLen /\ ~Fits /\ ~AtStar /\ star = -1
      /\ at' = "done" /\ result' = FALSE
      /\ UNCHANGED <<pat, name>>
    BY DEF GiveUp, Scanning, arguments
<1>2. StarFree(name) => ~Matches(pat, name)
    BY <1>1, MismatchLoses DEF Meaning, NoMatchLost
<1> QED BY <1>1, <1>2 DEF Meaning, Stretch, NoMatchLost, TailDecides, Correct

(* The name is used up: an older start of what the last star leaves would  *)
(* need more of it.                                                        *)
LEMMA EndOfNameMeaning ==
  ASSUME TypeOK, Positions, Meaning, EndOfName
  PROVE  Meaning'
<1>0. pat \in Seq(Chars) /\ name \in Seq(Chars) /\ PLen \in Nat /\ SLen \in Nat
    BY Lengths DEF TypeOK
<1>1. /\ at = "scan" /\ si = SLen /\ at' = "tail"
      /\ UNCHANGED <<pat, name, pi, SLen>>
    BY <1>0 DEF EndOfName, arguments, SLen, TypeOK
<1>2. ASSUME star # -1, StarFree(name), NEW j \in match_si + 1 .. SLen,
             MatchesFrom(pat, name, star + 1, j)
      PROVE  FALSE
  <2>1. /\ star + 1 \in 0 .. Len(pat) /\ j \in 0 .. Len(name) /\ pi \in star + 1 .. Len(pat)
        /\ pi - (star + 1) = si - match_si /\ match_si \in Nat /\ star \in Int
      BY <1>0, <1>1, <1>2 DEF TypeOK, Positions, PLen, SLen
  <2>2. \A k \in (star + 1) + 1 .. pi : pat[k] # Star
      BY <1>1, <1>2, <2>1 DEF Meaning, Stretch
  <2>3. j + (pi - (star + 1)) \in j .. Len(name)
      BY <1>0, <1>2, <2>1, <2>2, FollowStretch
  <2> QED BY <1>0, <1>1, <1>2, <2>1, <2>3 DEF SLen
<1>3. StarFree(name) => (Matches(pat, name) <=> MatchesFrom(pat, name, pi, SLen))
    BY <1>1, <1>2 DEF Meaning, NoMatchLost
<1> QED BY <1>1, <1>3 DEF Meaning, Stretch, NoMatchLost, TailDecides, Correct

(* A star at the end of the pattern matches nothing more.                  *)
LEMMA SkipStarMeaning ==
  ASSUME TypeOK, Positions, Meaning, SkipStar
  PROVE  Meaning'
<1>0. pat \in Seq(Chars) /\ name \in Seq(Chars) /\ PLen \in Nat /\ SLen \in Nat
    BY Lengths DEF TypeOK
<1>1. /\ at = "tail" /\ at' = "tail" /\ pi' = pi + 1 /\ pi < PLen /\ pat[pi + 1] = Star
      /\ UNCHANGED <<pat, name, SLen>>
    BY DEF SkipStar, AtStar, arguments, SLen
<1>2. /\ pi \in 0 .. Len(pat) - 1 /\ pi \in 0 .. Len(pat) /\ pi + 1 \in pi .. Len(pat)
      /\ Len(name) \in 0 .. Len(name) /\ Len(name) \in Len(name) .. Len(name)
      /\ \A e \in Len(name) .. Len(name) : e = Len(name)
    BY <1>0, <1>1 DEF TypeOK, PLen, SLen
<1>3. MatchesFrom(pat, name, pi, SLen) => MatchesFrom(pat, name, pi + 1, SLen)
  <2> SUFFICES ASSUME MatchesFrom(pat, name, pi, SLen)
               PROVE  MatchesFrom(pat, name, pi + 1, SLen)
    OBVIOUS
  <2>1. PICK e \in Len(name) .. Len(name) : MatchesFrom(pat, name, pi + 1, e)
      BY <1>0, <1>2, FollowCut DEF SLen
  <2> QED BY <1>2, <2>1 DEF SLen
<1>4. MatchesFrom(pat, name, pi + 1, SLen) => MatchesFrom(pat, name, pi, SLen)
    BY <1>0, <1>1, <1>2, ExtendCut DEF SLen
<1> QED BY <1>1, <1>3, <1>4 DEF Meaning, Stretch, NoMatchLost, TailDecides, Correct

(* The second loop has ended.                                              *)
LEMMA FinishMeaning ==
  ASSUME TypeOK, Positions, Meaning, Finish
  PROVE  Meaning'
<1>0. pat \in Seq(Chars) /\ name \in Seq(Chars) /\ PLen \in Nat /\ SLen \in Nat
    BY Lengths DEF TypeOK
<1>1. /\ at = "tail" /\ at' = "done" /\ ~AtStar /\ result' = (pi = PLen)
      /\ UNCHANGED <<pat, name>>
    BY DEF Finish, arguments
<1>2. Len(name) \in 0 .. Len(name) /\ pi \in 0 .. Len(pat)
      /\ \A e \in Len(name) .. Len(name) : e = Len(name)
    BY <1>0 DEF TypeOK, PLen, SLen
<1>3. pi = PLen => MatchesFrom(pat, name, pi, SLen)
    BY <1>0, <1>2, EndCut DEF PLen, SLen
<1>4. pi # PLen => ~MatchesFrom(pat, name, pi, SLen)
  <2> SUFFICES ASSUME pi < PLen, MatchesFrom(pat, name, pi, SLen) PROVE FALSE
    BY <1>0, <1>2 DEF PLen
  <2>1. pi + 1 \in pi .. Len(pat) /\ pat[pi + 1] # Star
      BY <1>0, <1>1, <1>2 DEF AtStar, PLen
  <2>2. \A k \in pi + 1 .. pi + 1 : pat[k] # Star
      BY <1>2, <2>1
  <2>3. Len(name) + ((pi + 1) - pi) \in Len(name) .. Len(name)
      BY <1>0, <1>2, <2>1, <2>2, FollowStretch DEF SLen
  <2> QED BY <1>0, <1>2, <2>3
<1>5. StarFree(name) => (result' <=> Matches(pat, name))
    BY <1>1, <1>3, <1>4 DEF Meaning, TailDecides
<1> QED BY <1>1, <1>5 DEF Meaning, Stretch, NoMatchLost, TailDecides, Correct
(* Every turn keeps the meaning.                                           *)
LEMMA MeaningStep ==
  ASSUME TypeOK, Positions, Meaning, [Next]_vars
  PROVE  Meaning'
<1>1. CASE Returned \/ UNCHANGED vars
    BY <1>1 DEF Returned, vars, Meaning, Stretch, NoMatchLost, TailDecides, Correct, SLen
<1> QED BY <1>1, AdvanceMeaning, MeetStarMeaning, BacktrackMeaning, GiveUpMeaning,
           EndOfNameMeaning, SkipStarMeaning, FinishMeaning DEF Next

(* In every state what remains to be compared decides the answer.          *)
THEOREM MeaningInvariant == Safe => []Meaning
<1>1. Init => Meaning
  <2> SUFFICES ASSUME Init PROVE Meaning
    OBVIOUS
  <2> QED BY DEF Init, Meaning, Stretch, NoMatchLost, TailDecides, Correct, Matches
<1>2. TypeOK /\ Positions /\ Meaning /\ [Next]_vars => Meaning'
    BY MeaningStep
<1> QED BY <1>1, <1>2, GlobInvariant, PTL DEF Safe

(* One star to go back to is enough (process.rs:15-22): no step of the     *)
(* loop loses or invents a match, whatever the pattern and the name.       *)
THEOREM NoMatchLostCorrect == Safe => []NoMatchLost
BY MeaningInvariant, PTL DEF Meaning

(* glob_match answers what the pattern means, for every pattern and every  *)
(* name without a star in it.                                              *)
THEOREM GlobCorrect == Safe => []Correct
BY MeaningInvariant, PTL DEF Meaning

-------------------------------------------------------------------------------
(* The filters written by hand.                                            *)

(* For every skip entry and every directory name: an entry means what -n   *)
(* would mean by it, when its only special character is a leading star     *)
(* (walker.rs:290-300).                                                    *)
THEOREM SkipCorrect == Safe => []SkipAgrees
<1>1. TypeOK => SkipAgrees
  <2> SUFFICES ASSUME TypeOK, StarFree(name), Query \notin Range(pat),
                      pat # <<>> => StarFree(Tail(pat))
               PROVE  SkipMatches(pat, name) <=> Matches(pat, name)
      BY DEF SkipAgrees
  <2> QED BY SkipMeaning, InputsAssumption DEF TypeOK
<1> QED BY <1>1, NamesTypeCorrect, PTL

(* For every extension and every file name: -e ext is -n '*.ext' up to the *)
(* case of the name (process.rs:37-53).                                    *)
THEOREM ExtensionCorrect == Safe => []ExtensionAgrees
<1>1. TypeOK => ExtensionAgrees
  <2> SUFFICES ASSUME TypeOK, StarFree(name), StarFree(pat), Query \notin Range(pat),
                      pat = LowerCase(pat)
               PROVE  ExtensionMatches(name, pat)
                        <=> Matches(<<Star, Dot>> \o pat, LowerCase(name))
      BY DEF ExtensionAgrees
  <2> DEFINE p == <<Star, Dot>> \o pat
             n == LowerCase(name)
  <2>1. /\ pat \in Seq(Chars) /\ name \in Seq(Chars)
        /\ Len(pat) \in Nat /\ Len(name) \in Nat
      BY InputsAssumption DEF TypeOK
  <2>2. /\ n \in Seq(Chars) /\ Len(n) = Len(name)
        /\ \A i \in 1 .. Len(name) : n[i] = Lower[name[i]]
      BY <2>1, CharsAssumption DEF LowerCase
  <2>3. /\ p \in Seq(Chars) /\ Len(p) = Len(pat) + 2 /\ p[1] = Star /\ p[2] = Dot
        /\ \A i \in 1 .. Len(pat) : p[i + 2] = pat[i]
    <3>1. <<Star, Dot>> \in Seq(Chars) /\ Len(<<Star, Dot>>) = 2
        BY CharsAssumption
    <3> QED BY <2>1, <3>1, ConcatProperties
  <2> HIDE DEF p, n
  <2>4. \A i \in 1 .. Len(pat) : pat[i] # Star /\ pat[i] # Query
      BY <2>1 DEF StarFree, Range
  <2>5. \A k \in 2 .. Len(p) : p[k] # Star /\ p[k] # Query
    <3> SUFFICES ASSUME NEW k \in 2 .. Len(p) PROVE p[k] # Star /\ p[k] # Query
        OBVIOUS
    <3>1. CASE k = 2
        BY <2>3, <3>1, CharsAssumption
    <3>2. CASE k # 2
      <4>1. k - 2 \in 1 .. Len(pat) /\ (k - 2) + 2 = k
          BY <2>1, <2>3, <3>2
      <4> QED BY <2>3, <2>4, <4>1
    <3> QED BY <3>1, <3>2
  <2>6. Matches(p, n) <=> /\ Len(n) >= Len(p) - 1
                          /\ \A k \in 2 .. Len(p) : n[Len(n) - Len(p) + k] = p[k]
    <3>1. Len(p) > 0
        BY <2>1, <2>3
    <3> QED BY <2>2, <2>3, <2>5, <3>1, SuffixMeaning
  <2>7. ExtensionMatches(name, pat) <=>
          /\ Len(name) > Len(pat)
          /\ name[Len(name) - Len(pat)] = Dot
          /\ \A i \in 1 .. Len(pat) : Lower[name[Len(name) - Len(pat) + i]] = pat[i]
    <3>1. DOMAIN pat = 1 .. Len(pat)
        BY <2>1, LenProperties
    <3> QED BY <3>1 DEF ExtensionMatches
  <2>8. ASSUME Len(name) > Len(pat)
        PROVE  /\ n[Len(name) - Len(pat)] = Dot <=> name[Len(name) - Len(pat)] = Dot
               /\ \A i \in 1 .. Len(pat) :
                    n[Len(name) - Len(pat) + i] = Lower[name[Len(name) - Len(pat) + i]]
    <3>1. Len(name) - Len(pat) \in 1 .. Len(name)
        BY <2>1, <2>8
    <3>2. n[Len(name) - Len(pat)] = Lower[name[Len(name) - Len(pat)]]
            /\ name[Len(name) - Len(pat)] \in Chars
        BY <2>1, <2>2, <3>1
    <3>3. \A i \in 1 .. Len(pat) : Len(name) - Len(pat) + i \in 1 .. Len(name)
        BY <2>1, <2>8
    <3> QED BY <2>2, <3>2, <3>3, CharsAssumption
  <2>9. ASSUME Len(name) > Len(pat)
        PROVE  (\A k \in 2 .. Len(p) : n[Len(n) - Len(p) + k] = p[k]) <=>
                 /\ n[Len(name) - Len(pat)] = Dot
                 /\ \A i \in 1 .. Len(pat) : n[Len(name) - Len(pat) + i] = pat[i]
    <3>1. ASSUME \A k \in 2 .. Len(p) : n[Len(n) - Len(p) + k] = p[k]
          PROVE  /\ n[Len(name) - Len(pat)] = Dot
                 /\ \A i \in 1 .. Len(pat) : n[Len(name) - Len(pat) + i] = pat[i]
      <4>1. 2 \in 2 .. Len(p) /\ Len(n) - Len(p) + 2 = Len(name) - Len(pat)
          BY <2>1, <2>2, <2>3
      <4>2. \A i \in 1 .. Len(pat) : /\ i + 2 \in 2 .. Len(p)
                                     /\ Len(n) - Len(p) + (i + 2) = Len(name) - Len(pat) + i
          BY <2>1, <2>2, <2>3
      <4> QED BY <2>3, <3>1, <4>1, <4>2
    <3>2. ASSUME n[Len(name) - Len(pat)] = Dot,
                 \A i \in 1 .. Len(pat) : n[Len(name) - Len(pat) + i] = pat[i],
                 NEW k \in 2 .. Len(p)
          PROVE  n[Len(n) - Len(p) + k] = p[k]
      <4>1. CASE k = 2
        <5>1. Len(n) - Len(p) + k = Len(name) - Len(pat)
            BY <2>1, <2>2, <2>3, <4>1
        <5> QED BY <2>3, <3>2, <4>1, <5>1
      <4>2. CASE k # 2
        <5>1. /\ k - 2 \in 1 .. Len(pat) /\ (k - 2) + 2 = k
              /\ Len(n) - Len(p) + k = Len(name) - Len(pat) + (k - 2)
            BY <2>1, <2>2, <2>3, <4>2
        <5> QED BY <2>3, <3>2, <5>1
      <4> QED BY <4>1, <4>2
    <3> QED BY <3>1, <3>2
  <2>10. Len(n) >= Len(p) - 1 <=> Len(name) > Len(pat)
      BY <2>1, <2>2, <2>3
  <2>11. ExtensionMatches(name, pat) <=> Matches(p, n)
    <3>1. CASE Len(name) > Len(pat)
        BY <3>1, <2>6, <2>7, <2>8, <2>9, <2>10
    <3>2. CASE ~(Len(name) > Len(pat))
        BY <3>2, <2>6, <2>7, <2>10
    <3> QED BY <3>1, <3>2
  <2> QED BY <2>11 DEF p, n
<1> QED BY <1>1, NamesTypeCorrect, PTL
===============================================================================
