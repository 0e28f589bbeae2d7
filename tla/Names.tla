------------------------------- MODULE Names --------------------------------
(***************************************************************************)
(* glob_match of src/process.rs, one action per turn of its loops, and the *)
(* other name filters (module Filters) compared with it.                   *)
(*                                                                         *)
(* Positions are the numbers of bytes already behind, as in the code, so   *)
(* pat[pi] of the code is pat[pi + 1] here.                                *)
(***************************************************************************)
EXTENDS Filters, FiniteSets

CONSTANTS
  Patterns,  (* the patterns considered                                    *)
  Inputs     (* the file names considered                                  *)

ASSUME InputsAssumption == Patterns \subseteq Seq(Chars) /\ Inputs \subseteq Seq(Chars)

VARIABLES
  pat, name,       (* the arguments                                        *)
  pi, si,          (* the positions in them                                *)
  star, match_si,  (* where to go back to: the last star met and how much  *)
                   (* of the name lies before what it matches; star = -1   *)
                   (* is None                                              *)
  at,              (* the first loop, the second, or the return            *)
  result,
  steps            (* history: turns of the loops taken                    *)

arguments == <<pat, name>>
vars == <<pat, name, pi, si, star, match_si, at, result, steps>>

PLen == Len(pat)
SLen == Len(name)

Init ==
  /\ pat \in Patterns /\ name \in Inputs
  /\ pi = 0 /\ si = 0
  /\ star = -1 /\ match_si = 0
  /\ at = "scan" /\ result = FALSE
  /\ steps = 0

Scanning == at = "scan" /\ si < SLen /\ steps' = steps + 1

(* Faulty: the bound on the position in the pattern is one too large.      *)
FitsPast == pi <= PLen /\ (pi = PLen \/ pat[pi + 1] = Query \/ pat[pi + 1] = name[si + 1])

(* The pattern's next character stands for the name's.                     *)
Fits == pi < PLen /\ (pat[pi + 1] = Query \/ pat[pi + 1] = name[si + 1])
AtStar == pi < PLen /\ pat[pi + 1] = Star

Advance ==
  /\ Scanning
  /\ Fits
  /\ pi' = pi + 1 /\ si' = si + 1
  /\ UNCHANGED <<arguments, star, match_si, at, result>>

MeetStar ==
  /\ Scanning
  /\ ~Fits /\ AtStar
  /\ star' = pi /\ match_si' = si
  /\ pi' = pi + 1
  /\ UNCHANGED <<arguments, si, at, result>>

(* Faulty: the star is tried again where it was tried before.              *)
BacktrackInPlace ==
  /\ Scanning
  /\ ~Fits /\ ~AtStar /\ star # -1
  /\ pi' = star + 1
  /\ si' = match_si
  /\ UNCHANGED <<arguments, star, match_si, at, result>>

(* Faulty: the star swallows everything read since, a name is cut short.   *)
BacktrackFar ==
  /\ Scanning
  /\ ~Fits /\ ~AtStar /\ star # -1
  /\ pi' = star + 1
  /\ match_si' = si + 1
  /\ si' = match_si'
  /\ UNCHANGED <<arguments, star, at, result>>

(* Let the last star match one character more.                             *)
Backtrack ==
  /\ Scanning
  /\ ~Fits /\ ~AtStar /\ star # -1
  /\ pi' = star + 1
  /\ match_si' = match_si + 1
  /\ si' = match_si'
  /\ UNCHANGED <<arguments, star, at, result>>

GiveUp ==
  /\ Scanning
  /\ ~Fits /\ ~AtStar /\ star = -1
  /\ at' = "done" /\ result' = FALSE
  /\ UNCHANGED <<arguments, pi, si, star, match_si>>

EndOfName ==
  /\ at = "scan" /\ si >= SLen
  /\ at' = "tail"
  /\ UNCHANGED <<arguments, pi, si, star, match_si, result, steps>>

SkipStar ==
  /\ at = "tail" /\ AtStar
  /\ pi' = pi + 1
  /\ steps' = steps + 1
  /\ UNCHANGED <<arguments, si, star, match_si, at, result>>

(* Faulty: the rest of the pattern is not looked at.                       *)
FinishLax ==
  /\ at = "tail" /\ ~AtStar
  /\ at' = "done"
  /\ result' = TRUE
  /\ UNCHANGED <<arguments, pi, si, star, match_si, steps>>

Finish ==
  /\ at = "tail" /\ ~AtStar
  /\ at' = "done"
  /\ result' = (pi = PLen)
  /\ UNCHANGED <<arguments, pi, si, star, match_si, steps>>

Returned == at = "done" /\ UNCHANGED vars

Next ==
  Advance \/ MeetStar \/ Backtrack \/ GiveUp \/ EndOfName \/ SkipStar \/ Finish \/ Returned

Safe == Init /\ [][Next]_vars

-------------------------------------------------------------------------------
(* The values the variables take: no position leaves its sequence, so no   *)
(* index is out of bounds (process.rs:12, 15, 28).                         *)
TypeOK ==
  /\ pat \in Patterns /\ name \in Inputs
  /\ pi \in 0 .. PLen /\ si \in 0 .. SLen
  /\ star \in -1 .. PLen - 1 /\ match_si \in 0 .. SLen
  /\ at \in {"scan", "tail", "done"}
  /\ result \in BOOLEAN
  /\ steps \in Nat

(* One star to go back to is enough: as long as the loop runs, the name    *)
(* matches if and only if it does so from the present position or from one *)
(* with the last star stretched further (process.rs:15-22).                *)
NoMatchLost ==
  at = "scan" /\ StarFree(name) =>
    (Matches(pat, name) <=>
       \/ MatchesFrom(pat, name, pi, si)
       \/ star # -1 /\ \E j \in match_si + 1 .. SLen : MatchesFrom(pat, name, star + 1, j))

(* The answer is right for every name that has no star in it.              *)
Correct == at = "done" /\ StarFree(name) => (result <=> Matches(pat, name))

(* The loops end, after at most as many turns as the product of the       *)
(* lengths: the worst case is quadratic and not worse (process.rs:5).      *)
Quadratic == steps <= SLen * (PLen + 1) + PLen

(* A skip entry and a -n pattern mean the same when the only special       *)
(* character is a leading star (walker.rs:290-300).                        *)
SkipAgrees ==
  StarFree(name) /\ Query \notin Range(pat) /\ (pat # <<>> => StarFree(Tail(pat)))
    => (SkipMatches(pat, name) <=> Matches(pat, name))

(* -e ext is -n '*.ext' up to the case of the name, a name that is nothing *)
(* but an extension included (process.rs:37-53).                           *)
ExtensionAgrees ==
  StarFree(name) /\ StarFree(pat) /\ Query \notin Range(pat) /\ pat = LowerCase(pat)
    => (ExtensionMatches(name, pat) <=> Matches(<<Star, Dot>> \o pat, LowerCase(name)))

(* glob_match supports '*' as "any run of chars" (process.rs:3): the answer*)
(* is right for every name.                                                *)
StarIsAnyRun == at = "done" => (result <=> Matches(pat, name))
===============================================================================
