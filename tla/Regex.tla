-------------------------------- MODULE Regex --------------------------------
(***************************************************************************)
(* The matcher and the replacement engine of src/src/regex.c, and a        *)
(* reference for both that knows nothing of backtracking.                  *)
(*                                                                         *)
(* A pattern is the list of tokens ReParse makes: [type |-> "one"] with    *)
(* the set of characters it accepts (a character, '.', a class, a preset   *)
(* class), or one of ( ) * + ? with no character of its own.  A capture is *)
(* [text, at, len]: the string it points into, the index of its first      *)
(* character and a length, which the code computes as a difference of      *)
(* pointers and may be negative.  Left out: how characters and classes are *)
(* written in a pattern.                                                   *)
(***************************************************************************)
EXTENDS Integers, Sequences, FiniteSetsExt

CONSTANTS
  Char,            \* characters of texts and replacements
  Beyond,          \* what memory holds behind the end of a text
  MAXRECAPTURE     \* groups one match may open

ASSUME CaptureAssumption == MAXRECAPTURE \in Nat \ {0}

Signs == {"*", "+", "?"}
Token == [type : {"one", "(", ")"} \cup Signs, set : SUBSET Char]

One(S) == [type |-> "one", set |-> S]
Sign(c) == [type |-> c, set |-> {}]

(* NONE ends the list; what lies behind it is zero, which is NONE again. *)
Type(p, i) == IF i <= Len(p) THEN p[i].type ELSE "none"

ReMatchOne(p, i, ch) == i <= Len(p) /\ ch \in p[i].set

(* The captures of a compiled pattern.  An entry keeps its len when the    *)
(* group is opened again: only the pointer is overwritten.                 *)
Captures ==
  [num : 0..MAXRECAPTURE,
   cap : [1..MAXRECAPTURE -> [text : Seq(Char), at : Nat \ {0}, len : Int]]]

NoCapture == [text |-> <<>>, at |-> 1, len |-> 0]
NoCaptures == [num |-> 0, cap |-> [g \in 1..MAXRECAPTURE |-> NoCapture]]

OpenCapture(c, t, k) ==
  [num |-> c.num + 1,
   cap |-> [c.cap EXCEPT ![c.num + 1].text = t, ![c.num + 1].at = k]]
CloseCapture(c, k) == [c EXCEPT !.cap[c.num].len = k - c.cap[c.num].at]

(* The characters from k on that the token at i accepts without a gap. *)
Run(p, i, t, k) ==
  CHOOSE n \in 0..(Len(t) - k + 1) :
    /\ \A j \in 0..(n - 1) : ReMatchOne(p, i, t[k + j])
    /\ k + n <= Len(t) => ~ReMatchOne(p, i, t[k + n])

Bug_Greedy(p, i, t, k) ==   \* mutant: only the longest is tried
  LET n == Run(p, i, t, k)
  IN CASE Type(p, i + 1) = "*" -> <<k + n>>
       [] Type(p, i + 1) = "+" -> IF n = 0 THEN <<>> ELSE <<k + n>>
       [] Type(p, i + 1) = "?" -> IF n = 0 THEN <<k>> ELSE <<k, k + 1>>

(* The ends tried: ReMatchZeroOrMore and ReMatchOneOrMore take as much as  *)
(* they can, ReMatchOptional takes nothing first.                          *)
Ends(p, i, t, k) ==
  LET n == Run(p, i, t, k)
      Downto(least) == [j \in 1..(n - least + 1) |-> k + n + 1 - j]
  IN CASE Type(p, i + 1) = "*" -> Downto(0)
       [] Type(p, i + 1) = "+" -> Downto(1)
       [] Type(p, i + 1) = "?" -> IF n = 0 THEN <<k>> ELSE <<k, k + 1>>

(* What an attempt comes to: a match or not, FatalError called or not, and *)
(* the captures it leaves.                                                 *)
Results == [ok : BOOLEAN, fatal : BOOLEAN, caps : Captures]
Fails(c) == [ok |-> FALSE, fatal |-> FALSE, caps |-> c]
Matches(c) == [ok |-> TRUE, fatal |-> FALSE, caps |-> c]
RunsOut(c) == [ok |-> FALSE, fatal |-> TRUE, caps |-> c]

(* A quantified token is tried with one end after the other, where m is    *)
(* what the rest of the tokens comes to.  The captures are threaded through*)
(* the attempts: a failed attempt leaves the groups it opened.             *)
Backtrack(m, i, ks, c) ==
  LET try[j \in 0..Len(ks)] ==
        IF j = 0 THEN Fails(c)
        ELSE IF try[j - 1].ok \/ try[j - 1].fatal THEN try[j - 1]
        ELSE m[<<i, ks[j], try[j - 1].caps>>]
  IN try[Len(ks)]

(* Matches tokens i.. against characters k.., where m is what calls with   *)
(* later tokens come to.                                                   *)
MatchFrom(m, p, i, t, k, c) ==
  LET closes == c.num > 0 /\ Type(p, i) = ")"
      c1 == IF closes THEN CloseCapture(c, k) ELSE c
      i1 == IF closes THEN i + 1 ELSE i
      opens == Type(p, i1) = "("
      i2 == IF opens THEN i1 + 1 ELSE i1
      c2 == IF opens THEN OpenCapture(c1, t, k) ELSE c1
  IN IF opens /\ c1.num = MAXRECAPTURE THEN RunsOut(c1)
     ELSE IF Type(p, i2 + 1) \in Signs THEN Backtrack(m, i2 + 2, Ends(p, i2, t, k), c2)
     ELSE IF Type(p, i2) = "none" /\ k > Len(t) THEN Matches(c2)
     ELSE IF k <= Len(t) /\ ReMatchOne(p, i2, t[k]) THEN m[<<i2 + 1, k + 1, c2>>]
     ELSE Fails(c2)

(* The calls the matcher makes of itself on a pattern and a text. *)
Calls(p, t) == (1..Len(p) + 1) \X (1..Len(t) + 1) \X Captures

ReMatchPattern(p, t, c) ==
  LET m[x \in Calls(p, t)] == MatchFrom(m, p, x[1], t, x[2], x[3])
  IN m[<<1, 1, c>>]

(* The replacement text: a character stands for itself ("$$" is one), $n is *)
(* Ref(n) and copies a group, "$" before anything else is dropped with what *)
(* follows.  MeasureReplacement is the first pass of ReReplace, which       *)
(* counts and adds the terminator, CopyReplacement the second.              *)
Digit == 0..9
Lit(ch) == [type |-> "lit", ch |-> ch]
Ref(n) == [type |-> "ref", group |-> n]
Dropped == [type |-> "dropped"]
Item == {Lit(ch) : ch \in Char} \cup {Ref(n) : n \in Digit} \cup {Dropped}

Captured(c, n) == IF n < MAXRECAPTURE THEN c.cap[n + 1] ELSE NoCapture

Width(e, c) ==
  CASE e.type = "ref" -> Captured(c, e.group).len
    [] e.type = "lit" -> 1
    [] OTHER -> 0

Bug_NoRoomForEnd(replace, c) ==   \* mutant: the terminator is not counted
  LET room[n \in 0..Len(replace)] ==
        IF n = 0 THEN 0 ELSE room[n - 1] + Width(replace[n], c)
  IN room[Len(replace)]
MeasureReplacement(replace, c) ==
  LET room[n \in 0..Len(replace)] ==
        IF n = 0 THEN 1 ELSE room[n - 1] + Width(replace[n], c)
  IN room[Len(replace)]

(* memcpy takes the length as unsigned: a negative one runs off the buffer. *)
Overruns(replace, c) ==
  \E n \in 1..Len(replace) : replace[n].type = "ref" /\ Captured(c, replace[n].group).len < 0

(* A replacement with a text for each group, one item after the other. *)
Fill(replace, group) ==
  LET out[n \in 0..Len(replace)] ==
        IF n = 0 THEN <<>>
        ELSE out[n - 1] \o CASE replace[n].type = "ref" -> group[replace[n].group]
                              [] replace[n].type = "lit" -> <<replace[n].ch>>
                              [] OTHER -> <<>>
  IN out[Len(replace)]

(* memcpy from the capture: its length may reach behind the text's end. *)
Bytes(g) ==
  [j \in 1..g.len |-> IF g.at + j - 1 <= Len(g.text) THEN g.text[g.at + j - 1] ELSE Beyond]

CopyReplacement(replace, c) == Fill(replace, [n \in Digit |-> Bytes(Captured(c, n))])

-----------------------------------------------------------------------------
(* The reference.  A split tells for every token that accepts characters    *)
(* where the characters it takes end; a pattern matches a whole text if     *)
(* there is a split.  Of several, the one a backtracking matcher is meant   *)
(* to find is preferred: left to right, * and + as much as possible and ?   *)
(* nothing if possible.                                                     *)

Tokens(p, c) == {i \in 1..Len(p) : p[i].type = c}
Atoms(p) == Tokens(p, "one")

Counts(p, i, max) ==
  CASE Type(p, i + 1) = "*" -> 0..max
    [] Type(p, i + 1) = "+" -> 1..max
    [] Type(p, i + 1) = "?" -> {0, 1}
    [] OTHER -> {1}

(* Where the i-th token begins: where the last one that takes characters ends. *)
Start(p, ends, i) ==
  LET before == {j \in Atoms(p) : j < i}
  IN IF before = {} THEN 1 ELSE ends[Max(before)]

Splits(p, t) ==
  {ends \in [Atoms(p) -> 1..Len(t) + 1] :
     /\ Start(p, ends, Len(p) + 1) = Len(t) + 1
     /\ \A i \in Atoms(p) :
          /\ ends[i] - Start(p, ends, i) \in Counts(p, i, Len(t))
          /\ \A k \in Start(p, ends, i)..(ends[i] - 1) : t[k] \in p[i].set}

InLanguage(p, t) == Splits(p, t) # {}

(* The first token where two splits differ ends later in the better one, or *)
(* earlier if it is optional.                                               *)
Better(p, n, m) ==
  \E i \in Atoms(p) :
    /\ \A j \in Atoms(p) : j < i => n[j] = m[j]
    /\ IF Type(p, i + 1) = "?" THEN n[i] < m[i] ELSE n[i] > m[i]

Preferred(p, t) ==
  CHOOSE n \in Splits(p, t) : \A m \in Splits(p, t) \ {n} : Better(p, n, m)

(* The text of the g-th group, counted from 0, empty for one the pattern    *)
(* does not have.                                                           *)
GroupText(p, t, g) ==
  LET open == CHOOSE i \in Tokens(p, "(") :
                Cardinality({j \in Tokens(p, "(") : j < i}) = g
      close == Min({i \in Tokens(p, ")") : i > open})
      n == Preferred(p, t)
  IN IF g < Cardinality(Tokens(p, "("))
     THEN SubSeq(t, Start(p, n, open), Start(p, n, close) - 1)
     ELSE <<>>

Replacement(p, replace, t) == Fill(replace, [g \in Digit |-> GroupText(p, t, g)])
=============================================================================
