--------------------------- MODULE RewritesProofs ---------------------------
(***************************************************************************)
(* Proofs about Rewrites, for all rules that are Regular, all texts and    *)
(* replacements, any number of threads and any room for captures.          *)
(*                                                                         *)
(* The matcher and the reference meet in the middle, in walks: where every *)
(* token of a pattern begins, from the i-th on.  Downward over the tokens, *)
(*  - a call of the matcher that answers matches exactly if there is a     *)
(*    walk from where it stands (Decides);                                 *)
(*  - behind the last "(" it leaves the groups alone (Calm), and with a    *)
(*    settled pattern no token is tried with two ends that get anywhere,   *)
(*    so it opens each group once (Roomy);                                 *)
(*  - what it leaves in the captures is what the best walk says (Follows). *)
(* Walks are splits, told otherwise, and the best one is the preferred     *)
(* split: the captures hold the reference's groups, and what the passes of *)
(* ReReplace measure and copy is the reference's replacement.              *)
(*                                                                         *)
(* The invariant of the calls (RewriteInv) says of each what it has passed *)
(* over and, as long as no other thread came between, that the captures    *)
(* are those its own match left.  That of the connections is SocketInv.    *)
(***************************************************************************)
EXTENDS Rewrites, FiniteSetTheorems, WellFoundedInduction, SequenceTheorems, TLAPS

-----------------------------------------------------------------------------
(* Induction *)

Below == {p \in Nat \X Nat : p[1] < p[2]}

(* A set of numbers that is not empty has a least one. *)
LEMMA Least ==
  ASSUME NEW S, S \subseteq Nat, S # {}
  PROVE  \E n \in S : \A m \in S : n <= m
<1>1. Below = OpToRel(<, Nat)
  BY DEF OpToRel, Below
<1>2. IsWellFoundedOn(Below, Nat)
  BY <1>1, NatLessThanWellFounded
<1>3. \E n \in S : \A m \in S : <<m, n>> \notin Below
  BY <1>2, WFMin
<1>4. \A m, n \in Nat : <<m, n>> \notin Below => n <= m
  BY DEF Below
<1>. QED BY <1>3, <1>4

(* Induction, for a set instead of a predicate. *)
LEMMA SetInduction ==
  ASSUME NEW S, 0 \in S, \A n \in Nat : n \in S => n + 1 \in S
  PROVE  Nat \subseteq S
<1>1. SUFFICES ASSUME Nat \ S # {} PROVE FALSE
  OBVIOUS
<1>2. PICK n \in Nat \ S : \A m \in Nat \ S : n <= m
  BY <1>1, Least
<1>3. n # 0 /\ n - 1 \in Nat /\ n - 1 \in S
  BY <1>2
<1>. QED BY <1>2, <1>3

(* Induction up to a bound. *)
LEMMA UpTo ==
  ASSUME NEW N \in Nat, NEW S, 0 \in S, \A n \in 0..N - 1 : n \in S => n + 1 \in S
  PROVE  0..N \subseteq S
<1>. DEFINE T == {n \in Nat : n <= N => n \in S}
<1>1. 0 \in T /\ \A n \in Nat : n \in T => n + 1 \in T
  OBVIOUS
<1>2. Nat \subseteq T
  <2>. HIDE DEF T
  <2>. QED BY <1>1, SetInduction
<1>. QED BY <1>2

(* A value computed in N steps, each by a function of the one before: there *)
(* is a function of all of them, and its values are the only ones.          *)
Chain(f, N, V, v, step) ==
  f \in [0..N -> V] /\ f[0] = v /\ \A n \in 1..N : f[n] = step[n][f[n - 1]]

LEMMA Iterates ==
  ASSUME NEW N \in Nat, NEW V, NEW v \in V, NEW step, \A n \in 1..N, x \in V : step[n][x] \in V
  PROVE  \E f : Chain(f, N, V, v, step)
<1>. DEFINE Upto(n, f) == \A j \in 0..n : f[j] = IF j = 0 THEN v ELSE step[j][f[j - 1]]
            S == {n \in 0..N : \E f \in [0..n -> V] : Upto(n, f)}
<1>1. 0 \in S
  <2>1. PICK f : f = [j \in 0..0 |-> v]
    OBVIOUS
  <2>2. f \in [0..0 -> V] /\ Upto(0, f)
    BY <2>1
  <2>. QED BY <2>2
<1>2. ASSUME NEW n \in 0..N - 1, n \in S PROVE n + 1 \in S
  <2>1. PICK f \in [0..n -> V] : Upto(n, f)
    BY <1>2
  <2>2. step[n + 1][f[n]] \in V
    <3>1. n + 1 \in 1..N /\ f[n] \in V
      OBVIOUS
    <3>. QED BY <3>1
  <2>. DEFINE g == [j \in 0..n + 1 |-> IF j = n + 1 THEN step[n + 1][f[n]] ELSE f[j]]
  <2>3. g \in [0..n + 1 -> V]
    BY <2>2
  <2>4. ASSUME NEW j \in 0..n PROVE g[j] = IF j = 0 THEN v ELSE step[j][g[j - 1]]
    <3>1. g[j] = f[j] /\ (j # 0 => g[j - 1] = f[j - 1])
      OBVIOUS
    <3>2. f[j] = IF j = 0 THEN v ELSE step[j][f[j - 1]]
      BY <2>1
    <3>. QED BY <3>1, <3>2
  <2>5. g[n + 1] = step[n + 1][g[n]] /\ n + 1 # 0
    OBVIOUS
  <2>6. \A j \in 0..n + 1 : j \in 0..n \/ j = n + 1
    OBVIOUS
  <2>. HIDE DEF g
  <2>7. ASSUME NEW j \in 0..n + 1 PROVE g[j] = IF j = 0 THEN v ELSE step[j][g[j - 1]]
    <3>1. CASE j \in 0..n
      BY <2>4, <3>1
    <3>2. CASE j = n + 1
      BY <2>5, <3>2
    <3>. QED BY <2>6, <3>1, <3>2
  <2>. QED BY <1>2, <2>3, <2>7
<1>3. N \in S
  <2>. HIDE DEF S
  <2>1. 0..N \subseteq S
    BY <1>1, <1>2, UpTo
  <2>. QED BY <2>1
<1>4. PICK f \in [0..N -> V] : Upto(N, f)
  BY <1>3
<1>. QED BY <1>4 DEF Chain

Agree(N, f, g) == \A n \in 0..N : f[n] = g[n]

LEMMA SameIterates ==
  ASSUME NEW N \in Nat, NEW f, NEW g, f[0] = g[0],
         \A n \in 1..N : f[n - 1] = g[n - 1] => f[n] = g[n]
  PROVE  Agree(N, f, g)
<1>. DEFINE Same == {n \in 0..N : f[n] = g[n]}
<1>1. 0 \in Same
  OBVIOUS
<1>2. ASSUME NEW n \in 0..N - 1, n \in Same PROVE n + 1 \in Same
  BY <1>2
<1>3. 0..N \subseteq Same
  <2>. HIDE DEF Same
  <2>. QED BY <1>1, <1>2, UpTo
<1>. QED BY <1>3 DEF Agree

-----------------------------------------------------------------------------
(* The matcher is what its definition says *)

Matcher(p, t) ==
  CHOOSE m : m = [x \in Calls(p, t) |-> MatchFrom(m, p, x[1], t, x[2], x[3])]

LEMMA MatcherCalled == \A p, t, c : ReMatchPattern(p, t, c) = Matcher(p, t)[<<1, 1, c>>]
BY DEF ReMatchPattern, Matcher

Attempts(m, i, ks, c) ==
  CHOOSE try : try =
    [j \in 0..Len(ks) |->
       IF j = 0 THEN Fails(c)
       ELSE IF try[j - 1].ok \/ try[j - 1].fatal THEN try[j - 1]
       ELSE m[<<i, ks[j], try[j - 1].caps>>]]

LEMMA BacktrackTries == \A m, i, ks, c : Backtrack(m, i, ks, c) = Attempts(m, i, ks, c)[Len(ks)]
BY DEF Backtrack, Attempts

(* What the calls with tokens from i on come to. *)
Typed(p, t, m, i) ==
  \A j \in i..Len(p) + 1, k \in 1..Len(t) + 1, c \in Captures : m[<<j, k, c>>] \in Results

LEMMA AttemptsIs ==
  ASSUME NEW p \in Seq(Token), NEW t \in Seq(Char), NEW i \in 1..Len(p) + 1, NEW m, Typed(p, t, m, i),
         NEW ks \in Seq(1..Len(t) + 1), NEW c \in Captures
  PROVE  LET try == Attempts(m, i, ks, c)
         IN /\ try \in [0..Len(ks) -> Results]
            /\ try[0] = Fails(c)
            /\ \A j \in 1..Len(ks) :
                 try[j] = IF try[j - 1].ok \/ try[j - 1].fatal THEN try[j - 1]
                          ELSE m[<<i, ks[j], try[j - 1].caps>>]
            /\ \A n : (\A k \in 1..Len(t) + 1, d \in Captures : n[<<i, k, d>>] = m[<<i, k, d>>])
                        => Attempts(n, i, ks, c) = try
<1>. DEFINE N == Len(ks)
            Step(n, j, v) == IF v.ok \/ v.fatal THEN v ELSE n[<<i, ks[j], v.caps>>]
            step == [j \in 1..N |-> [v \in Results |-> Step(m, j, v)]]
            Is(n, f) == f = [j \in 0..N |-> IF j = 0 THEN Fails(c) ELSE Step(n, j, f[j - 1])]
<1>1. N \in Nat /\ \A j \in 1..N : ks[j] \in 1..Len(t) + 1
  OBVIOUS
<1>2. ASSUME NEW j \in 1..N, NEW v \in Results PROVE Step(m, j, v) \in Results
  <2>1. v.caps \in Captures
    BY DEF Results
  <2>. QED BY <1>1, <2>1 DEF Typed
<1>3. \A j \in 1..N, v \in Results : step[j][v] = Step(m, j, v) /\ step[j][v] \in Results
  <2>. HIDE DEF Step, N
  <2>. QED BY <1>2
<1>4. Fails(c) \in Results
  BY DEF Fails, Results
<1>5. PICK f : Chain(f, N, Results, Fails(c), step)
  <2>. HIDE DEF step, N, Step, Is
  <2>. QED BY <1>1, <1>3, <1>4, Iterates
<1>. HIDE DEF N
<1>6. /\ f \in [0..N -> Results] /\ f[0] = Fails(c)
      /\ \A j \in 1..N : f[j - 1] \in Results /\ f[j] = Step(m, j, f[j - 1])
  <2>. HIDE DEF Step, step
  <2>1. \A j \in 1..N : j - 1 \in 0..N
    BY <1>1
  <2>. QED BY <1>3, <1>5, <2>1 DEF Chain
<1>7. ASSUME NEW n, \A k \in 1..Len(t) + 1, d \in Captures : n[<<i, k, d>>] = m[<<i, k, d>>]
      PROVE  Attempts(n, i, ks, c) = f
  <2>1. ASSUME NEW j \in 1..N, NEW v \in Results PROVE Step(n, j, v) = Step(m, j, v)
    <3>1. v.caps \in Captures
      BY DEF Results
    <3>. QED BY <1>1, <1>7, <3>1
  <2>2. \A j \in 0..N : j = 0 \/ j \in 1..N
    BY <1>1
  <2>. HIDE DEF Step
  <2>3. Is(n, f)
    <3>1. f = [j \in 0..N |-> f[j]]
      BY <1>6
    <3>2. \A j \in 0..N : f[j] = IF j = 0 THEN Fails(c) ELSE Step(n, j, f[j - 1])
      BY <1>1, <1>6, <2>1, <2>2
    <3>. QED BY <3>1, <3>2
  <2>4. ASSUME NEW g, Is(n, g) PROVE g = f
    <3>1. g[0] = f[0] /\ \A j \in 1..N : g[j] = Step(n, j, g[j - 1])
      <4>1. 0 \in 0..N /\ \A j \in 1..N : j \in 0..N /\ j # 0
        BY <1>1
      <4>. QED BY <1>6, <2>4, <4>1
    <3>2. ASSUME NEW j \in 1..N, g[j - 1] = f[j - 1] PROVE g[j] = f[j]
      BY <1>6, <2>1, <3>1, <3>2
    <3>3. \A j \in 0..N : g[j] = f[j]
      <4>1. Agree(N, g, f)
        BY <1>1, <3>1, <3>2, SameIterates
      <4>. QED BY <4>1 DEF Agree
    <3>4. g = [j \in 0..N |-> g[j]] /\ f = [j \in 0..N |-> f[j]]
      BY <1>6, <2>4
    <3>. QED BY <3>3, <3>4
  <2>5. Attempts(n, i, ks, c) = CHOOSE g : Is(n, g)
    BY DEF Attempts, Step, N
  <2>. HIDE DEF Is
  <2>. QED BY <2>3, <2>4, <2>5
<1>8. Attempts(m, i, ks, c) = f
  BY <1>7
<1>. QED BY <1>6, <1>7, <1>8 DEF N

-----------------------------------------------------------------------------
(* A call of the matcher, in parts *)

(* The groups it closes and opens, the token it then looks at. *)
Closes(p, i, c) == c.num > 0 /\ Type(p, i) = ")"
Closed(p, i, k, c) == IF Closes(p, i, c) THEN CloseCapture(c, k) ELSE c
Next1(p, i, c) == IF Closes(p, i, c) THEN i + 1 ELSE i
OpensAt(p, i, c) == Type(p, Next1(p, i, c)) = "("
Skip(p, i, c) == IF OpensAt(p, i, c) THEN Next1(p, i, c) + 1 ELSE Next1(p, i, c)
Full(p, i, c) == OpensAt(p, i, c) /\ c.num = MAXRECAPTURE
Entered(p, i, t, k, c) ==
  IF OpensAt(p, i, c) THEN OpenCapture(Closed(p, i, k, c), t, k) ELSE Closed(p, i, k, c)

Capture == [text : Seq(Char), at : Nat \ {0}, len : Int]

LEMMA CloseTyped ==
  ASSUME NEW c \in Captures, c.num > 0, NEW k \in Nat
  PROVE  /\ CloseCapture(c, k) \in Captures
         /\ CloseCapture(c, k).num = c.num
<1>. USE CaptureAssumption
<1>1. c.num \in 1..MAXRECAPTURE
  BY DEF Captures
<1>2. c.cap \in [1..MAXRECAPTURE -> Capture] /\ c.cap[c.num] \in Capture
  BY <1>1 DEF Captures, Capture
<1>3. [c.cap[c.num] EXCEPT !.len = k - c.cap[c.num].at] \in Capture
  <2>1. \A e \in Capture : k - e.at \in Int
    BY DEF Capture
  <2>2. \A e \in Capture, n \in Int : [e EXCEPT !.len = n] \in Capture
    BY DEF Capture
  <2>. QED BY <1>2, <2>1, <2>2
<1>4. CloseCapture(c, k) =
        [c EXCEPT !.cap = [c.cap EXCEPT ![c.num] = [c.cap[c.num] EXCEPT !.len = k - c.cap[c.num].at]]]
  BY <1>1 DEF CloseCapture, Captures
<1>5. [c.cap EXCEPT ![c.num] = [c.cap[c.num] EXCEPT !.len = k - c.cap[c.num].at]]
        \in [1..MAXRECAPTURE -> Capture]
  BY <1>2, <1>3
<1>. QED BY <1>4, <1>5 DEF Captures, Capture

LEMMA OpenTyped ==
  ASSUME NEW c \in Captures, c.num # MAXRECAPTURE, NEW t \in Seq(Char), NEW k \in Nat \ {0}
  PROVE  /\ OpenCapture(c, t, k) \in Captures
         /\ OpenCapture(c, t, k).num = c.num + 1
<1>. USE CaptureAssumption
<1>. DEFINE n == c.num + 1
            e == [c.cap[n] EXCEPT !.text = t, !.at = k]
<1>1. n \in 1..MAXRECAPTURE
  BY DEF Captures
<1>2. c.cap \in [1..MAXRECAPTURE -> Capture] /\ c.cap[n] \in Capture
  BY <1>1 DEF Captures, Capture
<1>3. e \in Capture
  BY <1>2 DEF Capture
<1>4. OpenCapture(c, t, k) = [num |-> n, cap |-> [c.cap EXCEPT ![n] = e]]
  BY <1>1, <1>2 DEF OpenCapture, Capture
<1>. HIDE DEF e
<1>5. [c.cap EXCEPT ![n] = e] \in [1..MAXRECAPTURE -> Capture]
  BY <1>2, <1>3
<1>6. Captures = [num : 0..MAXRECAPTURE, cap : [1..MAXRECAPTURE -> Capture]]
  BY DEF Captures, Capture
<1>. QED BY <1>1, <1>4, <1>5, <1>6

LEMMA TypeIs ==
  ASSUME NEW p \in Seq(Token), NEW i \in Nat \ {0}
  PROVE  /\ i <= Len(p) => Type(p, i) = p[i].type /\ p[i] \in Token /\ Type(p, i) # "none"
         /\ i > Len(p) => Type(p, i) = "none"
<1>1. i <= Len(p) => p[i] \in Token
  OBVIOUS
<1>. QED BY <1>1 DEF Type, Token, Signs

LEMMA EnteredTyped ==
  ASSUME NEW p \in Seq(Token), NEW t \in Seq(Char), NEW i \in 1..Len(p) + 1, NEW k \in 1..Len(t) + 1,
         NEW c \in Captures
  PROVE  /\ Closed(p, i, k, c) \in Captures /\ Closed(p, i, k, c).num = c.num
         /\ Skip(p, i, c) \in i..Len(p) + 1
         /\ ~Full(p, i, c) => Entered(p, i, t, k, c) \in Captures
<1>1. Closed(p, i, k, c) \in Captures /\ Closed(p, i, k, c).num = c.num
  BY CloseTyped DEF Closed, Closes
<1>2. Next1(p, i, c) \in i..Len(p) + 1
  BY TypeIs DEF Next1, Closes
<1>3. Skip(p, i, c) \in i..Len(p) + 1
  BY <1>2, TypeIs DEF Skip, OpensAt
<1>. QED BY <1>1, <1>3, OpenTyped DEF Entered, Full

LEMMA MatchFromIs ==
  ASSUME NEW p \in Seq(Token), NEW t \in Seq(Char), NEW i \in 1..Len(p) + 1, NEW k \in 1..Len(t) + 1,
         NEW c \in Captures, NEW m
  PROVE  MatchFrom(m, p, i, t, k, c) =
           LET i2 == Skip(p, i, c)
               c2 == Entered(p, i, t, k, c)
           IN IF Full(p, i, c) THEN RunsOut(Closed(p, i, k, c))
              ELSE IF Type(p, i2 + 1) \in Signs THEN Backtrack(m, i2 + 2, Ends(p, i2, t, k), c2)
              ELSE IF Type(p, i2) = "none" /\ k > Len(t) THEN Matches(c2)
              ELSE IF k <= Len(t) /\ ReMatchOne(p, i2, t[k]) THEN m[<<i2 + 1, k + 1, c2>>]
              ELSE Fails(c2)
<1>1. Closed(p, i, k, c).num = c.num
  BY EnteredTyped
<1>. QED BY <1>1 DEF MatchFrom, Full, Skip, Entered, OpensAt, Next1, Closed, Closes

-----------------------------------------------------------------------------
(* The ends a repeated token is tried with *)

LEMMA RunIs ==
  ASSUME NEW p, NEW i, NEW t \in Seq(Char), NEW k \in 1..Len(t) + 1
  PROVE  LET n == Run(p, i, t, k)
         IN /\ n \in 0..Len(t) - k + 1
            /\ \A j \in 0..n - 1 : ReMatchOne(p, i, t[k + j])
            /\ k + n <= Len(t) => ~ReMatchOne(p, i, t[k + n])
<1>. DEFINE S == {n \in 0..Len(t) - k + 1 : k + n <= Len(t) => ~ReMatchOne(p, i, t[k + n])}
<1>1. Len(t) - k + 1 \in S
  OBVIOUS
<1>2. PICK n \in S : \A j \in S : n <= j
  <2>1. S \subseteq Nat
    OBVIOUS
  <2>2. S # {}
    BY <1>1
  <2>. HIDE DEF S
  <2>. QED BY <2>1, <2>2, Least
<1>3. ASSUME NEW j \in 0..n - 1 PROVE ReMatchOne(p, i, t[k + j])
  <2>1. j \in 0..Len(t) - k + 1 /\ ~(n <= j)
    BY <1>2
  <2>. QED BY <1>2, <2>1
<1>. QED BY <1>2, <1>3 DEF Run

LEMMA EndsTyped ==
  ASSUME NEW p, NEW i, NEW t \in Seq(Char), NEW k \in 1..Len(t) + 1, Type(p, i + 1) \in Signs
  PROVE  Ends(p, i, t, k) \in Seq(1..Len(t) + 1)
<1>. DEFINE n == Run(p, i, t, k)
            Downto(least) == [j \in 1..(n - least + 1) |-> k + n + 1 - j]
<1>1. n \in 0..Len(t) - k + 1
  BY RunIs
<1>. HIDE DEF n
<1>2. Downto(0) \in Seq(1..Len(t) + 1) /\ Downto(1) \in Seq(1..Len(t) + 1)
  BY <1>1
<1>3. (IF n = 0 THEN <<k>> ELSE <<k, k + 1>>) \in Seq(1..Len(t) + 1)
  <2>1. <<k>> \in Seq(1..Len(t) + 1)
    OBVIOUS
  <2>2. n # 0 => k + 1 \in 1..Len(t) + 1
    BY <1>1
  <2>3. ASSUME NEW x \in 1..Len(t) + 1 PROVE <<k, x>> \in Seq(1..Len(t) + 1)
    OBVIOUS
  <2>. QED BY <2>1, <2>2, <2>3
<1>4. Ends(p, i, t, k) \in {Downto(0), Downto(1), IF n = 0 THEN <<k>> ELSE <<k, k + 1>>}
  <2>. HIDE DEF Downto
  <2>. QED BY DEF Ends, Signs, n, Downto
<1>. QED BY <1>2, <1>3, <1>4

-----------------------------------------------------------------------------
(* The matcher's equation *)

Same(p, t, m, n, i) ==
  \A j \in i..Len(p) + 1, k \in 1..Len(t) + 1, c \in Captures : n[<<j, k, c>>] = m[<<j, k, c>>]

(* A call depends on calls with later tokens only. *)
LEMMA MatchFromDepends ==
  ASSUME NEW p \in Seq(Token), NEW t \in Seq(Char), NEW i \in 1..Len(p) + 1, NEW k \in 1..Len(t) + 1,
         NEW c \in Captures, NEW m, Typed(p, t, m, i + 1)
  PROVE  /\ MatchFrom(m, p, i, t, k, c) \in Results
         /\ \A n : Same(p, t, m, n, i + 1) =>
                     MatchFrom(n, p, i, t, k, c) = MatchFrom(m, p, i, t, k, c)
<1>. DEFINE i2 == Skip(p, i, c)
            c2 == Entered(p, i, t, k, c)
<1>1. /\ i2 \in i..Len(p) + 1 /\ Closed(p, i, k, c) \in Captures
      /\ ~Full(p, i, c) => c2 \in Captures
  BY EnteredTyped
<1>. HIDE DEF i2, c2
<1>2. CASE Full(p, i, c)
  <2>1. RunsOut(Closed(p, i, k, c)) \in Results
    BY <1>1 DEF RunsOut, Results
  <2>2. \A n : MatchFrom(n, p, i, t, k, c) = RunsOut(Closed(p, i, k, c))
    BY <1>2, MatchFromIs
  <2>. QED BY <2>1, <2>2
<1>3. CASE ~Full(p, i, c) /\ Type(p, i2 + 1) \in Signs
  <2>1. i2 + 2 \in i + 1..Len(p) + 1 /\ i2 + 2 \in 1..Len(p) + 1 /\ i2 + 1 <= Len(p)
    <3>1. i2 + 1 \in Nat \ {0} /\ i2 \in Int
      BY <1>1
    <3>2. "none" \notin Signs
      BY DEF Signs
    <3>3. i2 + 1 <= Len(p)
      BY <1>3, <3>1, <3>2, TypeIs
    <3>. QED BY <1>1, <3>3
  <2>2. Typed(p, t, m, i2 + 2)
    <3>1. \A j \in i2 + 2..Len(p) + 1 : j \in i + 1..Len(p) + 1
      BY <1>1, <2>1
    <3>. QED BY <3>1 DEF Typed
  <2>. DEFINE ks == Ends(p, i2, t, k)
  <2>3. ks \in Seq(1..Len(t) + 1)
    BY <1>3, EndsTyped
  <2>. HIDE DEF ks
  <2>4. Attempts(m, i2 + 2, ks, c2) \in [0..Len(ks) -> Results]
    BY <1>1, <1>3, <2>1, <2>2, <2>3, AttemptsIs
  <2>5. Len(ks) \in 0..Len(ks)
    BY <2>3
  <2>6. Backtrack(m, i2 + 2, ks, c2) \in Results
    BY <2>4, <2>5, BacktrackTries
  <2>7. ASSUME NEW n, Same(p, t, m, n, i + 1)
        PROVE  Backtrack(n, i2 + 2, ks, c2) = Backtrack(m, i2 + 2, ks, c2)
    <3>1. \A q \in 1..Len(t) + 1, d \in Captures : n[<<i2 + 2, q, d>>] = m[<<i2 + 2, q, d>>]
      BY <2>1, <2>7 DEF Same
    <3>2. Attempts(n, i2 + 2, ks, c2) = Attempts(m, i2 + 2, ks, c2)
      BY <1>1, <1>3, <2>1, <2>2, <2>3, <3>1, AttemptsIs
    <3>. QED BY <3>2, BacktrackTries
  <2>8. \A n : MatchFrom(n, p, i, t, k, c) = Backtrack(n, i2 + 2, ks, c2)
    BY <1>3, MatchFromIs DEF i2, c2, ks
  <2>. QED BY <2>6, <2>7, <2>8
<1>4. CASE ~Full(p, i, c) /\ Type(p, i2 + 1) \notin Signs /\ Type(p, i2) = "none" /\ k > Len(t)
  <2>1. Matches(c2) \in Results
    BY <1>1, <1>4 DEF Matches, Results
  <2>2. \A n : MatchFrom(n, p, i, t, k, c) = Matches(c2)
    BY <1>4, MatchFromIs DEF i2, c2
  <2>. QED BY <2>1, <2>2
<1>5. CASE /\ ~Full(p, i, c) /\ Type(p, i2 + 1) \notin Signs
           /\ k <= Len(t) /\ ReMatchOne(p, i2, t[k])
  <2>1. \A n : MatchFrom(n, p, i, t, k, c) = n[<<i2 + 1, k + 1, c2>>]
    BY <1>5, MatchFromIs DEF i2, c2
  <2>2. i2 + 1 \in i + 1..Len(p) + 1 /\ k + 1 \in 1..Len(t) + 1 /\ c2 \in Captures
    BY <1>1, <1>5 DEF ReMatchOne
  <2>. QED BY <2>1, <2>2 DEF Typed, Same
<1>6. CASE /\ ~Full(p, i, c) /\ Type(p, i2 + 1) \notin Signs
           /\ ~(Type(p, i2) = "none" /\ k > Len(t)) /\ ~(k <= Len(t) /\ ReMatchOne(p, i2, t[k]))
  <2>1. Fails(c2) \in Results
    BY <1>1, <1>6 DEF Fails, Results
  <2>2. \A n : MatchFrom(n, p, i, t, k, c) = Fails(c2)
    BY <1>6, MatchFromIs DEF i2, c2
  <2>. QED BY <2>1, <2>2
<1>. QED BY <1>2, <1>3, <1>4, <1>5, <1>6

Solves(p, t, m, i) ==
  \A j \in i..Len(p) + 1, k \in 1..Len(t) + 1, c \in Captures :
    m[<<j, k, c>>] = MatchFrom(m, p, j, t, k, c)

LEMMA SolutionTyped ==
  ASSUME NEW p \in Seq(Token), NEW t \in Seq(Char), NEW m, Solves(p, t, m, 1)
  PROVE  Typed(p, t, m, 1)
<1>. DEFINE N == Len(p) + 1
            S == {n \in 0..N : Typed(p, t, m, N + 1 - n)}
<1>1. N \in Nat /\ N = Len(p) + 1
  OBVIOUS
<1>. HIDE DEF N
<1>2. 0 \in S
  BY <1>1 DEF Typed
<1>3. ASSUME NEW n \in 0..N - 1, n \in S PROVE n + 1 \in S
  <2>. DEFINE i == N - n
  <2>1. i \in 1..N /\ i + 1 = N + 1 - n /\ N + 1 - (n + 1) = i /\ n + 1 \in 0..N
    BY <1>1
  <2>. HIDE DEF i
  <2>2. Typed(p, t, m, i + 1)
    BY <1>3, <2>1
  <2>3. \A k \in 1..Len(t) + 1, c \in Captures : m[<<i, k, c>>] \in Results
    BY <1>1, <2>1, <2>2, MatchFromDepends DEF Solves
  <2>4. \A j \in i..N : j = i \/ j \in i + 1..N
    BY <1>1, <2>1
  <2>5. Typed(p, t, m, i)
    BY <1>1, <2>2, <2>3, <2>4 DEF Typed
  <2>. QED BY <2>1, <2>5
<1>4. N \in S
  <2>. HIDE DEF S
  <2>1. 0..N \subseteq S
    BY <1>1, <1>2, <1>3, UpTo
  <2>. QED BY <1>1, <2>1
<1>. QED BY <1>1, <1>4

(* A solution is built from the last token down. *)
LEMMA SolutionExtends ==
  ASSUME NEW p \in Seq(Token), NEW t \in Seq(Char), NEW i \in 1..Len(p) + 1, NEW m,
         Solves(p, t, m, i + 1), Typed(p, t, m, i + 1)
  PROVE  \E n : Solves(p, t, n, i) /\ Typed(p, t, n, i)
<1>. DEFINE n == [x \in Calls(p, t) |-> IF x[1] = i THEN MatchFrom(m, p, i, t, x[2], x[3]) ELSE m[x]]
<1>1. ASSUME NEW k \in 1..Len(t) + 1, NEW c \in Captures
      PROVE  n[<<i, k, c>>] = MatchFrom(m, p, i, t, k, c)
  <2>1. <<i, k, c>> \in Calls(p, t)
    BY DEF Calls
  <2>. QED BY <2>1
<1>2. ASSUME NEW j \in i + 1..Len(p) + 1, NEW k \in 1..Len(t) + 1, NEW c \in Captures
      PROVE  n[<<j, k, c>>] = m[<<j, k, c>>]
  <2>1. <<j, k, c>> \in Calls(p, t) /\ j # i
    BY DEF Calls
  <2>. QED BY <2>1
<1>. HIDE DEF n
<1>3. Same(p, t, m, n, i + 1)
  BY <1>2 DEF Same
<1>4. \A j \in i..Len(p) + 1 : j = i \/ j \in i + 1..Len(p) + 1
  OBVIOUS
<1>5. ASSUME NEW j \in i..Len(p) + 1, NEW k \in 1..Len(t) + 1, NEW c \in Captures
      PROVE  n[<<j, k, c>>] = MatchFrom(n, p, j, t, k, c) /\ n[<<j, k, c>>] \in Results
  <2>1. CASE j = i
    BY <1>1, <1>3, <2>1, MatchFromDepends
  <2>2. CASE j \in i + 1..Len(p) + 1
    <3>1. j \in 1..Len(p) + 1 /\ j + 1 \in i + 1..Len(p) + 2
      BY <2>2
    <3>2. Typed(p, t, m, j + 1) /\ Same(p, t, m, n, j + 1)
      <4>1. \A q \in j + 1..Len(p) + 1 : q \in i + 1..Len(p) + 1
        BY <3>1
      <4>. QED BY <1>3, <4>1 DEF Typed, Same
    <3>3. MatchFrom(n, p, j, t, k, c) = MatchFrom(m, p, j, t, k, c)
      BY <3>1, <3>2, MatchFromDepends
    <3>4. m[<<j, k, c>>] = MatchFrom(m, p, j, t, k, c) /\ m[<<j, k, c>>] \in Results
      BY <2>2 DEF Solves, Typed
    <3>. QED BY <1>2, <2>2, <3>3, <3>4
  <2>. QED BY <1>4, <2>1, <2>2
<1>. QED BY <1>5 DEF Solves, Typed

(* The matcher has its equation: by its definition, a CHOOSE, once a         *)
(* function that satisfies it is found, token by token from the end.         *)
LEMMA MatcherIs ==
  ASSUME NEW p \in Seq(Token), NEW t \in Seq(Char)
  PROVE  Solves(p, t, Matcher(p, t), 1) /\ Typed(p, t, Matcher(p, t), 1)
<1>. DEFINE N == Len(p) + 1
            S == {n \in 0..N : \E m : Solves(p, t, m, N + 1 - n) /\ Typed(p, t, m, N + 1 - n)}
<1>1. N \in Nat /\ N = Len(p) + 1
  OBVIOUS
<1>. HIDE DEF N
<1>2. 0 \in S
  <2>1. \A j \in N + 1..Len(p) + 1 : FALSE
    BY <1>1
  <2>2. Solves(p, t, <<>>, N + 1) /\ Typed(p, t, <<>>, N + 1)
    BY <2>1 DEF Solves, Typed
  <2>3. 0 \in 0..N /\ N + 1 - 0 = N + 1
    BY <1>1
  <2>. QED BY <2>2, <2>3
<1>3. ASSUME NEW n \in 0..N - 1, n \in S PROVE n + 1 \in S
  <2>. DEFINE i == N - n
  <2>1. i \in 1..N /\ i + 1 = N + 1 - n /\ N + 1 - (n + 1) = i /\ n + 1 \in 0..N
    BY <1>1
  <2>. HIDE DEF i
  <2>2. PICK m : Solves(p, t, m, i + 1) /\ Typed(p, t, m, i + 1)
    BY <1>3, <2>1
  <2>3. \E q : Solves(p, t, q, i) /\ Typed(p, t, q, i)
    BY <1>1, <2>1, <2>2, SolutionExtends
  <2>. QED BY <2>1, <2>3
<1>4. PICK m : Solves(p, t, m, 1) /\ Typed(p, t, m, 1)
  <2>1. N \in S
    <3>. HIDE DEF S
    <3>1. 0..N \subseteq S
      BY <1>1, <1>2, <1>3, UpTo
    <3>. QED BY <1>1, <3>1
  <2>2. N + 1 - N = 1
    BY <1>1
  <2>. QED BY <2>1, <2>2
<1>. DEFINE f == [x \in Calls(p, t) |-> m[x]]
            Eq(g) == g = [x \in Calls(p, t) |-> MatchFrom(g, p, x[1], t, x[2], x[3])]
<1>5. Eq(f)
  <2>1. \A j \in 1..Len(p) + 1, k \in 1..Len(t) + 1, c \in Captures :
          <<j, k, c>> \in Calls(p, t) /\ f[<<j, k, c>>] = m[<<j, k, c>>]
    BY DEF Calls
  <2>2. f = [x \in Calls(p, t) |-> f[x]]
    OBVIOUS
  <2>. HIDE DEF f
  <2>3. ASSUME NEW x \in Calls(p, t) PROVE f[x] = MatchFrom(f, p, x[1], t, x[2], x[3])
    <3>1. PICK j \in 1..Len(p) + 1, k \in 1..Len(t) + 1, c \in Captures : x = <<j, k, c>>
      BY DEF Calls
    <3>2. Typed(p, t, m, j + 1) /\ Same(p, t, m, f, j + 1)
      <4>1. \A q \in j + 1..Len(p) + 1 : q \in 1..Len(p) + 1
        OBVIOUS
      <4>. QED BY <1>4, <2>1, <4>1 DEF Typed, Same
    <3>3. MatchFrom(f, p, j, t, k, c) = MatchFrom(m, p, j, t, k, c)
      BY <3>2, MatchFromDepends
    <3>4. f[x] = m[<<j, k, c>>] /\ m[<<j, k, c>>] = MatchFrom(m, p, j, t, k, c)
      BY <1>4, <2>1, <3>1 DEF Solves
    <3>5. x[1] = j /\ x[2] = k /\ x[3] = c
      BY <3>1
    <3>. QED BY <3>3, <3>4, <3>5
  <2>. QED BY <2>2, <2>3
<1>6. Eq(Matcher(p, t))
  <2>1. Matcher(p, t) = CHOOSE g : Eq(g)
    BY DEF Matcher
  <2>. HIDE DEF Eq, f
  <2>. QED BY <1>5, <2>1
<1>7. Solves(p, t, Matcher(p, t), 1)
  <2>. DEFINE g == Matcher(p, t)
  <2>. HIDE DEF g
  <2>1. g = [x \in Calls(p, t) |-> MatchFrom(g, p, x[1], t, x[2], x[3])]
    BY <1>6 DEF g
  <2>2. ASSUME NEW j \in 1..Len(p) + 1, NEW k \in 1..Len(t) + 1, NEW c \in Captures
        PROVE  g[<<j, k, c>>] = MatchFrom(g, p, j, t, k, c)
    <3>1. <<j, k, c>> \in Calls(p, t)
      BY DEF Calls
    <3>2. g[<<j, k, c>>] = MatchFrom(g, p, <<j, k, c>>[1], t, <<j, k, c>>[2], <<j, k, c>>[3])
      BY <2>1, <3>1
    <3>. QED BY <3>2
  <2>. QED BY <2>2 DEF Solves, g
<1>. QED BY <1>7, SolutionTyped

LEMMA MatchTyped ==
  ASSUME NEW p \in Seq(Token), NEW t \in Seq(Char), NEW c \in Captures
  PROVE  ReMatchPattern(p, t, c) \in Results
<1>1. 1 \in 1..Len(p) + 1 /\ 1 \in 1..Len(t) + 1
  OBVIOUS
<1>. QED BY <1>1, MatcherIs, MatcherCalled DEF Typed

-----------------------------------------------------------------------------
(* Regular patterns *)

Opening(p) == Tokens(p, "(")
Closing(p) == Tokens(p, ")")

(* Two parentheses with none between them. *)
Pair(p, o, e) == /\ o \in Opening(p) /\ e \in Closing(p) /\ o < e
                 /\ (o + 1..e - 1) \cap Parens(p) = {}
Inside(p, i) == \E o \in Opening(p) : o < i /\ (o + 1..i - 1) \cap Parens(p) = {}

(* Where the matcher may call itself, and the captures it then has. *)
CallAt(p, i) == i \in 1..Len(p) + 1 /\ Type(p, i) \notin Signs
Valid(p, i, c) == (\E o \in Opening(p) : o < i) => c.num > 0

LEMMA RegularIs ==
  ASSUME NEW p, Regular(p)
  PROVE  /\ p \in Seq(Token) /\ Len(p) \in Nat
         /\ \A i \in 1..Len(p) : p[i].type \in {"one", "(", ")", "*", "+", "?"} /\ Type(p, i) = p[i].type
         /\ \A i \in Int : i > Len(p) => Type(p, i) = "none"
         /\ \A i \in 1..Len(p) : Type(p, i) \in Signs => i > 1 /\ Type(p, i - 1) = "one"
         /\ \A i \in 1..Len(p) : Type(p, i) = "(" => i + 1 <= Len(p) /\ Type(p, i + 1) = "one"
         /\ \A o \in Opening(p) : \E e \in Closing(p) : Pair(p, o, e)
         /\ \A e \in Closing(p) : \E o \in Opening(p) : Pair(p, o, e)
<1>1. p \in Seq(Token) /\ Len(p) \in Nat
  BY DEF Regular
<1>2. \A i \in 1..Len(p) : p[i] \in Token /\ Type(p, i) = p[i].type
  BY <1>1 DEF Type
<1>3. \A i \in 1..Len(p) : p[i].type \in {"one", "(", ")", "*", "+", "?"}
  BY <1>2 DEF Token, Signs
<1>4. \A i \in Int : i > Len(p) => Type(p, i) = "none"
  BY <1>1 DEF Type
<1>5. \A i \in 1..Len(p) : Type(p, i) \in Signs => i > 1 /\ Type(p, i - 1) = "one"
  BY <1>2 DEF Regular
<1>6. \A i \in 1..Len(p) : Type(p, i) = "(" => i + 1 <= Len(p) /\ Type(p, i + 1) = "one"
  BY <1>1, <1>2, <1>4 DEF Regular
<1>7. \A o \in Opening(p) : \E e \in Closing(p) : Pair(p, o, e)
  BY DEF Regular, Opening, Closing, Tokens, Pair
<1>8. \A e \in Closing(p) : \E o \in Opening(p) : Pair(p, o, e)
  BY DEF Regular, Opening, Closing, Tokens, Pair
<1>. QED BY <1>1, <1>2, <1>3, <1>4, <1>5, <1>6, <1>7, <1>8

LEMMA TokensAre ==
  ASSUME NEW p, Regular(p), NEW i \in Int
  PROVE  /\ i \in Opening(p) <=> i >= 1 /\ Type(p, i) = "("
         /\ i \in Closing(p) <=> i >= 1 /\ Type(p, i) = ")"
         /\ i \in Atoms(p) <=> i >= 1 /\ Type(p, i) = "one"
         /\ Opening(p) \subseteq 1..Len(p) /\ Closing(p) \subseteq 1..Len(p) /\ Atoms(p) \subseteq 1..Len(p)
<1>1. i >= 1 /\ i \notin 1..Len(p) => Type(p, i) = "none"
  BY RegularIs
<1>. QED BY <1>1, RegularIs DEF Opening, Closing, Atoms, Tokens

(* What a call skips, and what it then looks at. *)
LEMMA Shape ==
  ASSUME NEW p, Regular(p), NEW i, CallAt(p, i), NEW c \in Captures, Valid(p, i, c)
  PROVE  LET i2 == Skip(p, i, c)
         IN /\ Closes(p, i, c) <=> Type(p, i) = ")"
            /\ i2 \in i..Len(p) + 1
            /\ Type(p, i) = ")" => i + 1 <= i2 /\ i + 1 \in 1..Len(p) + 1 /\ Type(p, i + 1) # ")"
            /\ OpensAt(p, i, c) <=> i2 > i /\ Type(p, i2 - 1) = "("
            /\ Next1(p, i, c) = (IF Type(p, i) = ")" THEN i + 1 ELSE i)
            /\ i2 = (IF OpensAt(p, i, c) THEN Next1(p, i, c) + 1 ELSE Next1(p, i, c))
            /\ Type(p, i2) \in {"one", "none"}
            /\ Type(p, i2) = "none" => i2 = Len(p) + 1
            /\ Type(p, i2) = "one" => /\ i2 \in 1..Len(p)
                                      /\ Type(p, i2 + 1) \notin Signs => CallAt(p, i2 + 1)
                                      /\ Type(p, i2 + 1) \in Signs => i2 + 1 <= Len(p) /\ CallAt(p, i2 + 2)
            /\ Type(p, i2) = "none" => Type(p, i2 + 1) \notin Signs
<1>1. i \in 1..Len(p) + 1 /\ Type(p, i) \notin Signs /\ c.num \in Int /\ Len(p) \in Nat
  BY RegularIs DEF CallAt, Captures
<1>2. "none" \notin Signs /\ "one" \notin Signs /\ "(" \notin Signs /\ ")" \notin Signs
      /\ Signs = {"*", "+", "?"}
  BY DEF Signs
<1>3. Closes(p, i, c) <=> Type(p, i) = ")"
  <2>1. ASSUME Type(p, i) = ")" PROVE c.num > 0
    <3>1. i \in Closing(p)
      BY <1>1, <2>1, TokensAre
    <3>2. PICK o \in Opening(p) : Pair(p, o, i)
      BY <3>1, RegularIs
    <3>. QED BY <3>2 DEF Valid, Pair
  <2>. QED BY <2>1 DEF Closes
<1>. DEFINE i1 == Next1(p, i, c)
<1>4. i1 = IF Type(p, i) = ")" THEN i + 1 ELSE i
  BY <1>3 DEF Next1
<1>5. i \in 1..Len(p) \/ (Type(p, i) = "none" /\ i = Len(p) + 1)
  BY <1>1, RegularIs
<1>6. ASSUME Type(p, i) = ")"
      PROVE  i + 1 \in 1..Len(p) + 1 /\ Type(p, i + 1) # ")" /\ Type(p, i + 1) \notin Signs
  <2>1. i \in 1..Len(p) /\ i \in Closing(p) /\ i + 1 \in Int
    BY <1>1, <1>5, <1>6, TokensAre
  <2>2. Type(p, i + 1) # ")"
    <3>1. SUFFICES ASSUME i + 1 \in Closing(p) PROVE FALSE
      BY <2>1, TokensAre
    <3>2. PICK o \in Opening(p) : Pair(p, o, i + 1)
      BY <3>1, RegularIs
    <3>3. o \in 1..Len(p) /\ o <= i
      BY <2>1, <3>2, TokensAre DEF Pair
    <3>4. o # i
      BY <1>6, <3>3, TokensAre
    <3>5. i \in o + 1..i + 1 - 1 /\ i \in Parens(p)
      BY <2>1, <3>3, <3>4 DEF Parens, Closing
    <3>. QED BY <3>2, <3>5 DEF Pair
  <2>3. Type(p, i + 1) \notin Signs
    <3>1. i + 1 \in 1..Len(p) \/ Type(p, i + 1) = "none"
      BY <2>1, RegularIs
    <3>2. i + 1 - 1 = i
      BY <2>1
    <3>3. i + 1 \in 1..Len(p) /\ Type(p, i + 1) \in Signs => Type(p, i + 1 - 1) = "one"
      BY <2>1, RegularIs
    <3>. QED BY <1>2, <1>6, <3>1, <3>2, <3>3
  <2>. QED BY <2>1, <2>2, <2>3
<1>. HIDE DEF i1
<1>7. i1 \in i..Len(p) + 1 /\ i1 \in 1..Len(p) + 1 /\ Type(p, i1) \notin Signs /\ Type(p, i1) # ")"
  BY <1>1, <1>4, <1>6
<1>8. Type(p, i1) \in {"one", "(", "none"} /\ (Type(p, i1) = "none" <=> i1 = Len(p) + 1)
  BY <1>2, <1>7, RegularIs
<1>. DEFINE i2 == Skip(p, i, c)
<1>9. /\ OpensAt(p, i, c) <=> Type(p, i1) = "("
      /\ i2 = IF OpensAt(p, i, c) THEN i1 + 1 ELSE i1
  BY DEF OpensAt, Skip, i1
<1>10. Type(p, i1) = "(" => i1 \in 1..Len(p) /\ i1 + 1 <= Len(p) /\ Type(p, i1 + 1) = "one"
  BY <1>7, <1>8, RegularIs
<1>. HIDE DEF i2
<1>11. /\ i2 \in i..Len(p) + 1 /\ i2 \in 1..Len(p) + 1
       /\ Type(p, i2) \in {"one", "none"} /\ (Type(p, i2) = "none" <=> i2 = Len(p) + 1)
  BY <1>1, <1>7, <1>8, <1>9, <1>10, RegularIs
<1>12. OpensAt(p, i, c) <=> i2 > i /\ Type(p, i2 - 1) = "("
  <2>1. OpensAt(p, i, c) => i2 > i /\ i2 - 1 = i1
    BY <1>1, <1>7, <1>9
  <2>2. ~OpensAt(p, i, c) /\ i2 > i => i2 - 1 = i /\ Type(p, i) = ")"
    BY <1>1, <1>4, <1>7, <1>9
  <2>. QED BY <1>9, <2>1, <2>2
<1>13. ASSUME Type(p, i2) = "one"
       PROVE  /\ i2 \in 1..Len(p)
              /\ Type(p, i2 + 1) \notin Signs => CallAt(p, i2 + 1)
              /\ Type(p, i2 + 1) \in Signs => i2 + 1 <= Len(p) /\ CallAt(p, i2 + 2)
  <2>1. i2 \in 1..Len(p)
    BY <1>11, <1>13
  <2>2. Type(p, i2 + 1) \in Signs => i2 + 1 \in 1..Len(p)
    BY <1>2, <2>1, RegularIs
  <2>3. Type(p, i2 + 1) \in Signs => Type(p, i2 + 2) \notin Signs
    <3>1. i2 + 2 \in 1..Len(p) \/ Type(p, i2 + 2) = "none"
      BY <2>1, RegularIs
    <3>2. i2 + 2 \in 1..Len(p) /\ Type(p, i2 + 2) \in Signs => Type(p, i2 + 2 - 1) = "one"
      BY <2>1, RegularIs
    <3>3. i2 + 2 - 1 = i2 + 1
      BY <2>1
    <3>. QED BY <1>2, <3>1, <3>2, <3>3
  <2>. QED BY <2>1, <2>2, <2>3 DEF CallAt
<1>14. Type(p, i2) = "none" => Type(p, i2 + 1) \notin Signs
  BY <1>2, <1>11, RegularIs
<1>. QED BY <1>1, <1>3, <1>4, <1>6, <1>9, <1>11, <1>12, <1>13, <1>14 DEF i1, i2

-----------------------------------------------------------------------------
(* The attempts of a repeated token *)

(* All attempts before the j-th fail, and nothing is tried after it. *)
Tried(m, i, ks, try, j, r) ==
  /\ j \in 0..Len(ks) /\ r = try[j]
  /\ \A l \in 1..j : try[l] = m[<<i, ks[l], try[l - 1].caps>>]
  /\ \A l \in 0..j - 1 : ~try[l].ok /\ ~try[l].fatal
  /\ ~r.ok /\ ~r.fatal => j = Len(ks)

Attempted(m, i, ks, c, r) ==
  \E try \in [0..Len(ks) -> Results], j \in 0..Len(ks) : Tried(m, i, ks, try, j, r) /\ try[0] = Fails(c)

(* Backtracking over the ends yields the result of one attempt, before which *)
(* all failed, or a failure after all did.                                   *)
LEMMA BacktrackIs ==
  ASSUME NEW p \in Seq(Token), NEW t \in Seq(Char), NEW i \in 1..Len(p) + 1, NEW m, Typed(p, t, m, i),
         NEW ks \in Seq(1..Len(t) + 1), NEW c \in Captures
  PROVE  Attempted(m, i, ks, c, Backtrack(m, i, ks, c))
<1>. DEFINE try == Attempts(m, i, ks, c)
            N == Len(ks)
            Stops(j) == try[j].ok \/ try[j].fatal
            S == {j \in 0..N : Stops(j) \/ j = N}
<1>1. N \in Nat
  OBVIOUS
<1>2. /\ try \in [0..N -> Results] /\ try[0] = Fails(c)
      /\ \A j \in 1..N : try[j] = IF Stops(j - 1) THEN try[j - 1] ELSE m[<<i, ks[j], try[j - 1].caps>>]
  BY AttemptsIs
<1>3. Backtrack(m, i, ks, c) = try[N]
  BY BacktrackTries
<1>. HIDE DEF try, N, Stops
<1>4. PICK j \in S : \A l \in S : j <= l
  <2>1. S \subseteq Nat /\ N \in S
    BY <1>1
  <2>. HIDE DEF S
  <2>. QED BY <2>1, Least
<1>5. j \in 0..N /\ (Stops(j) \/ j = N)
  BY <1>4
<1>6. \A l \in 0..j - 1 : ~Stops(l)
  BY <1>1, <1>4
<1>7. \A l \in 1..j : try[l] = m[<<i, ks[l], try[l - 1].caps>>]
  BY <1>1, <1>2, <1>5, <1>6
<1>8. try[N] = try[j]
  <2>1. CASE j = N
    BY <2>1
  <2>2. CASE Stops(j)
    <3>. DEFINE Q == {n \in 0..N : n >= j => try[n] = try[j]}
    <3>1. 0 \in Q
      BY <1>1, <1>5
    <3>2. ASSUME NEW n \in 0..N - 1, n \in Q PROVE n + 1 \in Q
      <4>1. n + 1 \in 1..N /\ n + 1 - 1 = n
        BY <1>1
      <4>2. CASE n + 1 <= j
        BY <1>1, <1>5, <4>1, <4>2
      <4>3. CASE n >= j
        <5>1. try[n] = try[j] /\ Stops(n)
          BY <2>2, <3>2, <4>3 DEF Stops
        <5>2. try[n + 1] = IF Stops(n) THEN try[n] ELSE m[<<i, ks[n + 1], try[n].caps>>]
          <6>1. PICK x \in 1..N : x = n + 1 /\ x - 1 = n
            BY <4>1
          <6>2. try[x] = IF Stops(x - 1) THEN try[x - 1] ELSE m[<<i, ks[x], try[x - 1].caps>>]
            BY <1>2, Zenon
          <6>. QED BY <6>1, <6>2, Zenon
        <5>. QED BY <1>1, <4>1, <5>1, <5>2
      <4>. QED BY <1>1, <1>5, <4>2, <4>3
    <3>3. N \in Q
      <4>. HIDE DEF Q
      <4>1. 0..N \subseteq Q
        BY <1>1, <3>1, <3>2, UpTo
      <4>. QED BY <1>1, <4>1
    <3>. QED BY <1>1, <1>5, <3>3
  <2>. QED BY <1>5, <2>1, <2>2
<1>9. Tried(m, i, ks, try, j, Backtrack(m, i, ks, c))
  BY <1>3, <1>5, <1>6, <1>7, <1>8 DEF Tried, Stops, N
<1>. QED BY <1>2, <1>5, <1>9 DEF N, Attempted

(* The token at i may take the characters from k to before e. *)
Takes(p, t, i, k, e) ==
  e - k \in Counts(p, i, Len(t)) /\ \A q \in k..e - 1 : t[q] \in p[i].set

(* The ends tried are those the token may take, in order of preference. *)
LEMMA EndsAre ==
  ASSUME NEW p, Regular(p), NEW t \in Seq(Char), NEW i \in 1..Len(p), NEW k \in 1..Len(t) + 1,
         Type(p, i + 1) \in Signs
  PROVE  LET ks == Ends(p, i, t, k)
         IN /\ ks \in Seq(1..Len(t) + 1)
            /\ \A l \in 1..Len(ks) : Takes(p, t, i, k, ks[l])
            /\ \A e \in 1..Len(t) + 1 : Takes(p, t, i, k, e) => \E l \in 1..Len(ks) : ks[l] = e
            /\ \A l, j \in 1..Len(ks) : l < j =>
                 IF Type(p, i + 1) = "?" THEN ks[l] < ks[j] ELSE ks[l] > ks[j]
<1>. DEFINE n == Run(p, i, t, k)
            Down(least) == [j \in 1..(n - least + 1) |-> k + n + 1 - j]
            Few == IF n = 0 THEN <<k>> ELSE <<k, k + 1>>
            ks == Ends(p, i, t, k)
<1>1. /\ n \in 0..Len(t) - k + 1 /\ Len(t) \in Nat
      /\ \A j \in 0..n - 1 : t[k + j] \in p[i].set
      /\ k + n <= Len(t) => t[k + n] \notin p[i].set
  <2>1. i <= Len(p) /\ Len(t) \in Nat
    OBVIOUS
  <2>2. /\ n \in 0..Len(t) - k + 1
        /\ \A j \in 0..n - 1 : ReMatchOne(p, i, t[k + j])
        /\ k + n <= Len(t) => ~ReMatchOne(p, i, t[k + n])
    BY RunIs
  <2>. HIDE DEF n
  <2>. QED BY <2>1, <2>2 DEF ReMatchOne
<1>2. /\ Type(p, i + 1) = "*" => ks = Down(0)
      /\ Type(p, i + 1) = "+" => ks = Down(1)
      /\ Type(p, i + 1) = "?" => ks = Few
  <2>. HIDE DEF n
  <2>. QED BY DEF Ends, n
<1>3. ks \in Seq(1..Len(t) + 1)
  BY EndsTyped
<1>. HIDE DEF n, ks
<1>4. \A e \in k..k + n : \A q \in k..e - 1 : t[q] \in p[i].set
  <2>. SUFFICES ASSUME NEW e \in k..k + n, NEW q \in k..e - 1 PROVE t[q] \in p[i].set
    OBVIOUS
  <2>1. q - k \in 0..n - 1 /\ k + (q - k) = q
    BY <1>1
  <2>. QED BY <1>1, <2>1
<1>5. ASSUME NEW e \in 1..Len(t) + 1, e >= k, \A q \in k..e - 1 : t[q] \in p[i].set
      PROVE  e <= k + n
  <2>1. SUFFICES ASSUME e > k + n PROVE FALSE
    BY <1>1
  <2>2. k + n \in k..e - 1 /\ k + n <= Len(t)
    BY <1>1, <2>1
  <2>. QED BY <1>1, <1>5, <2>2
<1>6. /\ Type(p, i + 1) = "*" => Counts(p, i, Len(t)) = 0..Len(t)
      /\ Type(p, i + 1) = "+" => Counts(p, i, Len(t)) = 1..Len(t)
      /\ Type(p, i + 1) = "?" => Counts(p, i, Len(t)) = {0, 1}
  BY DEF Counts
<1>7. ASSUME NEW least \in {0, 1}, Counts(p, i, Len(t)) = least..Len(t), ks = Down(least)
      PROVE  /\ \A l \in 1..Len(ks) : Takes(p, t, i, k, ks[l])
             /\ \A e \in 1..Len(t) + 1 : Takes(p, t, i, k, e) => \E l \in 1..Len(ks) : ks[l] = e
             /\ \A l, j \in 1..Len(ks) : l < j => ks[l] > ks[j]
  <2>1. n - least + 1 \in Nat
    BY <1>1
  <2>2. /\ Len(ks) = n - least + 1 /\ Len(ks) \in Nat /\ least \in Nat
        /\ \A j \in 1..Len(ks) : ks[j] = k + n + 1 - j
    BY <1>7, <2>1
  <2>3. ASSUME NEW l \in 1..Len(ks) PROVE Takes(p, t, i, k, ks[l])
    <3>1. PICK e : e = k + n + 1 - l
      OBVIOUS
    <3>2. ks[l] = e /\ l \in 1..n - least + 1
      BY <2>2, <3>1
    <3>3. n \in 0..Len(t) - k + 1 /\ Len(t) \in Nat
      BY <1>1
    <3>4. e \in k..k + n /\ e - k \in least..Len(t)
      BY <3>1, <3>2, <3>3
    <3>5. Takes(p, t, i, k, e)
      BY <1>4, <1>7, <3>4 DEF Takes
    <3>. QED BY <3>2, <3>5
  <2>4. ASSUME NEW e \in 1..Len(t) + 1, Takes(p, t, i, k, e) PROVE \E l \in 1..Len(ks) : ks[l] = e
    <3>1. e - k \in least..Len(t) /\ \A q \in k..e - 1 : t[q] \in p[i].set
      BY <1>7, <2>4 DEF Takes
    <3>2. e <= k + n
      BY <1>1, <1>5, <3>1
    <3>3. k + n + 1 - e \in 1..Len(ks) /\ k + n + 1 - (k + n + 1 - e) = e
      BY <1>1, <2>2, <3>1, <3>2
    <3>. QED BY <2>2, <3>3
  <2>5. ASSUME NEW l \in 1..Len(ks), NEW j \in 1..Len(ks), l < j PROVE ks[l] > ks[j]
    <3>1. ks[l] = k + n + 1 - l /\ ks[j] = k + n + 1 - j
      BY <2>2
    <3>. QED BY <1>1, <2>2, <2>5, <3>1
  <2>. QED BY <2>3, <2>4, <2>5
<1>8. CASE Type(p, i + 1) = "*"
  <2>. HIDE DEF Down
  <2>. QED BY <1>2, <1>3, <1>6, <1>7, <1>8 DEF ks
<1>9. CASE Type(p, i + 1) = "+"
  <2>. HIDE DEF Down
  <2>. QED BY <1>2, <1>3, <1>6, <1>7, <1>9 DEF ks
<1>10. CASE Type(p, i + 1) = "?"
  <2>1. ks = Few /\ Counts(p, i, Len(t)) = {0, 1}
    BY <1>2, <1>6, <1>10
  <2>2. ASSUME NEW e \in {k, k + 1}, e <= k + n PROVE Takes(p, t, i, k, e)
    <3>1. e - k \in {0, 1} /\ e \in k..k + n
      BY <1>1, <2>2
    <3>. QED BY <1>4, <2>1, <3>1 DEF Takes
  <2>3. ASSUME NEW e \in 1..Len(t) + 1, Takes(p, t, i, k, e) PROVE e \in {k, k + 1} /\ e <= k + n
    <3>1. e \in {k, k + 1} /\ \A q \in k..e - 1 : t[q] \in p[i].set
      BY <2>1, <2>3 DEF Takes
    <3>. QED BY <1>5, <3>1
  <2>4. n = 0 => ks = <<k>>
    BY <2>1
  <2>5. n # 0 => ks = <<k, k + 1>> /\ k + 1 <= k + n
    BY <1>1, <2>1
  <2>6. \A l \in 1..Len(ks) : ks[l] \in {k, k + 1} /\ ks[l] <= k + n
    <3>1. CASE n = 0
      <4>1. Len(ks) = 1 /\ ks[1] = k /\ k <= k + n
        BY <2>4, <3>1
      <4>. QED BY <4>1
    <3>2. CASE n # 0
      <4>1. Len(ks) = 2 /\ ks[1] = k /\ ks[2] = k + 1
        BY <2>5, <3>2
      <4>2. k <= k + n /\ k + 1 <= k + n
        BY <1>1, <2>5, <3>2
      <4>. QED BY <4>1, <4>2
    <3>. QED BY <3>1, <3>2
  <2>7. \A e \in {k, k + 1} : e <= k + n => \E l \in 1..Len(ks) : ks[l] = e
    <3>1. n = 0 => Len(ks) = 1 /\ ks[1] = k /\ ~(k + 1 <= k + n)
      BY <2>4
    <3>2. n # 0 => Len(ks) = 2 /\ ks[1] = k /\ ks[2] = k + 1
      BY <2>5
    <3>. QED BY <1>1, <3>1, <3>2
  <2>8. \A l, j \in 1..Len(ks) : l < j => ks[l] < ks[j]
    BY <2>4, <2>5
  <2>. QED BY <1>3, <1>10, <2>2, <2>3, <2>6, <2>7, <2>8 DEF ks
<1>. QED BY <1>8, <1>9, <1>10 DEF ks, Signs

(* What holds before the first attempt, and after a failed one if before it, *)
(* holds before every attempt made.                                         *)
Keeps(m, i, ks, j, G) ==
  \A l \in 1..j - 1, d \in G :
    ~m[<<i, ks[l], d>>].ok /\ ~m[<<i, ks[l], d>>].fatal => m[<<i, ks[l], d>>].caps \in G
Kept(try, j, G) == \A l \in 1..j : try[l - 1].caps \in G

LEMMA BeforeAttempts ==
  ASSUME NEW m, NEW i, NEW ks, Len(ks) \in Nat, NEW try, NEW j, NEW r, Tried(m, i, ks, try, j, r),
         NEW G, try[0].caps \in G, Keeps(m, i, ks, j, G)
  PROVE  Kept(try, j, G)
<1>1. /\ Len(ks) \in Nat /\ j \in 0..Len(ks)
      /\ \A l \in 1..j : try[l] = m[<<i, ks[l], try[l - 1].caps>>]
      /\ \A l \in 0..j - 1 : ~try[l].ok /\ ~try[l].fatal
  BY DEF Tried
<1>. DEFINE Q == {l \in 0..j : l < j => try[l].caps \in G}
<1>2. 0 \in Q
  BY <1>1
<1>3. ASSUME NEW l \in 0..j - 1, l \in Q PROVE l + 1 \in Q
  <2>1. SUFFICES ASSUME l + 1 < j PROVE try[l + 1].caps \in G
    BY <1>1
  <2>2. l + 1 \in 1..j /\ l + 1 \in 1..j - 1 /\ l + 1 \in 0..j - 1 /\ l + 1 - 1 = l
    BY <1>1, <2>1
  <2>3. try[l].caps \in G
    BY <1>1, <1>3
  <2>4. try[l + 1] = m[<<i, ks[l + 1], try[l + 1 - 1].caps>>]
    BY <1>1, <2>2
  <2>5. try[l + 1] = m[<<i, ks[l + 1], try[l].caps>>]
    BY <2>2, <2>4
  <2>. QED BY <1>1, <2>2, <2>3, <2>5 DEF Keeps
<1>4. \A l \in 0..j : l \in Q
  <2>. HIDE DEF Q
  <2>1. j \in Nat
    BY <1>1
  <2>2. 0..j \subseteq Q
    BY <1>2, <1>3, <2>1, UpTo
  <2>. QED BY <2>2
<1>5. ASSUME NEW l \in 1..j PROVE try[l - 1].caps \in G
  <2>1. l - 1 \in 0..j /\ l - 1 < j
    BY <1>1
  <2>2. l - 1 \in Q
    BY <1>4, <2>1
  <2>. QED BY <2>1, <2>2
<1>. QED BY <1>5 DEF Kept

(* Induction from the last token to the first. *)
LEMMA Downward ==
  ASSUME NEW N \in Nat, NEW S, \A i \in 1..N : (\A j \in i + 1..N : j \in S) => i \in S
  PROVE  1..N \subseteq S
<1>. DEFINE T == {n \in 0..N : \A j \in N + 1 - n..N : j \in S}
<1>1. 0 \in T
  OBVIOUS
<1>2. ASSUME NEW n \in 0..N - 1, n \in T PROVE n + 1 \in T
  <2>1. N - n \in 1..N /\ n + 1 \in 0..N
    OBVIOUS
  <2>2. N - n \in S
    <3>1. \A j \in N - n + 1..N : j \in S
      BY <1>2
    <3>. QED BY <2>1, <3>1
  <2>3. \A j \in N + 1 - (n + 1)..N : j \in N + 1 - n..N \/ j = N - n
    OBVIOUS
  <2>. QED BY <1>2, <2>1, <2>2, <2>3
<1>3. N \in T
  <2>. HIDE DEF T
  <2>1. 0..N \subseteq T
    BY <1>1, <1>2, UpTo
  <2>. QED BY <2>1
<1>. QED BY <1>3

-----------------------------------------------------------------------------
(* A call of the matcher on a regular pattern *)

LEMMA CapturesNum == ASSUME NEW c \in Captures PROVE c.num \in Nat
BY DEF Captures

CallCases(p, t, i, k, c, m, r, i2, c2, ks) ==
  /\ r \in Results
  /\ ~Full(p, i, c) => c2 \in Captures
  /\ Full(p, i, c) => r = RunsOut(Closed(p, i, k, c))
  /\ ~Full(p, i, c) /\ Type(p, i2) = "none" => r = IF k > Len(t) THEN Matches(c2) ELSE Fails(c2)
  /\ ~Full(p, i, c) /\ Type(p, i2) = "one" /\ Type(p, i2 + 1) \notin Signs =>
       IF k <= Len(t) /\ t[k] \in p[i2].set THEN r = m[<<i2 + 1, k + 1, c2>>] ELSE r = Fails(c2)
  /\ ~Full(p, i, c) /\ Type(p, i2) = "one" /\ Type(p, i2 + 1) \in Signs =>
       ks \in Seq(1..Len(t) + 1) /\ Attempted(m, i2 + 2, ks, c2, r)

LEMMA CallIs ==
  ASSUME NEW p, Regular(p), NEW t \in Seq(Char), NEW i, CallAt(p, i), NEW k \in 1..Len(t) + 1,
         NEW c \in Captures, Valid(p, i, c)
  PROVE  CallCases(p, t, i, k, c, Matcher(p, t), Matcher(p, t)[<<i, k, c>>], Skip(p, i, c),
                   Entered(p, i, t, k, c), Ends(p, Skip(p, i, c), t, k))
<1>. DEFINE m == Matcher(p, t)
            r == m[<<i, k, c>>]
            i2 == Skip(p, i, c)
            c2 == Entered(p, i, t, k, c)
            ks == Ends(p, i2, t, k)
<1>1. p \in Seq(Token) /\ i \in 1..Len(p) + 1
  BY DEF Regular, CallAt
<1>2. Typed(p, t, m, 1) /\ Solves(p, t, m, 1)
  BY <1>1, MatcherIs
<1>3. r \in Results /\ r = MatchFrom(m, p, i, t, k, c)
  BY <1>1, <1>2 DEF Typed, Solves
<1>4. ~Full(p, i, c) => c2 \in Captures
  BY <1>1, EnteredTyped
<1>5. /\ Type(p, i2) \in {"one", "none"} /\ i2 \in Nat /\ Len(p) \in Nat
      /\ Type(p, i2) = "none" => i2 = Len(p) + 1 /\ Type(p, i2 + 1) \notin Signs
      /\ Type(p, i2) = "one" => i2 \in 1..Len(p)
      /\ Type(p, i2) = "one" /\ Type(p, i2 + 1) \in Signs => i2 + 1 <= Len(p)
  BY <1>1, Shape
<1>. HIDE DEF m, i2, c2, ks
<1>6. r = IF Full(p, i, c) THEN RunsOut(Closed(p, i, k, c))
          ELSE IF Type(p, i2 + 1) \in Signs THEN Backtrack(m, i2 + 2, ks, c2)
          ELSE IF Type(p, i2) = "none" /\ k > Len(t) THEN Matches(c2)
          ELSE IF k <= Len(t) /\ ReMatchOne(p, i2, t[k]) THEN m[<<i2 + 1, k + 1, c2>>]
          ELSE Fails(c2)
  BY <1>1, <1>3, MatchFromIs DEF i2, c2, ks
<1>. HIDE DEF r
<1>7. ASSUME ~Full(p, i, c), Type(p, i2) = "none" PROVE r = IF k > Len(t) THEN Matches(c2) ELSE Fails(c2)
  BY <1>5, <1>6, <1>7 DEF ReMatchOne
<1>8. ASSUME ~Full(p, i, c), Type(p, i2) = "one", Type(p, i2 + 1) \notin Signs
      PROVE  IF k <= Len(t) /\ t[k] \in p[i2].set THEN r = m[<<i2 + 1, k + 1, c2>>] ELSE r = Fails(c2)
  <2>1. i2 <= Len(p)
    BY <1>5, <1>8
  <2>. QED BY <1>6, <1>8, <2>1 DEF ReMatchOne
<1>9. ASSUME ~Full(p, i, c), Type(p, i2) = "one", Type(p, i2 + 1) \in Signs
      PROVE  /\ ks \in Seq(1..Len(t) + 1)
             /\ Attempted(m, i2 + 2, ks, c2, r)
  <2>1. ks \in Seq(1..Len(t) + 1)
    BY <1>9, EndsTyped DEF ks
  <2>2. i2 + 2 \in 1..Len(p) + 1
    BY <1>5, <1>9
  <2>3. Typed(p, t, m, i2 + 2)
    <3>1. \A q \in i2 + 2..Len(p) + 1 : q \in 1..Len(p) + 1
      BY <2>2
    <3>. QED BY <1>2, <3>1 DEF Typed
  <2>4. r = Backtrack(m, i2 + 2, ks, c2)
    BY <1>6, <1>9
  <2>5. c2 \in Captures /\ p \in Seq(Token)
    BY <1>1, <1>4, <1>9
  <2>6. Attempted(m, i2 + 2, ks, c2, Backtrack(m, i2 + 2, ks, c2))
    BY <2>1, <2>2, <2>3, <2>5, BacktrackIs
  <2>. QED BY <2>1, <2>4, <2>6
<1>10. CallCases(p, t, i, k, c, m, r, i2, c2, ks)
  BY <1>3, <1>4, <1>6, <1>7, <1>8, <1>9 DEF CallCases
<1>. QED BY <1>10 DEF m, r, i2, c2, ks

(* The captures a call goes on with fit the next call. *)
LEMMA EnteredValid ==
  ASSUME NEW p, Regular(p), NEW t \in Seq(Char), NEW i, CallAt(p, i), NEW k \in 1..Len(t) + 1,
         NEW c \in Captures, Valid(p, i, c), ~Full(p, i, c)
  PROVE  LET i2 == Skip(p, i, c)
             c2 == Entered(p, i, t, k, c)
         IN /\ c2.num = IF OpensAt(p, i, c) THEN c.num + 1 ELSE c.num
            /\ c2.num >= c.num
            /\ \A j \in {i2 + 1, i2 + 2}, d \in Captures :
                 Type(p, i2) = "one" /\ (j = i2 + 2 => Type(p, i2 + 1) \in Signs) /\ d.num >= c2.num => Valid(p, j, d)
<1>. DEFINE i2 == Skip(p, i, c)
            c2 == Entered(p, i, t, k, c)
<1>1. i \in 1..Len(p) + 1 /\ Len(p) \in Nat /\ p \in Seq(Token) /\ c.num \in Nat
  BY RegularIs DEF CallAt, Captures
<1>2. Closed(p, i, k, c).num = c.num /\ Closed(p, i, k, c) \in Captures
  BY <1>1, EnteredTyped
<1>3. c2.num = IF OpensAt(p, i, c) THEN c.num + 1 ELSE c.num
  <2>1. CASE OpensAt(p, i, c)
    <3>1. c.num # MAXRECAPTURE
      BY <2>1 DEF Full
    <3>. QED BY <1>2, <2>1, <3>1, OpenTyped DEF Entered
  <2>2. CASE ~OpensAt(p, i, c)
    BY <1>2, <2>2 DEF Entered
  <2>. QED BY <2>1, <2>2
<1>4. /\ i2 \in i..Len(p) + 1
      /\ OpensAt(p, i, c) <=> i2 > i /\ Type(p, i2 - 1) = "("
      /\ i2 = i \/ i2 = i + 1 \/ i2 = i + 2
      /\ i2 > i => Type(p, i) = ")" \/ Type(p, i2 - 1) = "("
      /\ i2 = i + 2 => Type(p, i) = ")"
  <2>1. /\ i2 \in i..Len(p) + 1
        /\ OpensAt(p, i, c) <=> i2 > i /\ Type(p, i2 - 1) = "("
        /\ Next1(p, i, c) = (IF Type(p, i) = ")" THEN i + 1 ELSE i)
        /\ i2 = (IF OpensAt(p, i, c) THEN Next1(p, i, c) + 1 ELSE Next1(p, i, c))
    BY Shape
  <2>. HIDE DEF i2
  <2>. QED BY <1>1, <2>1
<1>. HIDE DEF i2, c2
<1>5. ASSUME NEW j \in {i2 + 1, i2 + 2}, NEW d \in Captures, Type(p, i2) = "one",
             j = i2 + 2 => Type(p, i2 + 1) \in Signs, d.num >= c2.num, NEW o \in Opening(p), o < j
      PROVE  d.num > 0
  <2>1. o \in 1..Len(p) /\ Type(p, o) = "("
    BY TokensAre
  <2>2. "(" \notin Signs
    BY DEF Signs
  <2>3. o < i2
    BY <1>1, <1>4, <1>5, <2>1, <2>2
  <2>4. CASE o < i
    <3>1. c.num > 0
      BY <2>4 DEF Valid
    <3>. QED BY <1>1, <1>3, <1>5, <3>1 DEF Captures
  <2>5. CASE o >= i
    <3>1. i2 > i /\ o = i2 - 1
      BY <1>1, <1>4, <2>1, <2>3, <2>5
    <3>2. OpensAt(p, i, c)
      BY <1>4, <2>1, <3>1
    <3>. QED BY <1>1, <1>3, <1>5, <3>2 DEF Captures
  <2>. QED BY <1>1, <2>1, <2>4, <2>5
<1>6. c2.num >= c.num
  BY <1>1, <1>3
<1>. QED BY <1>3, <1>5, <1>6 DEF Valid, i2, c2

-----------------------------------------------------------------------------
(* Walks: where every token begins, from the i-th on *)

Positions(p, t) == [1..Len(p) + 1 -> 1..Len(t) + 1]
Moves(p, t, s, j) ==
  IF Type(p, j) = "one" THEN Takes(p, t, j, s[j], s[j + 1]) ELSE s[j + 1] = s[j]
Walk(p, t, s, i) ==
  /\ s \in Positions(p, t)
  /\ \A j \in i..Len(p) : Moves(p, t, s, j)
  /\ s[Len(p) + 1] = Len(t) + 1

(* The token at q is meant to end at e rather than at f. *)
Preferable(p, q, e, f) == IF Type(p, q + 1) = "?" THEN e < f ELSE e > f
Prefers(p, s, r, i) ==
  \E q \in i..Len(p) : /\ Type(p, q) = "one"
                       /\ \A j \in i..q : s[j] = r[j]
                       /\ Preferable(p, q, s[q + 1], r[q + 1])
Best(p, t, s, i) ==
  /\ Walk(p, t, s, i)
  /\ \A r : Walk(p, t, r, i) /\ r[i] = s[i] =>
       (\A q \in i..Len(p) + 1 : r[q] = s[q]) \/ Prefers(p, s, r, i)

HasWalk(p, t, i, k) == \E s : Walk(p, t, s, i) /\ s[i] = k
HasBest(p, t, i, k) == \E s : Best(p, t, s, i) /\ s[i] = k

(* A walk from the next token on depends only on where the later ones begin. *)
LEMMA WalkChanged ==
  ASSUME NEW p \in Seq(Token), NEW t \in Seq(Char), NEW q \in 1..Len(p), NEW s, Walk(p, t, s, q + 1),
         NEW k \in 1..Len(t) + 1
  PROVE  LET u == [s EXCEPT ![q] = k]
         IN /\ Walk(p, t, u, q + 1) /\ u[q] = k /\ \A j \in 1..Len(p) + 1 : j # q => u[j] = s[j]
            /\ Best(p, t, s, q + 1) => Best(p, t, u, q + 1)
<1>. DEFINE u == [s EXCEPT ![q] = k]
<1>1. u \in Positions(p, t) /\ u[q] = k /\ \A j \in 1..Len(p) + 1 : j # q => u[j] = s[j]
  BY DEF Walk, Positions
<1>. HIDE DEF u
<1>2. \A j \in q + 1..Len(p) + 1 : u[j] = s[j]
  BY <1>1
<1>3. Walk(p, t, u, q + 1)
  <2>1. \A j \in q + 1..Len(p) : u[j] = s[j] /\ u[j + 1] = s[j + 1]
    BY <1>2
  <2>2. u[Len(p) + 1] = s[Len(p) + 1]
    BY <1>2
  <2>. QED BY <1>1, <2>1, <2>2 DEF Walk, Moves
<1>4. ASSUME Best(p, t, s, q + 1) PROVE Best(p, t, u, q + 1)
  <2>1. SUFFICES ASSUME NEW r, Walk(p, t, r, q + 1), r[q + 1] = u[q + 1]
                 PROVE  (\A j \in q + 1..Len(p) + 1 : r[j] = u[j]) \/ Prefers(p, u, r, q + 1)
    BY <1>3 DEF Best
  <2>2. (\A j \in q + 1..Len(p) + 1 : r[j] = s[j]) \/ Prefers(p, s, r, q + 1)
    BY <1>2, <1>4, <2>1 DEF Best
  <2>3. ASSUME Prefers(p, s, r, q + 1) PROVE Prefers(p, u, r, q + 1)
    <3>1. PICK n \in q + 1..Len(p) : /\ Type(p, n) = "one"
                                     /\ \A j \in q + 1..n : s[j] = r[j]
                                     /\ Preferable(p, n, s[n + 1], r[n + 1])
      BY <2>3 DEF Prefers
    <3>2. n + 1 \in q + 1..Len(p) + 1 /\ \A j \in q + 1..n : j \in q + 1..Len(p) + 1
      OBVIOUS
    <3>. QED BY <1>2, <3>1, <3>2 DEF Prefers
  <2>. QED BY <1>2, <2>2, <2>3
<1>. QED BY <1>1, <1>3, <1>4 DEF u

LEMMA WalkFrom ==
  ASSUME NEW p \in Seq(Token), NEW t \in Seq(Char), NEW q \in 1..Len(p), NEW s
  PROVE  Walk(p, t, s, q) <=> Walk(p, t, s, q + 1) /\ Moves(p, t, s, q)
<1>1. \A j \in q..Len(p) : j = q \/ j \in q + 1..Len(p)
  OBVIOUS
<1>2. \A j \in q + 1..Len(p) : j \in q..Len(p)
  OBVIOUS
<1>3. q \in q..Len(p)
  OBVIOUS
<1>. QED BY <1>1, <1>2, <1>3 DEF Walk

LEMMA WalkTyped ==
  ASSUME NEW p \in Seq(Token), NEW t \in Seq(Char), NEW i, NEW s, Walk(p, t, s, i), NEW q \in 1..Len(p) + 1
  PROVE  s[q] \in 1..Len(t) + 1
BY DEF Walk, Positions

LEMMA WalkEnds ==
  ASSUME NEW p \in Seq(Token), NEW t \in Seq(Char), NEW k \in 1..Len(t) + 1
  PROVE  /\ HasWalk(p, t, Len(p) + 1, k) <=> k = Len(t) + 1
         /\ k = Len(t) + 1 => HasBest(p, t, Len(p) + 1, k)
<1>. DEFINE N == Len(p) + 1
            u == [j \in 1..N |-> k]
<1>1. N \in 1..N /\ Len(p) \in Nat /\ \A j \in N..Len(p) : FALSE
  OBVIOUS
<1>2. ASSUME NEW s, Walk(p, t, s, N) PROVE s[N] = Len(t) + 1
  BY <1>2 DEF Walk
<1>3. u \in Positions(p, t) /\ u[N] = k
  BY <1>1 DEF Positions
<1>. HIDE DEF N, u
<1>4. k = Len(t) + 1 => Walk(p, t, u, N)
  BY <1>1, <1>3 DEF Walk, N
<1>5. k = Len(t) + 1 => Best(p, t, u, N)
  <2>1. \A q \in N..Len(p) + 1 : q = N
    BY <1>1 DEF N
  <2>. QED BY <1>4, <2>1 DEF Best
<1>. QED BY <1>2, <1>3, <1>4, <1>5 DEF HasWalk, HasBest, N

(* A token that takes no characters. *)
LEMMA WalkOver ==
  ASSUME NEW p \in Seq(Token), NEW t \in Seq(Char), NEW q \in 1..Len(p), Type(p, q) # "one",
         NEW k \in 1..Len(t) + 1
  PROVE  /\ HasWalk(p, t, q, k) <=> HasWalk(p, t, q + 1, k)
         /\ HasBest(p, t, q + 1, k) => HasBest(p, t, q, k)
<1>1. q \in 1..Len(p) + 1 /\ q + 1 \in 1..Len(p) + 1 /\ q + 1 # q
  OBVIOUS
<1>2. ASSUME HasWalk(p, t, q, k) PROVE HasWalk(p, t, q + 1, k)
  <2>1. PICK s : Walk(p, t, s, q) /\ s[q] = k
    BY <1>2 DEF HasWalk
  <2>2. Walk(p, t, s, q + 1) /\ s[q + 1] = k
    BY <2>1, WalkFrom DEF Moves
  <2>. QED BY <2>2 DEF HasWalk
<1>3. ASSUME NEW s, Walk(p, t, s, q + 1), s[q + 1] = k
      PROVE  \E u : /\ Walk(p, t, u, q) /\ u[q] = k /\ u[q + 1] = k
                    /\ Best(p, t, s, q + 1) => Best(p, t, u, q + 1)
  <2>. DEFINE u == [s EXCEPT ![q] = k]
  <2>1. /\ Walk(p, t, u, q + 1) /\ u[q] = k /\ \A j \in 1..Len(p) + 1 : j # q => u[j] = s[j]
        /\ Best(p, t, s, q + 1) => Best(p, t, u, q + 1)
    BY <1>3, WalkChanged
  <2>. HIDE DEF u
  <2>2. u[q + 1] = k
    BY <1>1, <1>3, <2>1
  <2>3. Walk(p, t, u, q)
    BY <2>1, <2>2, WalkFrom DEF Moves
  <2>. QED BY <2>1, <2>2, <2>3
<1>4. ASSUME HasWalk(p, t, q + 1, k) PROVE HasWalk(p, t, q, k)
  BY <1>3, <1>4 DEF HasWalk
<1>5. ASSUME HasBest(p, t, q + 1, k) PROVE HasBest(p, t, q, k)
  <2>1. PICK s : Best(p, t, s, q + 1) /\ s[q + 1] = k
    BY <1>5 DEF HasBest
  <2>2. PICK u : Walk(p, t, u, q) /\ u[q] = k /\ u[q + 1] = k /\ Best(p, t, u, q + 1)
    BY <1>3, <2>1 DEF Best
  <2>3. ASSUME NEW r, Walk(p, t, r, q), r[q] = u[q]
        PROVE  (\A j \in q..Len(p) + 1 : r[j] = u[j]) \/ Prefers(p, u, r, q)
    <3>1. Walk(p, t, r, q + 1) /\ r[q + 1] = u[q + 1]
      BY <2>2, <2>3, WalkFrom DEF Moves
    <3>2. (\A j \in q + 1..Len(p) + 1 : r[j] = u[j]) \/ Prefers(p, u, r, q + 1)
      BY <2>2, <3>1 DEF Best
    <3>3. \A j \in q..Len(p) + 1 : j = q \/ j \in q + 1..Len(p) + 1
      OBVIOUS
    <3>4. ASSUME Prefers(p, u, r, q + 1) PROVE Prefers(p, u, r, q)
      <4>1. PICK n \in q + 1..Len(p) : /\ Type(p, n) = "one"
                                       /\ \A j \in q + 1..n : u[j] = r[j]
                                       /\ Preferable(p, n, u[n + 1], r[n + 1])
        BY <3>4 DEF Prefers
      <4>2. n \in q..Len(p) /\ \A j \in q..n : j = q \/ j \in q + 1..n
        OBVIOUS
      <4>. QED BY <2>3, <4>1, <4>2 DEF Prefers
    <3>. QED BY <2>3, <3>2, <3>3, <3>4
  <2>. QED BY <2>2, <2>3 DEF HasBest, Best
<1>. QED BY <1>2, <1>4, <1>5

(* A token that takes characters. *)
LEMMA WalkTakes ==
  ASSUME NEW p \in Seq(Token), NEW t \in Seq(Char), NEW q \in 1..Len(p), Type(p, q) = "one",
         NEW k \in 1..Len(t) + 1
  PROVE  /\ HasWalk(p, t, q, k) <=> \E e \in 1..Len(t) + 1 : Takes(p, t, q, k, e) /\ HasWalk(p, t, q + 1, e)
         /\ \A e \in 1..Len(t) + 1 :
              /\ Takes(p, t, q, k, e) /\ HasBest(p, t, q + 1, e)
              /\ \A f \in 1..Len(t) + 1 :
                   Takes(p, t, q, k, f) /\ HasWalk(p, t, q + 1, f) => f = e \/ Preferable(p, q, e, f)
              => HasBest(p, t, q, k)
<1>1. q \in 1..Len(p) + 1 /\ q + 1 \in 1..Len(p) + 1 /\ q + 1 # q
  OBVIOUS
<1>2. ASSUME NEW s, Walk(p, t, s, q), s[q] = k
      PROVE  s[q + 1] \in 1..Len(t) + 1 /\ Takes(p, t, q, k, s[q + 1]) /\ HasWalk(p, t, q + 1, s[q + 1])
  BY <1>1, <1>2, WalkFrom, WalkTyped DEF Moves, HasWalk
<1>3. ASSUME NEW e \in 1..Len(t) + 1, Takes(p, t, q, k, e), NEW s, Walk(p, t, s, q + 1), s[q + 1] = e
      PROVE  \E u : /\ Walk(p, t, u, q) /\ u[q] = k /\ u[q + 1] = e
                    /\ Best(p, t, s, q + 1) => Best(p, t, u, q + 1)
  <2>. DEFINE u == [s EXCEPT ![q] = k]
  <2>1. /\ Walk(p, t, u, q + 1) /\ u[q] = k /\ \A j \in 1..Len(p) + 1 : j # q => u[j] = s[j]
        /\ Best(p, t, s, q + 1) => Best(p, t, u, q + 1)
    BY <1>3, WalkChanged
  <2>. HIDE DEF u
  <2>2. u[q + 1] = e
    BY <1>1, <1>3, <2>1
  <2>3. Walk(p, t, u, q)
    BY <1>3, <2>1, <2>2, WalkFrom DEF Moves
  <2>. QED BY <2>1, <2>2, <2>3
<1>4. HasWalk(p, t, q, k) => \E e \in 1..Len(t) + 1 : Takes(p, t, q, k, e) /\ HasWalk(p, t, q + 1, e)
  <2>1. SUFFICES ASSUME HasWalk(p, t, q, k)
                 PROVE  \E e \in 1..Len(t) + 1 : Takes(p, t, q, k, e) /\ HasWalk(p, t, q + 1, e)
    OBVIOUS
  <2>2. PICK s : Walk(p, t, s, q) /\ s[q] = k
    BY <2>1 DEF HasWalk
  <2>. QED BY <1>2, <2>2
<1>5. ASSUME NEW e \in 1..Len(t) + 1, Takes(p, t, q, k, e), HasWalk(p, t, q + 1, e)
      PROVE  HasWalk(p, t, q, k)
  <2>1. PICK s : Walk(p, t, s, q + 1) /\ s[q + 1] = e
    BY <1>5 DEF HasWalk
  <2>2. \E u : Walk(p, t, u, q) /\ u[q] = k
    BY <1>3, <1>5, <2>1
  <2>. QED BY <2>2 DEF HasWalk
<1>6. ASSUME NEW e \in 1..Len(t) + 1, Takes(p, t, q, k, e), HasBest(p, t, q + 1, e),
             \A f \in 1..Len(t) + 1 :
               Takes(p, t, q, k, f) /\ HasWalk(p, t, q + 1, f) => f = e \/ Preferable(p, q, e, f)
      PROVE  HasBest(p, t, q, k)
  <2>1. PICK s : Best(p, t, s, q + 1) /\ s[q + 1] = e
    BY <1>6 DEF HasBest
  <2>2. PICK u : Walk(p, t, u, q) /\ u[q] = k /\ u[q + 1] = e /\ Best(p, t, u, q + 1)
    BY <1>3, <1>6, <2>1 DEF Best
  <2>3. ASSUME NEW r, Walk(p, t, r, q), r[q] = u[q]
        PROVE  (\A j \in q..Len(p) + 1 : r[j] = u[j]) \/ Prefers(p, u, r, q)
    <3>1. CASE r[q + 1] = e
      <4>1. Walk(p, t, r, q + 1) /\ r[q + 1] = u[q + 1]
        BY <2>2, <2>3, <3>1, WalkFrom
      <4>2. (\A j \in q + 1..Len(p) + 1 : r[j] = u[j]) \/ Prefers(p, u, r, q + 1)
        BY <2>2, <4>1 DEF Best
      <4>3. \A j \in q..Len(p) + 1 : j = q \/ j \in q + 1..Len(p) + 1
        OBVIOUS
      <4>4. ASSUME Prefers(p, u, r, q + 1) PROVE Prefers(p, u, r, q)
        <5>1. PICK n \in q + 1..Len(p) : /\ Type(p, n) = "one"
                                         /\ \A j \in q + 1..n : u[j] = r[j]
                                         /\ Preferable(p, n, u[n + 1], r[n + 1])
          BY <4>4 DEF Prefers
        <5>2. n \in q..Len(p) /\ \A j \in q..n : j = q \/ j \in q + 1..n
          OBVIOUS
        <5>. QED BY <2>3, <5>1, <5>2 DEF Prefers
      <4>. QED BY <2>3, <4>2, <4>3, <4>4
    <3>2. CASE r[q + 1] # e
      <4>1. Preferable(p, q, u[q + 1], r[q + 1])
        BY <1>2, <1>6, <2>2, <2>3, <3>2
      <4>2. q \in q..Len(p) /\ \A j \in q..q : j = q
        OBVIOUS
      <4>. QED BY <2>3, <4>1, <4>2 DEF Prefers
    <3>. QED BY <3>1, <3>2
  <2>. QED BY <2>2, <2>3 DEF HasBest, Best
<1>. QED BY <1>4, <1>5, <1>6

-----------------------------------------------------------------------------
(* The matcher decides the language *)

LEMMA PlainTakes ==
  ASSUME NEW p, NEW t \in Seq(Char), NEW i, NEW k \in 1..Len(t) + 1, Type(p, i + 1) \notin Signs,
         NEW e \in 1..Len(t) + 1
  PROVE  Takes(p, t, i, k, e) <=> e = k + 1 /\ t[k] \in p[i].set
<1>1. Counts(p, i, Len(t)) = {1}
  BY DEF Counts, Signs
<1>2. k..k + 1 - 1 = {k}
  OBVIOUS
<1>3. e - k \in {1} <=> e = k + 1
  OBVIOUS
<1>4. (\A q \in k..k + 1 - 1 : t[q] \in p[i].set) <=> t[k] \in p[i].set
  BY <1>2
<1>. QED BY <1>1, <1>3, <1>4 DEF Takes

LEMMA SkipWalk ==
  ASSUME NEW p, Regular(p), NEW t \in Seq(Char), NEW i, CallAt(p, i), NEW k \in 1..Len(t) + 1,
         NEW c \in Captures, Valid(p, i, c)
  PROVE  LET i2 == Skip(p, i, c)
         IN /\ HasWalk(p, t, i, k) <=> HasWalk(p, t, i2, k)
            /\ HasBest(p, t, i2, k) => HasBest(p, t, i, k)
<1>. DEFINE i1 == Next1(p, i, c)
            i2 == Skip(p, i, c)
<1>1. p \in Seq(Token) /\ i \in 1..Len(p) + 1 /\ Len(p) \in Nat
  BY RegularIs DEF CallAt
<1>2. /\ i2 \in i..Len(p) + 1
      /\ i1 = (IF Type(p, i) = ")" THEN i + 1 ELSE i)
      /\ i2 = (IF OpensAt(p, i, c) THEN i1 + 1 ELSE i1)
      /\ OpensAt(p, i, c) <=> i2 > i /\ Type(p, i2 - 1) = "("
  BY Shape
<1>. HIDE DEF i1, i2
<1>3. i1 \in 1..Len(p) + 1 /\ i1 \in i..i2
  BY <1>1, <1>2
<1>4. /\ HasWalk(p, t, i, k) <=> HasWalk(p, t, i1, k)
      /\ HasBest(p, t, i1, k) => HasBest(p, t, i, k)
  <2>1. CASE Type(p, i) = ")"
    <3>1. i \in 1..Len(p) /\ i1 = i + 1 /\ Type(p, i) # "one"
      BY <1>1, <1>2, <1>3, <2>1
    <3>. QED BY <1>1, <3>1, WalkOver
  <2>2. CASE Type(p, i) # ")"
    BY <1>2, <2>2
  <2>. QED BY <2>1, <2>2
<1>5. /\ HasWalk(p, t, i1, k) <=> HasWalk(p, t, i2, k)
      /\ HasBest(p, t, i2, k) => HasBest(p, t, i1, k)
  <2>1. CASE OpensAt(p, i, c)
    <3>1. i2 = i1 + 1 /\ i2 - 1 = i1 /\ Type(p, i1) = "(" /\ i1 \in 1..Len(p)
      BY <1>1, <1>2, <1>3, <2>1
    <3>2. Type(p, i1) # "one"
      BY <3>1
    <3>. QED BY <1>1, <3>1, <3>2, WalkOver
  <2>2. CASE ~OpensAt(p, i, c)
    BY <1>2, <2>2
  <2>. QED BY <2>1, <2>2
<1>. QED BY <1>4, <1>5 DEF i2

Decided(p, t, i, k, c, r) ==
  /\ r.caps.num >= c.num
  /\ r.ok => HasBest(p, t, i, k)
  /\ ~r.ok /\ ~r.fatal => ~HasWalk(p, t, i, k)
Decides(p, t, i) ==
  CallAt(p, i) =>
    \A k \in 1..Len(t) + 1, c \in Captures :
      Valid(p, i, c) => Decided(p, t, i, k, c, Matcher(p, t)[<<i, k, c>>])

(* A call decides if the calls behind it do. *)
LEMMA DecidesStep ==
  ASSUME NEW p, Regular(p), NEW t \in Seq(Char), NEW i \in 1..Len(p) + 1,
         \A j \in i + 1..Len(p) + 1 : Decides(p, t, j)
  PROVE  Decides(p, t, i)
<1>1. SUFFICES ASSUME CallAt(p, i), NEW k \in 1..Len(t) + 1, NEW c \in Captures, Valid(p, i, c)
               PROVE  Decided(p, t, i, k, c, Matcher(p, t)[<<i, k, c>>])
  BY DEF Decides
<1>. DEFINE m == Matcher(p, t)
            r == m[<<i, k, c>>]
            i2 == Skip(p, i, c)
            c2 == Entered(p, i, t, k, c)
            ks == Ends(p, i2, t, k)
<1>2. p \in Seq(Token) /\ Len(p) \in Nat /\ Len(t) \in Nat /\ c.num \in Nat
  BY RegularIs DEF Captures
<1>3. /\ i2 \in i..Len(p) + 1
      /\ Type(p, i2) \in {"one", "none"}
      /\ Type(p, i2) = "none" => i2 = Len(p) + 1
      /\ Type(p, i2) = "one" => /\ i2 \in 1..Len(p)
                                /\ Type(p, i2 + 1) \notin Signs => CallAt(p, i2 + 1)
                                /\ Type(p, i2 + 1) \in Signs => i2 + 1 <= Len(p) /\ CallAt(p, i2 + 2)
  BY <1>1, Shape
<1>4. /\ HasWalk(p, t, i, k) <=> HasWalk(p, t, i2, k)
      /\ HasBest(p, t, i2, k) => HasBest(p, t, i, k)
  BY <1>1, SkipWalk
<1>5. CallCases(p, t, i, k, c, m, r, i2, c2, ks)
  BY <1>1, CallIs
<1>6. /\ Closed(p, i, k, c).num = c.num
      /\ ~Full(p, i, c) =>
           /\ c2.num >= c.num
           /\ \A j \in {i2 + 1, i2 + 2}, d \in Captures :
                Type(p, i2) = "one" /\ (j = i2 + 2 => Type(p, i2 + 1) \in Signs) /\ d.num >= c2.num => Valid(p, j, d)
  BY <1>1, <1>2, EnteredValid, EnteredTyped DEF CallAt
<1>7. Type(p, i2) = "one" /\ Type(p, i2 + 1) \in Signs =>
        LET es == Ends(p, i2, t, k)
        IN /\ \A l \in 1..Len(es) : Takes(p, t, i2, k, es[l])
           /\ \A e \in 1..Len(t) + 1 : Takes(p, t, i2, k, e) => \E l \in 1..Len(es) : es[l] = e
           /\ \A l, j \in 1..Len(es) : l < j => Preferable(p, i2, es[l], es[j])
  <2>. HIDE DEF i2
  <2>. QED BY <1>1, <1>3, EndsAre DEF Preferable
<1>8. m = Matcher(p, t) /\ r = m[<<i, k, c>>] /\ ks = Ends(p, i2, t, k)
  OBVIOUS
<1>9. SUFFICES Decided(p, t, i, k, c, r)
  OBVIOUS
<1>. HIDE DEF m, r, i2, c2, ks
<1>10. CASE Full(p, i, c)
  <2>1. r = RunsOut(Closed(p, i, k, c))
    BY <1>10, <1>5 DEF CallCases
  <2>. QED BY <1>2, <1>6, <2>1 DEF RunsOut, Decided
<1>11. ASSUME ~Full(p, i, c)
       PROVE  /\ c2 \in Captures /\ c2.num \in Nat /\ c2.num >= c.num
              /\ \A j \in {i2 + 1, i2 + 2}, d \in Captures :
                   Type(p, i2) = "one" /\ (j = i2 + 2 => Type(p, i2 + 1) \in Signs) /\ d.num >= c2.num => Valid(p, j, d)
  <2>1. c2 \in Captures
    BY <1>11, <1>5 DEF CallCases
  <2>. QED BY <1>11, <1>6, <2>1, CapturesNum
<1>12. CASE ~Full(p, i, c) /\ Type(p, i2) = "none"
  <2>1. r = IF k > Len(t) THEN Matches(c2) ELSE Fails(c2)
    BY <1>12, <1>5 DEF CallCases
  <2>2. k > Len(t) <=> k = Len(t) + 1
    BY <1>2
  <2>3. i2 = Len(p) + 1
    BY <1>3, <1>12
  <2>4. /\ HasWalk(p, t, i2, k) <=> k = Len(t) + 1
        /\ k = Len(t) + 1 => HasBest(p, t, i2, k)
    BY <1>2, <2>3, WalkEnds
  <2>. QED BY <1>4, <1>11, <1>12, <2>1, <2>2, <2>4 DEF Matches, Fails, Decided
<1>13. CASE ~Full(p, i, c) /\ Type(p, i2) = "one" /\ Type(p, i2 + 1) \notin Signs
  <2>1. IF k <= Len(t) /\ t[k] \in p[i2].set THEN r = m[<<i2 + 1, k + 1, c2>>] ELSE r = Fails(c2)
    BY <1>13, <1>5 DEF CallCases
  <2>2. i2 \in 1..Len(p) /\ CallAt(p, i2 + 1) /\ i2 + 1 \in i + 1..Len(p) + 1
    BY <1>2, <1>3, <1>13
  <2>3. Valid(p, i2 + 1, c2)
    <3>1. i2 + 1 \in {i2 + 1, i2 + 2} /\ i2 + 1 # i2 + 2
      BY <2>2
    <3>. QED BY <1>11, <1>13, <3>1
  <2>4. \A e \in 1..Len(t) + 1 : Takes(p, t, i2, k, e) <=> e = k + 1 /\ t[k] \in p[i2].set
    BY <1>13, PlainTakes
  <2>5. CASE k <= Len(t) /\ t[k] \in p[i2].set
    <3>1. r = m[<<i2 + 1, k + 1, c2>>] /\ k + 1 \in 1..Len(t) + 1
      BY <1>2, <2>1, <2>5
    <3>2. Decides(p, t, i2 + 1)
      BY <2>2
    <3>3. Decided(p, t, i2 + 1, k + 1, c2, r)
      BY <1>11, <1>13, <1>8, <2>2, <2>3, <3>1, <3>2 DEF Decides
    <3>4. \A e \in 1..Len(t) + 1 : Takes(p, t, i2, k, e) <=> e = k + 1
      BY <2>4, <2>5
    <3>5. HasWalk(p, t, i2, k) <=> HasWalk(p, t, i2 + 1, k + 1)
      BY <1>2, <1>13, <2>2, <3>1, <3>4, WalkTakes
    <3>6. HasBest(p, t, i2 + 1, k + 1) => HasBest(p, t, i2, k)
      BY <1>2, <1>13, <2>2, <3>1, <3>4, WalkTakes
    <3>7. r.caps \in Captures
      BY <1>5 DEF CallCases, Results
    <3>8. r.caps.num \in Nat
      BY <3>7, CapturesNum
    <3>. QED BY <1>2, <1>4, <1>11, <1>13, <3>3, <3>5, <3>6, <3>8 DEF Decided
  <2>6. CASE ~(k <= Len(t) /\ t[k] \in p[i2].set)
    <3>1. r = Fails(c2)
      BY <2>1, <2>6
    <3>2. \A e \in 1..Len(t) + 1 : ~Takes(p, t, i2, k, e)
      BY <1>2, <2>4, <2>6
    <3>3. ~HasWalk(p, t, i2, k)
      BY <1>2, <1>13, <2>2, <3>2, WalkTakes
    <3>. QED BY <1>4, <1>11, <1>13, <3>1, <3>3 DEF Fails, Decided
  <2>. QED BY <2>5, <2>6
<1>14. CASE ~Full(p, i, c) /\ Type(p, i2) = "one" /\ Type(p, i2 + 1) \in Signs
  <2>1. ks \in Seq(1..Len(t) + 1) /\ Attempted(m, i2 + 2, ks, c2, r)
    BY <1>14, <1>5 DEF CallCases
  <2>2. i2 \in 1..Len(p) /\ i2 + 1 \in 1..Len(p) /\ CallAt(p, i2 + 2) /\ i2 + 2 \in i + 1..Len(p) + 1
    BY <1>2, <1>3, <1>14
  <2>3. /\ \A l \in 1..Len(ks) : Takes(p, t, i2, k, ks[l])
        /\ \A e \in 1..Len(t) + 1 : Takes(p, t, i2, k, e) => \E l \in 1..Len(ks) : ks[l] = e
        /\ \A l, j \in 1..Len(ks) : l < j => Preferable(p, i2, ks[l], ks[j])
    BY <1>14, <1>7, <1>8
  <2>4. PICK try \in [0..Len(ks) -> Results], j \in 0..Len(ks) :
          Tried(m, i2 + 2, ks, try, j, r) /\ try[0] = Fails(c2)
    BY <2>1 DEF Attempted
  <2>. DEFINE G == {d \in Captures : d.num >= c2.num}
  <2>5. ASSUME NEW l \in 1..Len(ks), NEW d \in G
        PROVE  /\ m[<<i2 + 2, ks[l], d>>].caps \in G
               /\ Decided(p, t, i2 + 2, ks[l], d, m[<<i2 + 2, ks[l], d>>])
    <3>1. ks[l] \in 1..Len(t) + 1
      BY <2>1
    <3>2. Valid(p, i2 + 2, d)
      BY <1>11, <1>14
    <3>3. Decides(p, t, i2 + 2)
      BY <2>2
    <3>. DEFINE q == m[<<i2 + 2, ks[l], d>>]
    <3>4. q \in Results
      <4>1. i2 + 2 \in 1..Len(p) + 1
        BY <2>2
      <4>. QED BY <1>2, <1>8, <3>1, <4>1, MatcherIs DEF Typed
    <3>5. Decided(p, t, i2 + 2, ks[l], d, q)
      BY <1>8, <2>2, <3>1, <3>2, <3>3 DEF Decides
    <3>. HIDE DEF q
    <3>6. q.caps \in Captures
      BY <3>4 DEF Results
    <3>7. q.caps.num \in Nat /\ d.num \in Nat
      BY <3>6, CapturesNum
    <3>8. q.caps.num >= c2.num
      BY <1>11, <1>14, <3>5, <3>7 DEF Decided
    <3>. QED BY <3>5, <3>6, <3>8 DEF q
  <2>6. c2 \in G /\ try[0].caps \in G
    BY <1>11, <1>14, <2>4 DEF Fails
  <2>. HIDE DEF G
  <2>7. \A l \in 1..j : try[l - 1].caps \in G
    <3>1. Len(ks) \in Nat
      BY <2>1
    <3>2. Keeps(m, i2 + 2, ks, j, G)
      <4>1. \A l \in 1..j - 1 : l \in 1..Len(ks)
        BY <3>1
      <4>. QED BY <2>5, <4>1 DEF Keeps
    <3>3. Kept(try, j, G)
      BY <2>4, <2>6, <3>1, <3>2, BeforeAttempts
    <3>. QED BY <3>3 DEF Kept
  <2>8. /\ Len(ks) \in Nat /\ r = try[j]
        /\ \A l \in 1..j : try[l] = m[<<i2 + 2, ks[l], try[l - 1].caps>>]
        /\ \A l \in 0..j - 1 : ~try[l].ok /\ ~try[l].fatal
        /\ ~r.ok /\ ~r.fatal => j = Len(ks)
    <3>1. Tried(m, i2 + 2, ks, try, j, r)
      BY <2>4
    <3>2. Len(ks) \in Nat
      BY <2>1
    <3>. QED BY <3>1, <3>2, Zenon DEF Tried
  <2>9. \A l \in 1..j : l \in 1..Len(ks)
    BY <2>8
  <2>10. ASSUME NEW l \in 1..j
         PROVE  /\ try[l].caps \in G
                /\ try[l].ok => HasBest(p, t, i2 + 2, ks[l])
                /\ ~try[l].ok /\ ~try[l].fatal => ~HasWalk(p, t, i2 + 2, ks[l])
    BY <2>5, <2>7, <2>8, <2>9 DEF Decided
  <2>11. r.caps \in G
    <3>1. j = 0 \/ j \in 1..j
      BY <2>8
    <3>. QED BY <2>6, <2>8, <2>10, <3>1
  <2>12. r.caps.num >= c.num
    <3>1. r.caps.num >= c2.num /\ r.caps.num \in Nat
      BY <2>11, CapturesNum DEF G
    <3>. QED BY <1>2, <1>11, <1>14, <3>1
  <2>13. \A e \in 1..Len(t) + 1 : HasWalk(p, t, i2 + 1, e) <=> HasWalk(p, t, i2 + 2, e)
    <3>1. Type(p, i2 + 1) # "one" /\ i2 + 1 + 1 = i2 + 2
      BY <1>14, <2>2 DEF Signs
    <3>. QED BY <1>2, <2>2, <3>1, WalkOver
  <2>14. \A e \in 1..Len(t) + 1 : HasBest(p, t, i2 + 2, e) => HasBest(p, t, i2 + 1, e)
    <3>1. Type(p, i2 + 1) # "one" /\ i2 + 1 + 1 = i2 + 2
      BY <1>14, <2>2 DEF Signs
    <3>. QED BY <1>2, <2>2, <3>1, WalkOver
  <2>15. \A l \in 1..Len(ks) : ks[l] \in 1..Len(t) + 1
    BY <2>1
  <2>16. ASSUME r.ok PROVE HasBest(p, t, i2, k)
    <3>1. j # 0
      BY <2>4, <2>8, <2>16 DEF Fails
    <3>2. j \in 1..j /\ j \in 1..Len(ks)
      BY <2>8, <3>1
    <3>3. HasBest(p, t, i2 + 1, ks[j])
      BY <2>8, <2>10, <2>14, <2>15, <2>16, <3>2
    <3>4. ASSUME NEW f \in 1..Len(t) + 1, Takes(p, t, i2, k, f), HasWalk(p, t, i2 + 1, f)
          PROVE  f = ks[j] \/ Preferable(p, i2, ks[j], f)
      <4>1. PICK l \in 1..Len(ks) : ks[l] = f
        BY <2>3, <3>4
      <4>2. ~(l < j)
        <5>1. SUFFICES ASSUME l < j PROVE FALSE
          OBVIOUS
        <5>2. l \in 1..j /\ l \in 0..j - 1
          BY <2>8, <3>2, <5>1
        <5>3. ~HasWalk(p, t, i2 + 2, f)
          BY <2>8, <2>10, <4>1, <5>2
        <5>. QED BY <2>13, <3>4, <5>3
      <4>3. l = j \/ j < l
        BY <3>2, <4>2
      <4>. QED BY <2>3, <3>2, <4>1, <4>3
    <3>. QED BY <1>2, <1>14, <2>2, <2>3, <2>15, <3>2, <3>3, <3>4, WalkTakes
  <2>17. ASSUME ~r.ok, ~r.fatal PROVE ~HasWalk(p, t, i2, k)
    <3>1. SUFFICES ASSUME NEW e \in 1..Len(t) + 1, Takes(p, t, i2, k, e), HasWalk(p, t, i2 + 1, e)
                   PROVE  FALSE
      BY <1>2, <1>14, <2>2, WalkTakes
    <3>2. PICK l \in 1..Len(ks) : ks[l] = e
      BY <2>3, <3>1
    <3>3. l \in 1..j /\ j = Len(ks) /\ (l \in 0..j - 1 \/ l = j)
      BY <2>8, <2>17
    <3>4. ~try[l].ok /\ ~try[l].fatal
      BY <2>8, <2>17, <3>3
    <3>. QED BY <2>10, <2>13, <3>1, <3>2, <3>3, <3>4
  <2>. QED BY <1>4, <2>12, <2>16, <2>17 DEF Decided
<1>. QED BY <1>3, <1>10, <1>12, <1>13, <1>14

(* A match has a best walk through the text; if the matcher answers that     *)
(* there is none, there is no walk at all.                                   *)
LEMMA MatcherDecides ==
  ASSUME NEW p, Regular(p), NEW t \in Seq(Char), NEW c \in Captures
  PROVE  LET r == ReMatchPattern(p, t, c)
         IN /\ r \in Results
            /\ r.ok => HasBest(p, t, 1, 1)
            /\ ~r.ok /\ ~r.fatal => ~HasWalk(p, t, 1, 1)
<1>. DEFINE N == Len(p) + 1
            S == {i \in 1..N : Decides(p, t, i)}
<1>1. p \in Seq(Token) /\ N \in Nat /\ 1 \in 1..N
  BY RegularIs
<1>2. \A i \in 1..N : (\A j \in i + 1..N : j \in S) => i \in S
  BY DecidesStep
<1>3. Decides(p, t, 1)
  <2>. HIDE DEF S, N
  <2>1. 1..N \subseteq S
    BY <1>1, <1>2, Downward
  <2>. QED BY <1>1, <2>1 DEF S
<1>4. CallAt(p, 1)
  <2>1. 1 \in 1..Len(p) \/ Type(p, 1) = "none"
    BY <1>1, RegularIs
  <2>2. 1 \in 1..Len(p) /\ Type(p, 1) \in Signs => 1 > 1
    BY RegularIs
  <2>. QED BY <1>1, <2>1, <2>2 DEF CallAt, Signs
<1>5. Valid(p, 1, c)
  <2>1. \A o \in Opening(p) : ~(o < 1)
    BY TokensAre
  <2>. QED BY <2>1 DEF Valid
<1>6. 1 \in 1..Len(t) + 1
  OBVIOUS
<1>7. ReMatchPattern(p, t, c) = Matcher(p, t)[<<1, 1, c>>]
  BY MatcherCalled
<1>. QED BY <1>1, <1>3, <1>4, <1>5, <1>6, <1>7, MatchTyped DEF Decides, Decided

-----------------------------------------------------------------------------
(* Groups *)

(* The groups opened before the i-th token. *)
Num(p, i) == Cardinality({o \in Opening(p) : o < i})

LEMMA NumIs ==
  ASSUME NEW p, Regular(p)
  PROVE  /\ IsFiniteSet(Opening(p)) /\ Num(p, 1) = 0 /\ Num(p, Len(p) + 1) = Cardinality(Opening(p))
         /\ \A i \in Int : Num(p, i) \in Nat /\ Num(p, i) <= Cardinality(Opening(p))
         /\ \A i \in Nat \ {0} : Num(p, i + 1) = IF Type(p, i) = "(" THEN Num(p, i) + 1 ELSE Num(p, i)
         /\ \A i, j \in Int : i <= j => Num(p, i) <= Num(p, j)
<1>. DEFINE O(i) == {o \in Opening(p) : o < i}
<1>1. Len(p) \in Nat /\ Opening(p) \subseteq 1..Len(p)
  BY RegularIs, TokensAre
<1>2. IsFiniteSet(Opening(p))
  <2>1. IsFiniteSet(1..Len(p))
    BY <1>1, FS_Interval
  <2>. QED BY <1>1, <2>1, FS_Subset
<1>3. \A i : O(i) \subseteq Opening(p)
  OBVIOUS
<1>4. \A i : IsFiniteSet(O(i)) /\ Cardinality(O(i)) \in Nat /\ Cardinality(O(i)) <= Cardinality(Opening(p))
  BY <1>2, <1>3, FS_Subset, FS_CardinalityType
<1>5. O(1) = {} /\ O(Len(p) + 1) = Opening(p)
  BY <1>1
<1>6. ASSUME NEW i \in Nat \ {0}
      PROVE  O(i + 1) = IF Type(p, i) = "(" THEN O(i) \cup {i} ELSE O(i)
  <2>1. i \in Opening(p) <=> Type(p, i) = "("
    BY TokensAre
  <2>2. \A o \in Opening(p) : o < i + 1 <=> o < i \/ o = i
    BY <1>1
  <2>. QED BY <2>1, <2>2
<1>7. ASSUME NEW i \in Nat \ {0} PROVE i \notin O(i)
  OBVIOUS
<1>8. ASSUME NEW i \in Int, NEW j \in Int, i <= j PROVE Cardinality(O(i)) <= Cardinality(O(j))
  <2>1. O(i) \subseteq O(j)
    BY <1>1, <1>8
  <2>. QED BY <1>4, <2>1, FS_Subset
<1>9. \A i : Num(p, i) = Cardinality(O(i))
  BY DEF Num
<1>. HIDE DEF O
<1>10. ASSUME NEW i \in Nat \ {0}
       PROVE  Cardinality(O(i + 1)) = IF Type(p, i) = "(" THEN Cardinality(O(i)) + 1 ELSE Cardinality(O(i))
  BY <1>4, <1>6, <1>7, FS_AddElement
<1>11. Num(p, 1) = 0 /\ Num(p, Len(p) + 1) = Cardinality(Opening(p))
  BY <1>5, <1>9, FS_EmptySet
<1>12. \A i \in Int : Num(p, i) \in Nat /\ Num(p, i) <= Cardinality(Opening(p))
  BY <1>4, <1>9
<1>13. \A i \in Nat \ {0} : Num(p, i + 1) = IF Type(p, i) = "(" THEN Num(p, i) + 1 ELSE Num(p, i)
  BY <1>9, <1>10
<1>14. \A i, j \in Int : i <= j => Num(p, i) <= Num(p, j)
  BY <1>8, <1>9
<1>. QED BY <1>2, <1>11, <1>12, <1>13, <1>14

(* Groups are numbered from left to right. *)
LEMMA NumOrders ==
  ASSUME NEW p, Regular(p), NEW o \in Opening(p)
  PROVE  /\ o \in 1..Len(p) /\ Num(p, o + 1) = Num(p, o) + 1
         /\ \A i \in Int : o < i => Num(p, i) >= Num(p, o) + 1
         /\ \A u \in Opening(p) : Num(p, u) = Num(p, o) => u = o
<1>1. Opening(p) \subseteq 1..Len(p) /\ \A u \in Opening(p) : Type(p, u) = "(" /\ u \in Nat \ {0}
  BY TokensAre
<1>2. \A u \in Opening(p) : Num(p, u + 1) = Num(p, u) + 1 /\ Num(p, u) \in Nat
  BY <1>1, NumIs
<1>3. ASSUME NEW u \in Opening(p), NEW i \in Int, u < i PROVE Num(p, i) >= Num(p, u) + 1
  <2>1. u + 1 <= i /\ u + 1 \in Int
    BY <1>1, <1>3
  <2>. QED BY <1>2, <2>1, NumIs
<1>4. ASSUME NEW u \in Opening(p), Num(p, u) = Num(p, o) PROVE u = o
  <2>1. ~(u < o) /\ ~(o < u)
    BY <1>1, <1>2, <1>3, <1>4
  <2>. QED BY <1>1, <2>1
<1>. QED BY <1>1, <1>2, <1>3, <1>4

NoneAhead(p, i) == \A o \in Opening(p) : o < i

LEMMA InsideEarlier ==
  ASSUME NEW p, Regular(p), NEW i \in Int, NEW j \in Int, i <= j, NoneAhead(p, i), Inside(p, j)
  PROVE  Inside(p, i)
<1>1. PICK o \in Opening(p) : o < j /\ (o + 1..j - 1) \cap Parens(p) = {}
  BY DEF Inside
<1>2. o \in Int
  BY TokensAre
<1>3. o < i /\ o + 1..i - 1 \subseteq o + 1..j - 1
  BY <1>1, <1>2 DEF NoneAhead
<1>. QED BY <1>1, <1>3 DEF Inside

LEMMA ClosingInside ==
  ASSUME NEW p, Regular(p), NEW i \in 1..Len(p) + 1, Type(p, i) = ")"
  PROVE  Inside(p, i)
<1>1. i \in Closing(p)
  BY TokensAre
<1>2. \E o \in Opening(p) : Pair(p, o, i)
  BY <1>1, RegularIs
<1>. QED BY <1>2 DEF Pair, Inside

-----------------------------------------------------------------------------
(* Captures that differ in the length of the group that is open *)

Similar(p, i, c, d) ==
  /\ d \in Captures /\ d.num = c.num
  /\ \A g \in 1..MAXRECAPTURE :
       /\ d.cap[g].text = c.cap[g].text /\ d.cap[g].at = c.cap[g].at
       /\ d.cap[g].len # c.cap[g].len => g = c.num /\ Inside(p, i)

LEMMA SimilarIs ==
  ASSUME NEW p, NEW i, NEW c \in Captures
  PROVE  /\ Similar(p, i, c, c)
         /\ \A d, e : Similar(p, i, c, d) /\ Similar(p, i, d, e) => Similar(p, i, c, e)
BY DEF Similar

LEMMA CloseIs ==
  ASSUME NEW c \in Captures, c.num > 0, NEW k \in Nat
  PROVE  LET d == CloseCapture(c, k)
         IN /\ d \in Captures /\ d.num = c.num
            /\ \A g \in 1..MAXRECAPTURE :
                 /\ d.cap[g].text = c.cap[g].text /\ d.cap[g].at = c.cap[g].at
                 /\ d.cap[g].len = IF g = c.num THEN k - c.cap[g].at ELSE c.cap[g].len
<1>1. CloseCapture(c, k) \in Captures /\ CloseCapture(c, k).num = c.num
  BY CloseTyped
<1>2. c.num \in 1..MAXRECAPTURE /\ c.cap \in [1..MAXRECAPTURE -> Capture] /\ c \in [num : 0..MAXRECAPTURE, cap : [1..MAXRECAPTURE -> Capture]]
  BY CaptureAssumption DEF Captures, Capture
<1>3. CloseCapture(c, k).cap = [c.cap EXCEPT ![c.num] = [c.cap[c.num] EXCEPT !.len = k - c.cap[c.num].at]]
  BY <1>2 DEF CloseCapture
<1>. DEFINE e == [c.cap[c.num] EXCEPT !.len = k - c.cap[c.num].at]
<1>4. e.text = c.cap[c.num].text /\ e.at = c.cap[c.num].at /\ e.len = k - c.cap[c.num].at
  BY <1>2 DEF Capture
<1>. HIDE DEF e
<1>5. \A g \in 1..MAXRECAPTURE : CloseCapture(c, k).cap[g] = IF g = c.num THEN e ELSE c.cap[g]
  BY <1>2, <1>3 DEF e
<1>. QED BY <1>1, <1>4, <1>5

LEMMA OpenIs ==
  ASSUME NEW c \in Captures, c.num # MAXRECAPTURE, NEW t \in Seq(Char), NEW k \in Nat \ {0}
  PROVE  LET d == OpenCapture(c, t, k)
         IN /\ d \in Captures /\ d.num = c.num + 1
            /\ \A g \in 1..MAXRECAPTURE :
                 /\ d.cap[g].text = IF g = d.num THEN t ELSE c.cap[g].text
                 /\ d.cap[g].at = IF g = d.num THEN k ELSE c.cap[g].at
                 /\ d.cap[g].len = c.cap[g].len
<1>. DEFINE n == c.num + 1
            e == [c.cap[n] EXCEPT !.text = t, !.at = k]
<1>1. OpenCapture(c, t, k) \in Captures /\ OpenCapture(c, t, k).num = n
  BY OpenTyped
<1>2. n \in 1..MAXRECAPTURE /\ c.cap \in [1..MAXRECAPTURE -> Capture]
  <2>1. c.num \in 0..MAXRECAPTURE /\ c.cap \in [1..MAXRECAPTURE -> Capture]
    BY DEF Captures, Capture
  <2>. QED BY <2>1, CaptureAssumption
<1>3. OpenCapture(c, t, k) = [num |-> n, cap |-> [c.cap EXCEPT ![n] = e]]
  BY <1>2 DEF OpenCapture, Capture
<1>4. e.text = t /\ e.at = k /\ e.len = c.cap[n].len
  BY <1>2 DEF Capture
<1>. HIDE DEF e
<1>5. \A g \in 1..MAXRECAPTURE : OpenCapture(c, t, k).cap[g] = IF g = n THEN e ELSE c.cap[g]
  <2>1. OpenCapture(c, t, k).cap = [c.cap EXCEPT ![n] = e]
    BY <1>3
  <2>. HIDE DEF n
  <2>. QED BY <1>2, <2>1
<1>. QED BY <1>1, <1>4, <1>5

LEMMA ClosedSimilar ==
  ASSUME NEW p, Regular(p), NEW t \in Seq(Char), NEW i, CallAt(p, i), NEW k \in 1..Len(t) + 1,
         NEW c \in Captures, Valid(p, i, c)
  PROVE  Similar(p, i, c, Closed(p, i, k, c))
<1>1. i \in 1..Len(p) + 1
  BY DEF CallAt
<1>2. CASE Closes(p, i, c)
  <2>1. c.num > 0 /\ Inside(p, i)
    BY <1>1, <1>2, ClosingInside DEF Closes
  <2>. QED BY <1>2, <2>1, CloseIs DEF Closed, Similar
<1>3. CASE ~Closes(p, i, c)
  BY <1>3, SimilarIs DEF Closed
<1>. QED BY <1>2, <1>3

(* What is similar at a later token is similar here, unless a group opens. *)
LEMMA SimilarEarlier ==
  ASSUME NEW p, Regular(p), NEW i \in Int, NEW j \in Int, i <= j, NoneAhead(p, i),
         NEW c, NEW d, Similar(p, j, c, d)
  PROVE  Similar(p, i, c, d)
BY InsideEarlier DEF Similar

-----------------------------------------------------------------------------
(* Behind the last "(" the matcher opens nothing, whatever it tries *)

LeavesGroups(p, i, c, r) == ~r.fatal /\ Similar(p, i, c, r.caps)
Calm(p, t, i) ==
  CallAt(p, i) /\ NoneAhead(p, i) =>
    \A k \in 1..Len(t) + 1, c \in Captures :
      Valid(p, i, c) => LeavesGroups(p, i, c, Matcher(p, t)[<<i, k, c>>])

LEMMA CalmStep ==
  ASSUME NEW p, Regular(p), NEW t \in Seq(Char), NEW i \in 1..Len(p) + 1,
         \A j \in i + 1..Len(p) + 1 : Calm(p, t, j)
  PROVE  Calm(p, t, i)
<1>1. SUFFICES ASSUME CallAt(p, i), NoneAhead(p, i), NEW k \in 1..Len(t) + 1, NEW c \in Captures, Valid(p, i, c)
               PROVE  LeavesGroups(p, i, c, Matcher(p, t)[<<i, k, c>>])
  BY DEF Calm
<1>. DEFINE m == Matcher(p, t)
            r == m[<<i, k, c>>]
            i2 == Skip(p, i, c)
            c2 == Entered(p, i, t, k, c)
            ks == Ends(p, i2, t, k)
<1>2. p \in Seq(Token) /\ Len(p) \in Nat /\ Len(t) \in Nat
  BY RegularIs
<1>3. /\ i2 \in i..Len(p) + 1
      /\ Type(p, i2) \in {"one", "none"}
      /\ Type(p, i2) = "one" => /\ i2 \in 1..Len(p)
                                /\ Type(p, i2 + 1) \notin Signs => CallAt(p, i2 + 1)
                                /\ Type(p, i2 + 1) \in Signs => i2 + 1 <= Len(p) /\ CallAt(p, i2 + 2)
      /\ OpensAt(p, i, c) <=> i2 > i /\ Type(p, i2 - 1) = "("
  BY <1>1, Shape
<1>4. CallCases(p, t, i, k, c, m, r, i2, c2, ks)
  BY <1>1, CallIs
<1>5. ~OpensAt(p, i, c) /\ ~Full(p, i, c)
  <2>. HIDE DEF i2
  <2>1. SUFFICES ASSUME i2 > i, Type(p, i2 - 1) = "(" PROVE FALSE
    BY <1>3 DEF Full
  <2>2. i2 - 1 \in Opening(p) /\ i2 - 1 >= i
    BY <1>3, <2>1, TokensAre
  <2>. QED BY <1>1, <1>3, <2>2 DEF NoneAhead
<1>6. c2 \in Captures /\ Similar(p, i, c, c2)
  BY <1>1, <1>4, <1>5, ClosedSimilar DEF Entered, CallCases
<1>7. \A j \in {i2 + 1, i2 + 2}, d \in Captures :
        Type(p, i2) = "one" /\ (j = i2 + 2 => Type(p, i2 + 1) \in Signs) /\ d.num >= c2.num => Valid(p, j, d)
  BY <1>1, <1>5, EnteredValid
<1>8. m = Matcher(p, t) /\ r = m[<<i, k, c>>]
  OBVIOUS
<1>9. SUFFICES LeavesGroups(p, i, c, r)
  OBVIOUS
<1>. HIDE DEF m, r, i2, c2, ks
<1>10. c2.num \in Nat
  BY <1>6, CapturesNum
<1>11. LeavesGroups(p, i, c, Fails(c2)) /\ LeavesGroups(p, i, c, Matches(c2))
  BY <1>6 DEF LeavesGroups, Fails, Matches
<1>12. ASSUME NEW j \in i + 1..Len(p) + 1 PROVE NoneAhead(p, j)
  <2>1. \A o \in Opening(p) : o \in Int
    BY TokensAre
  <2>. QED BY <1>1, <2>1 DEF NoneAhead
<1>13. ASSUME NEW j \in i + 1..Len(p) + 1, NEW q, LeavesGroups(p, j, c2, q)
       PROVE  LeavesGroups(p, i, c, q)
  <2>1. Similar(p, i, c2, q.caps)
    BY <1>1, <1>13, SimilarEarlier DEF LeavesGroups
  <2>2. Similar(p, i, c, q.caps)
    BY <1>6, <2>1, SimilarIs
  <2>. QED BY <1>13, <2>2 DEF LeavesGroups
<1>14. CASE Type(p, i2) = "none"
  BY <1>4, <1>5, <1>11, <1>14 DEF CallCases
<1>15. CASE Type(p, i2) = "one" /\ Type(p, i2 + 1) \notin Signs
  <2>1. IF k <= Len(t) /\ t[k] \in p[i2].set THEN r = m[<<i2 + 1, k + 1, c2>>] ELSE r = Fails(c2)
    BY <1>4, <1>5, <1>15 DEF CallCases
  <2>2. CallAt(p, i2 + 1) /\ i2 + 1 \in i + 1..Len(p) + 1 /\ i2 + 1 # i2 + 2
    BY <1>2, <1>3, <1>15
  <2>3. CASE r = Fails(c2)
    BY <1>11, <2>3
  <2>4. CASE k <= Len(t) /\ r = m[<<i2 + 1, k + 1, c2>>]
    <3>1. Valid(p, i2 + 1, c2)
      BY <1>6, <1>7, <1>10, <1>15, <2>2
    <3>2. k + 1 \in 1..Len(t) + 1
      BY <1>2, <2>4
    <3>3. Calm(p, t, i2 + 1) /\ NoneAhead(p, i2 + 1)
      BY <1>12, <2>2
    <3>4. LeavesGroups(p, i2 + 1, c2, r)
      BY <1>6, <1>8, <2>2, <2>4, <3>1, <3>2, <3>3 DEF Calm
    <3>. QED BY <1>13, <2>2, <3>4
  <2>. QED BY <2>1, <2>3, <2>4
<1>16. CASE Type(p, i2) = "one" /\ Type(p, i2 + 1) \in Signs
  <2>. DEFINE n == i2 + 2
              G == {d \in Captures : Similar(p, n, c2, d)}
  <2>1. ks \in Seq(1..Len(t) + 1) /\ Attempted(m, n, ks, c2, r) /\ Len(ks) \in Nat
    BY <1>4, <1>5, <1>16 DEF CallCases
  <2>2. CallAt(p, n) /\ n \in i + 1..Len(p) + 1 /\ n \in {i2 + 1, i2 + 2}
    BY <1>2, <1>3, <1>16
  <2>3. \A d \in Captures : d.num >= c2.num => Valid(p, n, d)
    BY <1>7, <1>16, <2>2
  <2>. HIDE DEF n
  <2>4. ASSUME NEW l \in 1..Len(ks), NEW d \in G
        PROVE  LeavesGroups(p, n, c2, m[<<n, ks[l], d>>]) /\ m[<<n, ks[l], d>>].caps \in G
    <3>1. ks[l] \in 1..Len(t) + 1
      BY <2>1
    <3>2. d \in Captures /\ Similar(p, n, c2, d) /\ Valid(p, n, d)
      BY <1>10, <2>3 DEF Similar
    <3>3. Calm(p, t, n) /\ NoneAhead(p, n)
      BY <1>12, <2>2
    <3>4. LeavesGroups(p, n, d, m[<<n, ks[l], d>>])
      BY <1>8, <2>2, <3>1, <3>2, <3>3 DEF Calm
    <3>5. Similar(p, n, c2, m[<<n, ks[l], d>>].caps)
      BY <1>6, <3>2, <3>4, SimilarIs DEF LeavesGroups
    <3>. QED BY <3>4, <3>5 DEF LeavesGroups, Similar
  <2>5. PICK try \in [0..Len(ks) -> Results], j \in 0..Len(ks) :
          Tried(m, n, ks, try, j, r) /\ try[0] = Fails(c2)
    BY <2>1 DEF Attempted
  <2>6. c2 \in G /\ try[0].caps \in G
    BY <1>6, <2>5, SimilarIs DEF Fails
  <2>. HIDE DEF G
  <2>7. Kept(try, j, G)
    <3>1. \A l \in 1..j - 1 : l \in 1..Len(ks)
      BY <2>1
    <3>2. Keeps(m, n, ks, j, G)
      BY <2>4, <3>1 DEF Keeps
    <3>. QED BY <2>1, <2>5, <2>6, <3>2, BeforeAttempts
  <2>8. LeavesGroups(p, i, c, r)
    <3>1. CASE j = 0
      <4>1. r = Fails(c2)
        BY <2>5, <3>1 DEF Tried
      <4>. QED BY <1>11, <4>1
    <3>2. CASE j # 0
      <4>1. j \in 1..j /\ j \in 1..Len(ks)
        BY <2>1, <3>2
      <4>2. r = m[<<n, ks[j], try[j - 1].caps>>] /\ try[j - 1].caps \in G
        BY <2>5, <2>7, <4>1 DEF Tried, Kept
      <4>3. LeavesGroups(p, n, c2, r)
        BY <2>4, <4>1, <4>2
      <4>. QED BY <1>13, <2>2, <4>3
    <3>. QED BY <3>1, <3>2
  <2>. QED BY <2>8
<1>. QED BY <1>3, <1>14, <1>15, <1>16

LEMMA CalmAhead ==
  ASSUME NEW p, Regular(p), NEW t \in Seq(Char), NEW i \in 1..Len(p) + 1
  PROVE  Calm(p, t, i)
<1>. DEFINE N == Len(p) + 1
            S == {j \in 1..N : Calm(p, t, j)}
<1>1. N \in Nat
  BY RegularIs
<1>2. \A j \in 1..N : (\A q \in j + 1..N : q \in S) => j \in S
  BY CalmStep
<1>3. 1..N \subseteq S
  <2>. HIDE DEF S, N
  <2>. QED BY <1>1, <1>2, Downward
<1>. QED BY <1>3

-----------------------------------------------------------------------------
(* A settled pattern: at most one end of a repeated token gets any further *)

LEMMA DecidesAll ==
  ASSUME NEW p, Regular(p), NEW t \in Seq(Char), NEW i \in 1..Len(p) + 1
  PROVE  Decides(p, t, i)
<1>. DEFINE N == Len(p) + 1
            S == {j \in 1..N : Decides(p, t, j)}
<1>1. N \in Nat
  BY RegularIs
<1>2. \A j \in 1..N : (\A q \in j + 1..N : q \in S) => j \in S
  BY DecidesStep
<1>3. 1..N \subseteq S
  <2>. HIDE DEF S, N
  <2>. QED BY <1>1, <1>2, Downward
<1>. QED BY <1>3

LEMMA CallTyped ==
  ASSUME NEW p, Regular(p), NEW t \in Seq(Char), NEW i \in 1..Len(p) + 1, NEW k \in 1..Len(t) + 1,
         NEW c \in Captures
  PROVE  /\ Matcher(p, t)[<<i, k, c>>] \in Results
         /\ Matcher(p, t)[<<i, k, c>>].caps \in Captures
<1>1. p \in Seq(Token)
  BY RegularIs
<1>2. Matcher(p, t)[<<i, k, c>>] \in Results
  BY <1>1, MatcherIs DEF Typed
<1>. QED BY <1>2 DEF Results

LEMMA AfterSign ==
  ASSUME NEW p, Regular(p), NEW i \in 1..Len(p), Type(p, i) = "one", Type(p, i + 1) \in Signs
  PROVE  /\ Len(p) \in Nat /\ i + 1 \in 1..Len(p) /\ i + 2 \in 1..Len(p) + 1 /\ CallAt(p, i + 2)
         /\ i \in Atoms(p) /\ i \in Repeated(p)
<1>1. Len(p) \in Nat /\ i \in Atoms(p)
  BY RegularIs, TokensAre
<1>2. "none" \notin Signs /\ "one" \notin Signs
  BY DEF Signs
<1>3. i + 1 \in 1..Len(p)
  BY <1>1, <1>2, RegularIs
<1>4. Type(p, i + 2) \notin Signs
  <2>1. i + 2 \in 1..Len(p) \/ Type(p, i + 2) = "none"
    BY <1>1, RegularIs
  <2>2. i + 2 \in 1..Len(p) /\ Type(p, i + 2) \in Signs => Type(p, i + 2 - 1) = "one"
    BY <1>1, RegularIs
  <2>3. i + 2 - 1 = i + 1
    BY <1>1
  <2>. QED BY <1>2, <2>1, <2>2, <2>3
<1>. QED BY <1>1, <1>3, <1>4 DEF CallAt, Repeated

(* Behind a repeated token with a group to come, a call on a character that  *)
(* the token accepts fails at its first token and opens nothing.             *)
LEMMA FailsAtOnce ==
  ASSUME NEW p, Regular(p), Settled(p), NEW t \in Seq(Char), NEW i \in 1..Len(p), Type(p, i) = "one",
         Type(p, i + 1) \in Signs, NEW o \in Opening(p), i < o,
         NEW e \in 1..Len(t), t[e] \in p[i].set, NEW d \in Captures, Valid(p, i + 2, d)
  PROVE  LET q == Matcher(p, t)[<<i + 2, e, d>>]
         IN ~q.ok /\ ~q.fatal /\ Similar(p, i + 2, d, q.caps)
<1>. DEFINE j == i + 2
            q == Matcher(p, t)[<<j, e, d>>]
            n == IF Type(p, i + 2) = ")" THEN i + 3 ELSE i + 2
<1>1. CallAt(p, j) /\ i \in Repeated(p) /\ Len(p) \in Nat /\ e \in 1..Len(t) + 1
  BY AfterSign
<1>2. n \in Atoms(p) \ Repeated(p) /\ p[i].set \cap p[n].set = {}
  <2>1. \E u \in Tokens(p, "(") : i < u
    BY DEF Opening
  <2>2. LET next == IF Type(p, i + 2) = ")" THEN i + 3 ELSE i + 2
        IN next \in Atoms(p) \ Repeated(p) /\ p[i].set \cap p[next].set = {}
    BY <1>1, <2>1 DEF Settled
  <2>. QED BY <2>2
<1>3. n \in 1..Len(p) /\ Type(p, n) = "one" /\ Type(p, n + 1) \notin Signs
  BY <1>2, TokensAre DEF Repeated
<1>4. /\ Next1(p, j, d) = (IF Type(p, j) = ")" THEN j + 1 ELSE j)
      /\ Skip(p, j, d) = (IF OpensAt(p, j, d) THEN Next1(p, j, d) + 1 ELSE Next1(p, j, d))
  <2>. HIDE DEF j
  <2>. QED BY <1>1, Shape DEF j
<1>5. Next1(p, j, d) = n
  BY <1>1, <1>4
<1>. HIDE DEF n
<1>6. ~OpensAt(p, j, d) /\ Skip(p, j, d) = n /\ ~Full(p, j, d) /\ Entered(p, j, t, e, d) = Closed(p, j, e, d)
  BY <1>3, <1>4, <1>5 DEF OpensAt, Full, Entered
<1>7. CallCases(p, t, j, e, d, Matcher(p, t), q, n, Closed(p, j, e, d), Ends(p, n, t, e))
  <2>. HIDE DEF j
  <2>1. CallCases(p, t, j, e, d, Matcher(p, t), Matcher(p, t)[<<j, e, d>>], Skip(p, j, d),
                  Entered(p, j, t, e, d), Ends(p, Skip(p, j, d), t, e))
    BY <1>1, CallIs DEF j
  <2>. QED BY <1>6, <2>1
<1>8. q = Fails(Closed(p, j, e, d))
  <2>. HIDE DEF q
  <2>1. t[e] \notin p[n].set
    BY <1>2
  <2>. QED BY <1>3, <1>6, <1>7, <2>1 DEF CallCases
<1>9. Similar(p, j, d, Closed(p, j, e, d))
  BY <1>1, ClosedSimilar
<1>. QED BY <1>8, <1>9 DEF Fails

(* So the attempt that gets further has the captures of the call, but for the *)
(* length of the group that is open.                                         *)
(* The attempt that decides begins with the captures of the first, all but *)
(* for the length of the group that is open; the earlier ones match nothing.*)
Further(p, t, i, c, m, ks, try, j, r) ==
  /\ j \in 1..Len(ks) /\ Similar(p, i, c, try[j - 1].caps)
  /\ r = m[<<i, ks[j], try[j - 1].caps>>]
  /\ r.ok => HasBest(p, t, i, ks[j])
  /\ \A l \in 1..j - 1 : ~HasWalk(p, t, i, ks[l])

LEMMA Threaded ==
  ASSUME NEW p, Regular(p), Settled(p), NEW t \in Seq(Char), NEW i \in 1..Len(p), Type(p, i) = "one",
         Type(p, i + 1) \in Signs, NEW k \in 1..Len(t) + 1, NEW c \in Captures,
         \A d \in Captures : d.num >= c.num => Valid(p, i + 2, d),
         NEW r, NEW try, NEW j, Tried(Matcher(p, t), i + 2, Ends(p, i, t, k), try, j, r),
         try[0] = Fails(c), r.ok \/ r.fatal
  PROVE  Further(p, t, i + 2, c, Matcher(p, t), Ends(p, i, t, k), try, j, r)
<1>. DEFINE m == Matcher(p, t)
            ks == Ends(p, i, t, k)
            n == i + 2
<1>1. /\ ks \in Seq(1..Len(t) + 1) /\ Len(ks) \in Nat
      /\ \A l \in 1..Len(ks) : ks[l] \in 1..Len(t) + 1 /\ Takes(p, t, i, k, ks[l])
      /\ \A l, q \in 1..Len(ks) : l < q => ks[l] # ks[q]
  <2>. HIDE DEF ks
  <2>1. /\ ks \in Seq(1..Len(t) + 1)
        /\ \A l \in 1..Len(ks) : Takes(p, t, i, k, ks[l])
        /\ \A l, q \in 1..Len(ks) : l < q => IF Type(p, i + 1) = "?" THEN ks[l] < ks[q] ELSE ks[l] > ks[q]
    BY EndsAre DEF ks
  <2>2. Len(ks) \in Nat /\ \A l \in 1..Len(ks) : ks[l] \in 1..Len(t) + 1
    BY <2>1
  <2>3. ASSUME NEW l \in 1..Len(ks), NEW q \in 1..Len(ks), l < q PROVE ks[l] # ks[q]
    <3>1. IF Type(p, i + 1) = "?" THEN ks[l] < ks[q] ELSE ks[l] > ks[q]
      BY <2>1, <2>3
    <3>2. ks[l] \in Int /\ ks[q] \in Int
      BY <2>2
    <3>. QED BY <3>1, <3>2
  <2>. QED BY <2>1, <2>2, <2>3
<1>2. n \in 1..Len(p) + 1 /\ CallAt(p, n) /\ Len(p) \in Nat /\ Len(t) \in Nat
  BY AfterSign
<1>3. c.num \in Nat /\ \A d \in Captures : d.num >= c.num => Valid(p, n, d)
  BY CapturesNum
<1>4. Tried(m, n, ks, try, j, r)
  OBVIOUS
<1>5. SUFFICES Further(p, t, n, c, m, ks, try, j, r)
  OBVIOUS
<1>6. \A d \in Captures, l \in 1..Len(ks) :
        Valid(p, n, d) => /\ m[<<n, ks[l], d>>].caps \in Captures
                          /\ m[<<n, ks[l], d>>].caps.num >= d.num
                          /\ Decided(p, t, n, ks[l], d, m[<<n, ks[l], d>>])
  <2>. HIDE DEF ks, n
  <2>. QED BY <1>1, <1>2, CallTyped, DecidesAll DEF Decides, Decided
<1>7. ASSUME NEW d \in Captures, Valid(p, n, d), NEW l \in 1..Len(ks), ks[l] <= Len(t), t[ks[l]] \in p[i].set,
             NEW o \in Opening(p), i < o
      PROVE  ~m[<<n, ks[l], d>>].ok /\ ~m[<<n, ks[l], d>>].fatal /\ Similar(p, n, d, m[<<n, ks[l], d>>].caps)
  <2>1. ks[l] \in 1..Len(t)
    BY <1>1, <1>7
  <2>. HIDE DEF ks
  <2>. QED BY <1>7, <2>1, FailsAtOnce
<1>8. ASSUME NoneAhead(p, n), NEW d \in Captures, Valid(p, n, d), NEW l \in 1..Len(ks)
      PROVE  Similar(p, n, d, m[<<n, ks[l], d>>].caps)
  <2>. HIDE DEF ks, n
  <2>. QED BY <1>1, <1>2, <1>8, CalmAhead DEF Calm, LeavesGroups
<1>. HIDE DEF m, ks, n
<1>9. /\ j \in 0..Len(ks) /\ r = try[j] /\ try[0].caps = c /\ j # 0
      /\ \A l \in 1..j : try[l] = m[<<n, ks[l], try[l - 1].caps>>]
  BY <1>4 DEF Tried, Fails
<1>10. j \in 1..Len(ks) /\ j \in 1..j /\ \A l \in 1..j - 1 : l \in 1..Len(ks) /\ l < j
  BY <1>1, <1>9
<1>. DEFINE d == try[j - 1].caps
            V == {e \in Captures : e.num >= c.num}
            G == {e \in Captures : Similar(p, n, c, e)}
<1>11. r = m[<<n, ks[j], d>>]
  BY <1>9, <1>10
<1>12. /\ d \in Captures /\ Valid(p, n, d)
       /\ \A l \in 1..j : try[l - 1].caps \in Captures /\ Valid(p, n, try[l - 1].caps)
  <2>1. try[0].caps \in V
    BY <1>3, <1>9
  <2>2. ASSUME NEW l \in 1..j - 1, NEW e \in V PROVE m[<<n, ks[l], e>>].caps \in V
    <3>1. /\ m[<<n, ks[l], e>>].caps \in Captures
          /\ m[<<n, ks[l], e>>].caps.num >= e.num
      BY <1>3, <1>6, <1>10
    <3>2. e.num \in Nat /\ e.num >= c.num /\ m[<<n, ks[l], e>>].caps.num \in Nat
      BY <3>1, CapturesNum
    <3>. QED BY <1>3, <3>1, <3>2
  <2>. HIDE DEF V
  <2>3. Keeps(m, n, ks, j, V)
    BY <2>2 DEF Keeps
  <2>4. Kept(try, j, V)
    BY <1>1, <1>4, <2>1, <2>3, BeforeAttempts
  <2>5. d \in V /\ \A l \in 1..j : try[l - 1].caps \in V
    BY <1>10, <2>4 DEF Kept
  <2>. QED BY <1>3, <2>5 DEF V
<1>. HIDE DEF d
<1>13. ASSUME NEW l \in 1..j - 1, NEW e \in G PROVE m[<<n, ks[l], e>>].caps \in G
  <2>1. e \in Captures /\ Valid(p, n, e) /\ Similar(p, n, c, e)
    BY <1>3 DEF Similar
  <2>2. Similar(p, n, e, m[<<n, ks[l], e>>].caps)
    <3>1. CASE NoneAhead(p, n)
      BY <1>8, <1>10, <2>1, <3>1
    <3>2. CASE ~NoneAhead(p, n)
      <4>1. PICK o \in Opening(p) : ~(o < n)
        BY <3>2 DEF NoneAhead
      <4>2. i < o
        <5>1. o \in Int
          BY TokensAre
        <5>. QED BY <4>1, <5>1 DEF n
      <4>3. ~(ks[j] <= Len(t) /\ t[ks[j]] \in p[i].set)
        BY <1>7, <1>10, <1>11, <1>12, <4>2
      <4>4. ks[l] \in 1..Len(t) + 1 /\ ks[j] \in 1..Len(t) + 1 /\ ks[l] # ks[j]
            /\ Takes(p, t, i, k, ks[l]) /\ Takes(p, t, i, k, ks[j])
        BY <1>1, <1>10
      <4>5. ks[l] >= k /\ ks[j] >= k
        <5>1. \A e2 \in 1..Len(t) + 1 : e2 - k \in Counts(p, i, Len(t)) => e2 >= k
          <6>1. Counts(p, i, Len(t)) \subseteq Nat
            BY <1>2 DEF Counts, Signs
          <6>. QED BY <6>1
        <5>. QED BY <4>4, <5>1 DEF Takes
      <4>6. ~(ks[l] > ks[j])
        <5>1. SUFFICES ASSUME ks[l] > ks[j] PROVE FALSE
          OBVIOUS
        <5>2. ks[j] \in k..ks[l] - 1 /\ ks[j] <= Len(t)
          BY <1>2, <4>4, <4>5, <5>1
        <5>. QED BY <4>3, <4>4, <5>2 DEF Takes
      <4>7. ks[l] \in k..ks[j] - 1 /\ ks[l] <= Len(t)
        BY <1>2, <4>4, <4>5, <4>6
      <4>8. t[ks[l]] \in p[i].set
        BY <4>4, <4>7 DEF Takes
      <4>. QED BY <1>7, <1>10, <2>1, <4>2, <4>7, <4>8
    <3>. QED BY <3>1, <3>2
  <2>3. Similar(p, n, c, m[<<n, ks[l], e>>].caps)
    BY <2>1, <2>2, SimilarIs
  <2>. QED BY <2>3 DEF Similar
<1>14. try[0].caps \in G
  BY <1>9, SimilarIs
<1>15. d \in G
  <2>. HIDE DEF G
  <2>1. Keeps(m, n, ks, j, G)
    BY <1>13 DEF Keeps
  <2>2. Kept(try, j, G)
    BY <1>1, <1>4, <1>14, <2>1, BeforeAttempts
  <2>. QED BY <1>10, <2>2 DEF Kept, d
<1>16. r.ok => HasBest(p, t, n, ks[j])
  BY <1>6, <1>10, <1>11, <1>12 DEF Decided
<1>17. ASSUME NEW l \in 1..j - 1 PROVE ~HasWalk(p, t, n, ks[l])
  <2>1. l \in 1..Len(ks) /\ l \in 1..j /\ l \in 0..j - 1
    BY <1>9, <1>10
  <2>2. try[l] = m[<<n, ks[l], try[l - 1].caps>>] /\ ~try[l].ok /\ ~try[l].fatal
    BY <1>4, <1>9, <2>1 DEF Tried
  <2>3. Decided(p, t, n, ks[l], try[l - 1].caps, try[l])
    BY <1>6, <1>12, <2>1, <2>2
  <2>. QED BY <2>2, <2>3 DEF Decided
<1>. QED BY <1>10, <1>11, <1>15, <1>16, <1>17 DEF d, Further, G
-----------------------------------------------------------------------------
(* A settled pattern opens each group once *)

LEMMA NumSkip ==
  ASSUME NEW p, Regular(p), NEW i, CallAt(p, i), NEW c \in Captures, Valid(p, i, c)
  PROVE  LET i2 == Skip(p, i, c)
         IN /\ Num(p, Next1(p, i, c)) = Num(p, i)
            /\ Num(p, i2) = IF OpensAt(p, i, c) THEN Num(p, i) + 1 ELSE Num(p, i)
            /\ Type(p, i2) = "one" => Num(p, i2 + 1) = Num(p, i2)
            /\ Type(p, i2) = "one" /\ Type(p, i2 + 1) \in Signs => Num(p, i2 + 2) = Num(p, i2)
<1>. DEFINE i1 == Next1(p, i, c)
            i2 == Skip(p, i, c)
<1>1. /\ i2 \in i..Len(p) + 1
      /\ OpensAt(p, i, c) <=> i2 > i /\ Type(p, i2 - 1) = "("
      /\ i1 = (IF Type(p, i) = ")" THEN i + 1 ELSE i)
      /\ i2 = (IF OpensAt(p, i, c) THEN i1 + 1 ELSE i1)
      /\ i \in 1..Len(p) + 1
  BY Shape DEF CallAt
<1>. HIDE DEF i1, i2
<1>2. \A q \in Nat \ {0} : Num(p, q + 1) = IF Type(p, q) = "(" THEN Num(p, q) + 1 ELSE Num(p, q)
  BY NumIs
<1>3. i1 \in Nat \ {0} /\ i2 \in Nat \ {0} /\ i \in Nat \ {0}
  BY <1>1
<1>4. Num(p, i1) = Num(p, i)
  BY <1>1, <1>2, <1>3
<1>5. Num(p, i2) = IF OpensAt(p, i, c) THEN Num(p, i) + 1 ELSE Num(p, i)
  <2>1. CASE OpensAt(p, i, c)
    <3>1. i2 = i1 + 1 /\ i2 - 1 = i1 /\ Type(p, i1) = "("
      BY <1>1, <1>3, <2>1
    <3>. QED BY <1>2, <1>3, <1>4, <2>1, <3>1
  <2>2. CASE ~OpensAt(p, i, c)
    BY <1>1, <1>4, <2>2
  <2>. QED BY <2>1, <2>2
<1>6. Type(p, i2) = "one" => Num(p, i2 + 1) = Num(p, i2)
  BY <1>2, <1>3
<1>7. Type(p, i2) = "one" /\ Type(p, i2 + 1) \in Signs => Num(p, i2 + 2) = Num(p, i2 + 1)
  <2>1. i2 + 1 \in Nat \ {0} /\ i2 + 1 + 1 = i2 + 2
    BY <1>3
  <2>. QED BY <1>2, <2>1 DEF Signs
<1>. QED BY <1>4, <1>5, <1>6, <1>7 DEF i1, i2

(* The groups the call has opened and those still ahead. *)
Crowded(p, i, c) == c.num + Cardinality(Opening(p)) > MAXRECAPTURE + Num(p, i)
Roomy(p, t, i) ==
  CallAt(p, i) =>
    \A k \in 1..Len(t) + 1, c \in Captures :
      Valid(p, i, c) /\ Matcher(p, t)[<<i, k, c>>].fatal => Crowded(p, i, c)

(* A call has room for its groups if the calls behind it have. *)
LEMMA RoomyStep ==
  ASSUME NEW p, Regular(p), Settled(p), NEW t \in Seq(Char), NEW i \in 1..Len(p) + 1,
         \A j \in i + 1..Len(p) + 1 : Roomy(p, t, j)
  PROVE  Roomy(p, t, i)
<1>1. SUFFICES ASSUME CallAt(p, i), NEW k \in 1..Len(t) + 1, NEW c \in Captures, Valid(p, i, c),
                      Matcher(p, t)[<<i, k, c>>].fatal
               PROVE  Crowded(p, i, c)
  BY DEF Roomy
<1>. DEFINE m == Matcher(p, t)
            r == m[<<i, k, c>>]
            i2 == Skip(p, i, c)
            c2 == Entered(p, i, t, k, c)
            ks == Ends(p, i2, t, k)
<1>2. p \in Seq(Token) /\ Len(p) \in Nat /\ Len(t) \in Nat /\ c.num \in Nat /\ MAXRECAPTURE \in Nat
  BY RegularIs, CapturesNum, CaptureAssumption
<1>3. /\ i2 \in i..Len(p) + 1
      /\ Type(p, i2) \in {"one", "none"}
      /\ Type(p, i2) = "one" => /\ i2 \in 1..Len(p)
                                /\ Type(p, i2 + 1) \notin Signs => CallAt(p, i2 + 1)
                                /\ Type(p, i2 + 1) \in Signs => i2 + 1 <= Len(p) /\ CallAt(p, i2 + 2)
  BY <1>1, Shape
<1>4. CallCases(p, t, i, k, c, m, r, i2, c2, ks)
  BY <1>1, CallIs
<1>5. ~Full(p, i, c) =>
        /\ c2.num = IF OpensAt(p, i, c) THEN c.num + 1 ELSE c.num
        /\ \A j \in {i2 + 1, i2 + 2}, d \in Captures :
             Type(p, i2) = "one" /\ (j = i2 + 2 => Type(p, i2 + 1) \in Signs) /\ d.num >= c2.num => Valid(p, j, d)
  BY <1>1, EnteredValid
<1>6. /\ Num(p, i2) = IF OpensAt(p, i, c) THEN Num(p, i) + 1 ELSE Num(p, i)
      /\ Type(p, i2) = "one" => Num(p, i2 + 1) = Num(p, i2)
      /\ Type(p, i2) = "one" /\ Type(p, i2 + 1) \in Signs => Num(p, i2 + 2) = Num(p, i2)
  BY <1>1, NumSkip
<1>7. m = Matcher(p, t) /\ r = m[<<i, k, c>>] /\ ks = Ends(p, i2, t, k) /\ r.fatal
  BY <1>1
<1>. HIDE DEF m, r, i2, c2, ks
<1>8. /\ Num(p, i) \in Nat /\ Num(p, i2) \in Nat /\ Num(p, i2) <= Cardinality(Opening(p))
      /\ Cardinality(Opening(p)) \in Nat
  <2>1. Cardinality(Opening(p)) = Num(p, Len(p) + 1)
    BY NumIs
  <2>. QED BY <1>2, <1>3, <2>1, NumIs
<1>9. CASE Full(p, i, c)
  <2>1. c.num = MAXRECAPTURE /\ Num(p, i2) = Num(p, i) + 1
    BY <1>6, <1>9 DEF Full
  <2>. QED BY <1>2, <1>8, <2>1 DEF Crowded
<1>10. ASSUME ~Full(p, i, c), NEW j, NEW d \in Captures, d.num = c2.num, Num(p, j) = Num(p, i2), Crowded(p, j, d)
       PROVE  Crowded(p, i, c)
  <2>1. c2.num + Cardinality(Opening(p)) > MAXRECAPTURE + Num(p, i2)
    BY <1>10 DEF Crowded
  <2>2. \/ c2.num = c.num /\ Num(p, i2) = Num(p, i)
        \/ c2.num = c.num + 1 /\ Num(p, i2) = Num(p, i) + 1
    BY <1>5, <1>6, <1>10, Zenon
  <2>3. c.num + Cardinality(Opening(p)) > MAXRECAPTURE + Num(p, i)
    <3>1. CASE c2.num = c.num /\ Num(p, i2) = Num(p, i)
      BY <2>1, <3>1
    <3>2. CASE c2.num = c.num + 1 /\ Num(p, i2) = Num(p, i) + 1
      BY <1>2, <1>8, <2>1, <3>2
    <3>. QED BY <2>2, <3>1, <3>2
  <2>. QED BY <2>3 DEF Crowded
<1>11. CASE ~Full(p, i, c) /\ Type(p, i2) = "none"
  BY <1>4, <1>7, <1>11 DEF CallCases, Matches, Fails
<1>12. CASE ~Full(p, i, c) /\ Type(p, i2) = "one" /\ Type(p, i2 + 1) \notin Signs
  <2>1. k <= Len(t) /\ r = m[<<i2 + 1, k + 1, c2>>] /\ c2 \in Captures
    BY <1>4, <1>7, <1>12 DEF CallCases, Fails
  <2>2. CallAt(p, i2 + 1) /\ i2 + 1 \in i + 1..Len(p) + 1 /\ i2 + 1 # i2 + 2 /\ k + 1 \in 1..Len(t) + 1
    BY <1>2, <1>3, <1>12, <2>1
  <2>3. c2.num \in Nat
    BY <2>1, CapturesNum
  <2>4. Valid(p, i2 + 1, c2)
    BY <1>5, <1>12, <2>1, <2>2, <2>3
  <2>5. Crowded(p, i2 + 1, c2)
    BY <1>7, <2>1, <2>2, <2>4 DEF Roomy
  <2>. QED BY <1>6, <1>10, <1>12, <2>1, <2>5
<1>13. CASE ~Full(p, i, c) /\ Type(p, i2) = "one" /\ Type(p, i2 + 1) \in Signs
  <2>1. Attempted(m, i2 + 2, ks, c2, r) /\ c2 \in Captures /\ ks \in Seq(1..Len(t) + 1)
    BY <1>4, <1>13 DEF CallCases
  <2>2. i2 \in 1..Len(p) /\ CallAt(p, i2 + 2) /\ i2 + 2 \in i + 1..Len(p) + 1
    BY <1>2, <1>3, <1>13
  <2>3. PICK try, j : Tried(m, i2 + 2, ks, try, j, r) /\ try[0] = Fails(c2)
    BY <2>1 DEF Attempted
  <2>4. \A d \in Captures : d.num >= c2.num => Valid(p, i2 + 2, d)
    BY <1>5, <1>13
  <2>5. Tried(Matcher(p, t), i2 + 2, Ends(p, i2, t, k), try, j, r)
    BY <1>7, <2>3
  <2>6. Further(p, t, i2 + 2, c2, Matcher(p, t), Ends(p, i2, t, k), try, j, r)
    BY <1>7, <1>13, <2>1, <2>2, <2>3, <2>4, <2>5, Threaded
  <2>7. /\ j \in 1..Len(ks) /\ Similar(p, i2 + 2, c2, try[j - 1].caps)
        /\ r = m[<<i2 + 2, ks[j], try[j - 1].caps>>]
    BY <1>7, <2>6 DEF Further
  <2>. DEFINE d == try[j - 1].caps
  <2>8. d \in Captures /\ d.num = c2.num
    BY <2>7 DEF Similar
  <2>. HIDE DEF d
  <2>9. c2.num \in Nat /\ ks[j] \in 1..Len(t) + 1
    BY <2>1, <2>7, CapturesNum
  <2>10. Valid(p, i2 + 2, d)
    BY <2>4, <2>8, <2>9
  <2>11. Crowded(p, i2 + 2, d)
    BY <1>7, <2>2, <2>7, <2>8, <2>9, <2>10 DEF Roomy, d
  <2>. QED BY <1>6, <1>10, <1>13, <2>8, <2>11
<1>. QED BY <1>3, <1>9, <1>11, <1>12, <1>13

LEMMA StartsCalls ==
  ASSUME NEW p, Regular(p), NEW c
  PROVE  1 \in 1..Len(p) + 1 /\ CallAt(p, 1) /\ Valid(p, 1, c)
<1>1. Len(p) \in Nat /\ 1 \in 1..Len(p) + 1
  BY RegularIs
<1>2. CallAt(p, 1)
  <2>1. 1 \in 1..Len(p) \/ Type(p, 1) = "none"
    BY <1>1, RegularIs
  <2>2. 1 \in 1..Len(p) /\ Type(p, 1) \in Signs => 1 > 1
    BY RegularIs
  <2>. QED BY <1>1, <2>1, <2>2 DEF CallAt, Signs
<1>3. Valid(p, 1, c)
  <2>1. \A o \in Opening(p) : ~(o < 1)
    BY TokensAre
  <2>. QED BY <2>1 DEF Valid
<1>. QED BY <1>1, <1>2, <1>3

LEMMA NoCapturesTyped == NoCaptures \in Captures /\ NoCaptures.num = 0
<1>1. NoCapture \in [text : Seq(Char), at : Nat \ {0}, len : Int]
  BY DEF NoCapture
<1>2. 0 \in 0..MAXRECAPTURE
  BY CaptureAssumption
<1>. QED BY <1>1, <1>2 DEF NoCaptures, Captures

(* With a settled pattern whose groups fit, the process does not end. *)
LEMMA MatcherRoomy ==
  ASSUME NEW p, Regular(p), Settled(p), NEW t \in Seq(Char), ReMatchPattern(p, t, NoCaptures).fatal
  PROVE  Cardinality(Opening(p)) > MAXRECAPTURE
<1>. DEFINE N == Len(p) + 1
            S == {i \in 1..N : Roomy(p, t, i)}
<1>1. N \in Nat /\ 1 \in 1..N /\ CallAt(p, 1) /\ Valid(p, 1, NoCaptures)
  BY RegularIs, StartsCalls
<1>2. \A i \in 1..N : (\A j \in i + 1..N : j \in S) => i \in S
  BY RoomyStep
<1>3. Roomy(p, t, 1)
  <2>. HIDE DEF S, N
  <2>1. 1..N \subseteq S
    BY <1>1, <1>2, Downward
  <2>. QED BY <1>1, <2>1 DEF S
<1>4. Crowded(p, 1, NoCaptures)
  <2>1. 1 \in 1..Len(t) + 1
    OBVIOUS
  <2>. QED BY <1>1, <1>3, <2>1, NoCapturesTyped, MatcherCalled DEF Roomy
<1>5. Num(p, 1) = 0 /\ Cardinality(Opening(p)) \in Nat
  BY NumIs, FS_CardinalityType
<1>. QED BY <1>4, <1>5, NoCapturesTyped, CaptureAssumption DEF Crowded

-----------------------------------------------------------------------------
(* The captures of a settled pattern are those of its best walk *)

(* The entry of the group opened at o, when the tokens before i are done. *)
Records(p, t, s, i, o, e) ==
  /\ e.text = t /\ e.at = s[o]
  /\ \A q \in Closing(p) : Pair(p, o, q) /\ q < i => e.len = s[q] - s[o]

Recorded(p, t, s, i, c) ==
  /\ c \in Captures /\ c.num = Num(p, i)
  /\ \A o \in Opening(p) : o < i => Records(p, t, s, i, o, c.cap[Num(p, o) + 1])
  /\ \A g \in 1..MAXRECAPTURE : g > c.num => c.cap[g].len = 0

(* Only the group opened last has no parenthesis behind it. *)
LEMMA Innermost ==
  ASSUME NEW p, Regular(p), NEW i \in Int, NEW o \in Opening(p), o < i, Num(p, o) + 1 = Num(p, i),
         NEW u \in Opening(p), u < i, (u + 1..i - 1) \cap Parens(p) = {}
  PROVE  o = u
<1>1. o \in Int /\ u \in Int /\ Opening(p) \subseteq Parens(p)
  BY TokensAre DEF Parens, Opening
<1>2. ~(o > u)
  BY <1>1
<1>3. Num(p, i) >= Num(p, u) + 1 /\ (o < u => Num(p, u) >= Num(p, o) + 1)
  BY <1>1, NumOrders
<1>4. ~(o < u)
  BY <1>3, <1>1, NumIs
<1>. QED BY <1>1, <1>2, <1>4

LEMMA PairNum ==
  ASSUME NEW p, Regular(p), NEW i, NEW o, Pair(p, o, i)
  PROVE  Num(p, i) = Num(p, o) + 1
<1>1. o \in Opening(p) /\ o \in Int /\ i \in Int /\ o < i /\ Opening(p) \subseteq Int
  BY TokensAre DEF Pair
<1>2. \A x \in Opening(p) : x < i <=> x < o + 1
  <2>1. \A x \in Opening(p) : ~(x > o /\ x < i)
    BY <1>1 DEF Pair, Parens, Opening
  <2>. QED BY <1>1, <2>1
<1>3. {x \in Opening(p) : x < i} = {x \in Opening(p) : x < o + 1}
  BY <1>2
<1>4. Num(p, i) = Num(p, o + 1)
  BY <1>3 DEF Num
<1>. QED BY <1>1, <1>4, NumOrders

(* A group's place among the captures. *)
LEMMA Placed ==
  ASSUME NEW p, Regular(p), NEW i \in Nat \ {0}, NEW c \in Captures, c.num = Num(p, i),
         NEW o \in Opening(p), o < i
  PROVE  Num(p, o) + 1 \in 1..MAXRECAPTURE /\ Num(p, o) + 1 <= c.num
<1>1. o \in Int /\ Num(p, o) \in Nat
  BY TokensAre, NumIs
<1>2. Num(p, i) >= Num(p, o) + 1
  BY NumOrders
<1>. QED BY <1>1, <1>2, CaptureAssumption DEF Captures

LEMMA RecordsValid ==
  ASSUME NEW p, Regular(p), NEW t, NEW s, NEW i \in Nat \ {0}, NEW c, Recorded(p, t, s, i, c)
  PROVE  Valid(p, i, c)
<1>1. ASSUME NEW o \in Opening(p), o < i PROVE c.num > 0
  <2>1. c \in Captures /\ c.num = Num(p, i) /\ o \in Int
    BY TokensAre DEF Recorded
  <2>2. Num(p, o) + 1 <= c.num /\ Num(p, o) \in Nat /\ c.num \in Nat
    BY <1>1, <2>1, Placed, NumIs, CapturesNum
  <2>. QED BY <2>2
<1>. QED BY <1>1 DEF Valid

LEMMA RecordsOver ==
  ASSUME NEW p, Regular(p), NEW t, NEW s, NEW i \in Nat \ {0}, Type(p, i) \notin {"(", ")"}, NEW c,
         Recorded(p, t, s, i, c)
  PROVE  Recorded(p, t, s, i + 1, c)
<1>1. i \notin Opening(p) /\ i \notin Closing(p) /\ Opening(p) \subseteq Int /\ Closing(p) \subseteq Int
  BY TokensAre
<1>2. Num(p, i + 1) = Num(p, i)
  BY NumIs
<1>3. \A x \in Opening(p) \cup Closing(p) : x < i + 1 <=> x < i
  BY <1>1
<1>. QED BY <1>2, <1>3 DEF Recorded, Records

LEMMA RecordsClose ==
  ASSUME NEW p, Regular(p), NEW t, NEW s, NEW i \in Nat \ {0}, Type(p, i) = ")", NEW c,
         Recorded(p, t, s, i, c), NEW k \in Nat, s[i] = k
  PROVE  Recorded(p, t, s, i + 1, CloseCapture(c, k))
<1>. DEFINE d == CloseCapture(c, k)
<1>1. i \notin Opening(p) /\ i \in Closing(p) /\ Opening(p) \subseteq Int /\ Closing(p) \subseteq Int
  BY TokensAre
<1>2. PICK w \in Opening(p) : Pair(p, w, i)
  BY <1>1, RegularIs
<1>3. c \in Captures /\ c.num = Num(p, i) /\ Num(p, i) = Num(p, w) + 1 /\ Num(p, w) \in Nat
  BY <1>1, <1>2, PairNum, NumIs DEF Recorded
<1>4. c.num > 0
  BY <1>3
<1>5. /\ d \in Captures /\ d.num = c.num
      /\ \A g \in 1..MAXRECAPTURE :
           /\ d.cap[g].text = c.cap[g].text /\ d.cap[g].at = c.cap[g].at
           /\ d.cap[g].len = IF g = c.num THEN k - c.cap[g].at ELSE c.cap[g].len
  BY <1>3, <1>4, CloseIs
<1>. HIDE DEF d
<1>6. Num(p, i + 1) = Num(p, i)
  BY <1>1, NumIs
<1>7. ASSUME NEW o \in Opening(p), o < i + 1 PROVE Records(p, t, s, i + 1, o, d.cap[Num(p, o) + 1])
  <2>. DEFINE g == Num(p, o) + 1
  <2>1. o < i
    BY <1>1, <1>7
  <2>2. g \in 1..MAXRECAPTURE
    BY <1>3, <2>1, Placed
  <2>3. Records(p, t, s, i, o, c.cap[g])
    BY <2>1 DEF Recorded
  <2>. HIDE DEF g
  <2>4. d.cap[g].text = t /\ d.cap[g].at = s[o]
    BY <1>5, <2>2, <2>3 DEF Records
  <2>5. ASSUME NEW q \in Closing(p), Pair(p, o, q), q < i + 1 PROVE d.cap[g].len = s[q] - s[o]
    <3>1. CASE q = i
      <4>1. g = c.num
        BY <1>3, <2>5, <3>1, PairNum DEF g
      <4>. QED BY <1>5, <2>2, <2>3, <3>1, <4>1 DEF Records
    <3>2. CASE q # i
      <4>1. q < i /\ o < q
        BY <1>1, <2>5, <3>2 DEF Pair
      <4>2. g # c.num
        <5>1. SUFFICES ASSUME g = c.num PROVE FALSE
          OBVIOUS
        <5>2. w < i /\ (w + 1..i - 1) \cap Parens(p) = {}
          BY <1>2 DEF Pair
        <5>3. o = w
          BY <1>3, <2>1, <5>1, <5>2, Innermost DEF g
        <5>4. q \in w + 1..i - 1 /\ q \in Parens(p)
          BY <1>1, <2>5, <4>1, <5>3 DEF Parens, Closing
        <5>. QED BY <5>2, <5>4
      <4>3. c.cap[g].len = s[q] - s[o]
        BY <2>3, <2>5, <4>1 DEF Records
      <4>. QED BY <1>5, <2>2, <4>2, <4>3
    <3>. QED BY <3>1, <3>2
  <2>. QED BY <2>4, <2>5 DEF Records, g
<1>8. ASSUME NEW g \in 1..MAXRECAPTURE, g > d.num PROVE d.cap[g].len = 0
  <2>1. g # c.num /\ g > c.num
    BY <1>3, <1>5, <1>8
  <2>. QED BY <1>5, <2>1 DEF Recorded
<1>. QED BY <1>3, <1>5, <1>6, <1>7, <1>8 DEF Recorded, d

LEMMA RecordsOpen ==
  ASSUME NEW p, Regular(p), NEW t \in Seq(Char), NEW s, NEW i \in Nat \ {0}, Type(p, i) = "(", NEW c,
         Recorded(p, t, s, i, c), c.num # MAXRECAPTURE, NEW k \in Nat \ {0}, s[i] = k
  PROVE  Recorded(p, t, s, i + 1, OpenCapture(c, t, k))
<1>. DEFINE d == OpenCapture(c, t, k)
<1>1. i \in Opening(p) /\ i \notin Closing(p) /\ Opening(p) \subseteq Int /\ Closing(p) \subseteq Int
  <2>1. i \in Opening(p) /\ i \notin Closing(p)
    BY TokensAre
  <2>. QED BY <2>1, TokensAre
<1>2. c \in Captures /\ c.num = Num(p, i) /\ c.num \in Nat
  BY CapturesNum DEF Recorded
<1>3. /\ d \in Captures /\ d.num = c.num + 1
      /\ \A g \in 1..MAXRECAPTURE :
           /\ d.cap[g].text = IF g = d.num THEN t ELSE c.cap[g].text
           /\ d.cap[g].at = IF g = d.num THEN k ELSE c.cap[g].at
           /\ d.cap[g].len = c.cap[g].len
  BY <1>2, OpenIs
<1>. HIDE DEF d
<1>4. Num(p, i + 1) = Num(p, i) + 1
  BY NumIs
<1>5. \A q \in Closing(p) : q < i + 1 <=> q < i
  BY <1>1
<1>6. ASSUME NEW o \in Opening(p), o < i + 1 PROVE Records(p, t, s, i + 1, o, d.cap[Num(p, o) + 1])
  <2>. DEFINE g == Num(p, o) + 1
  <2>1. CASE o = i
    <3>1. g = d.num /\ g \in 1..MAXRECAPTURE
      <4>1. d.num \in Nat /\ d.num <= MAXRECAPTURE
        BY <1>3, CaptureAssumption DEF Captures
      <4>. QED BY <1>2, <1>3, <2>1, <4>1, CaptureAssumption
    <3>. HIDE DEF g
    <3>2. d.cap[g].text = t /\ d.cap[g].at = s[o]
      BY <1>3, <2>1, <3>1
    <3>3. \A q \in Closing(p) : Pair(p, o, q) => ~(q < i + 1)
      BY <1>1, <2>1 DEF Pair
    <3>. QED BY <3>2, <3>3 DEF Records, g
  <2>2. CASE o # i
    <3>1. o < i
      BY <1>1, <1>6, <2>2
    <3>2. g \in 1..MAXRECAPTURE /\ g <= c.num
      BY <1>2, <3>1, Placed
    <3>3. Records(p, t, s, i, o, c.cap[g])
      BY <3>1 DEF Recorded
    <3>. HIDE DEF g
    <3>4. g # d.num
      BY <1>2, <1>3, <3>2
    <3>5. d.cap[g].text = c.cap[g].text /\ d.cap[g].at = c.cap[g].at /\ d.cap[g].len = c.cap[g].len
      BY <1>3, <3>2, <3>4
    <3>. QED BY <1>5, <3>3, <3>5 DEF Records, g
  <2>. QED BY <2>1, <2>2
<1>7. ASSUME NEW g \in 1..MAXRECAPTURE, g > d.num PROVE d.cap[g].len = 0
  <2>1. g > c.num
    BY <1>2, <1>3, <1>7
  <2>. QED BY <1>3, <2>1 DEF Recorded
<1>. QED BY <1>2, <1>3, <1>4, <1>6, <1>7 DEF Recorded, d

LEMMA RecordsSimilar ==
  ASSUME NEW p, Regular(p), NEW t, NEW s, NEW i \in Nat \ {0}, NEW c, Recorded(p, t, s, i, c),
         NEW d, Similar(p, i, c, d)
  PROVE  Recorded(p, t, s, i, d)
<1>1. /\ c \in Captures /\ c.num = Num(p, i) /\ d \in Captures /\ d.num = Num(p, i) /\ c.num \in Nat
      /\ Opening(p) \subseteq Int /\ Closing(p) \subseteq Int
  BY CapturesNum, TokensAre DEF Recorded, Similar
<1>2. ASSUME NEW o \in Opening(p), o < i PROVE Records(p, t, s, i, o, d.cap[Num(p, o) + 1])
  <2>. DEFINE g == Num(p, o) + 1
  <2>1. g \in 1..MAXRECAPTURE
    BY <1>1, <1>2, Placed
  <2>2. Records(p, t, s, i, o, c.cap[g])
    BY <1>2 DEF Recorded
  <2>. HIDE DEF g
  <2>3. d.cap[g].text = t /\ d.cap[g].at = s[o]
    BY <2>1, <2>2 DEF Records, Similar
  <2>4. ASSUME NEW q \in Closing(p), Pair(p, o, q), q < i PROVE d.cap[g].len = s[q] - s[o]
    <3>1. SUFFICES d.cap[g].len = c.cap[g].len
      BY <2>2, <2>4 DEF Records
    <3>2. SUFFICES ASSUME g = c.num, Inside(p, i) PROVE FALSE
      BY <2>1 DEF Similar
    <3>3. PICK w \in Opening(p) : w < i /\ (w + 1..i - 1) \cap Parens(p) = {}
      BY <3>2 DEF Inside
    <3>4. o = w
      BY <1>1, <1>2, <3>2, <3>3, Innermost DEF g
    <3>5. q \in w + 1..i - 1 /\ q \in Parens(p)
      BY <1>1, <2>4, <3>4 DEF Parens, Closing, Pair
    <3>. QED BY <3>3, <3>5
  <2>. QED BY <2>3, <2>4 DEF Records, g
<1>3. ASSUME NEW g \in 1..MAXRECAPTURE, g > d.num PROVE d.cap[g].len = 0
  <2>1. g > c.num /\ g # c.num
    BY <1>1, <1>3
  <2>. QED BY <2>1 DEF Recorded, Similar
<1>. QED BY <1>1, <1>2, <1>3 DEF Recorded

LEMMA BestLater ==
  ASSUME NEW p \in Seq(Token), NEW t \in Seq(Char), NEW q \in 1..Len(p), NEW s, Best(p, t, s, q)
  PROVE  Best(p, t, s, q + 1)
<1>1. Len(p) \in Nat /\ Walk(p, t, s, q) /\ Walk(p, t, s, q + 1) /\ Moves(p, t, s, q)
  BY WalkFrom DEF Best
<1>2. ASSUME NEW r, Walk(p, t, r, q + 1), r[q + 1] = s[q + 1]
      PROVE  (\A j \in q + 1..Len(p) + 1 : r[j] = s[j]) \/ Prefers(p, s, r, q + 1)
  <2>. DEFINE u == [r EXCEPT ![q] = s[q]]
  <2>1. s[q] \in 1..Len(t) + 1
    BY <1>1, WalkTyped
  <2>2. Walk(p, t, u, q + 1) /\ u[q] = s[q] /\ \A j \in 1..Len(p) + 1 : j # q => u[j] = r[j]
    BY <1>2, <2>1, WalkChanged
  <2>. HIDE DEF u
  <2>3. u[q + 1] = s[q + 1] /\ \A j \in q + 1..Len(p) + 1 : u[j] = r[j]
    BY <1>1, <1>2, <2>2
  <2>4. Moves(p, t, u, q)
    BY <1>1, <2>2, <2>3 DEF Moves
  <2>5. Walk(p, t, u, q)
    BY <2>2, <2>4, WalkFrom
  <2>6. (\A j \in q..Len(p) + 1 : u[j] = s[j]) \/ Prefers(p, s, u, q)
    BY <2>2, <2>5 DEF Best
  <2>7. CASE \A j \in q..Len(p) + 1 : u[j] = s[j]
    BY <1>1, <2>3, <2>7
  <2>8. CASE Prefers(p, s, u, q)
    <3>1. PICK x \in q..Len(p) : /\ Type(p, x) = "one"
                                 /\ \A j \in q..x : s[j] = u[j]
                                 /\ Preferable(p, x, s[x + 1], u[x + 1])
      BY <2>8 DEF Prefers
    <3>2. x # q
      <4>1. SUFFICES ASSUME x = q PROVE FALSE
        OBVIOUS
      <4>2. s[q + 1] \in 1..Len(t) + 1 /\ Preferable(p, q, s[q + 1], s[q + 1])
        BY <1>1, <2>3, <3>1, <4>1, WalkTyped
      <4>. QED BY <4>2 DEF Preferable
    <3>3. x \in q + 1..Len(p) /\ x + 1 \in q + 1..Len(p) + 1
      BY <1>1, <3>2
    <3>4. \A j \in q + 1..x : s[j] = r[j]
      BY <1>1, <2>3, <3>1, <3>3
    <3>5. Preferable(p, x, s[x + 1], r[x + 1])
      BY <2>3, <3>1, <3>3
    <3>. QED BY <3>1, <3>3, <3>4, <3>5 DEF Prefers
  <2>. QED BY <2>6, <2>7, <2>8
<1>. QED BY <1>1, <1>2 DEF Best

(* A best walk has the captures of the call when the call has skipped the    *)
(* parentheses before its token.                                             *)
LEMMA EnteredRecorded ==
  ASSUME NEW p, Regular(p), NEW t \in Seq(Char), NEW i, CallAt(p, i), NEW k \in 1..Len(t) + 1,
         NEW s, Best(p, t, s, i), s[i] = k, NEW c, Recorded(p, t, s, i, c), ~Full(p, i, c)
  PROVE  LET i2 == Skip(p, i, c)
         IN s[i2] = k /\ Best(p, t, s, i2) /\ Recorded(p, t, s, i2, Entered(p, i, t, k, c))
<1>. DEFINE i1 == Next1(p, i, c)
            i2 == Skip(p, i, c)
            c1 == Closed(p, i, k, c)
<1>1. /\ c \in Captures /\ i \in 1..Len(p) + 1 /\ Len(p) \in Nat /\ p \in Seq(Token)
      /\ k \in Nat \ {0}
  BY RegularIs DEF Recorded, CallAt
<1>2. i \in Nat \ {0} /\ Valid(p, i, c)
  BY <1>1, RecordsValid
<1>3. /\ Closes(p, i, c) <=> Type(p, i) = ")"
      /\ Type(p, i) = ")" => i + 1 \in 1..Len(p) + 1
      /\ i1 = (IF Type(p, i) = ")" THEN i + 1 ELSE i)
      /\ i2 = (IF OpensAt(p, i, c) THEN i1 + 1 ELSE i1)
      /\ i2 \in i..Len(p) + 1
      /\ c1.num = c.num
  BY <1>1, <1>2, Shape, EnteredTyped
<1>4. s[i1] = k /\ Best(p, t, s, i1) /\ Recorded(p, t, s, i1, c1) /\ i1 \in Nat \ {0} /\ i1 <= Len(p) + 1
  <2>1. CASE Type(p, i) = ")"
    <3>1. i \in 1..Len(p) /\ i1 = i + 1 /\ c1 = CloseCapture(c, k)
      BY <1>1, <1>3, <2>1 DEF Closed
    <3>2. Best(p, t, s, i + 1) /\ s[i + 1] = s[i]
      <4>1. Moves(p, t, s, i)
        BY <1>1, <3>1 DEF Best, Walk
      <4>. QED BY <1>1, <2>1, <3>1, <4>1, BestLater DEF Moves
    <3>3. Recorded(p, t, s, i + 1, CloseCapture(c, k))
      BY <1>1, <1>2, <2>1, RecordsClose
    <3>. QED BY <1>1, <3>1, <3>2, <3>3
  <2>2. CASE Type(p, i) # ")"
    BY <1>1, <1>2, <1>3, <2>2 DEF Closed
  <2>. QED BY <2>1, <2>2
<1>5. OpensAt(p, i, c) <=> Type(p, i1) = "("
  BY DEF OpensAt
<1>. HIDE DEF i1, i2, c1
<1>6. CASE OpensAt(p, i, c)
  <2>1. i1 \in 1..Len(p) /\ i2 = i1 + 1 /\ Entered(p, i, t, k, c) = OpenCapture(c1, t, k) /\ c1.num # MAXRECAPTURE
    BY <1>1, <1>3, <1>4, <1>6 DEF Entered, Full, c1
  <2>2. Best(p, t, s, i1 + 1) /\ s[i1 + 1] = s[i1]
    <3>1. Moves(p, t, s, i1)
      BY <1>4, <2>1 DEF Best, Walk
    <3>. QED BY <1>1, <1>4, <1>5, <1>6, <2>1, <3>1, BestLater DEF Moves
  <2>3. Recorded(p, t, s, i1 + 1, OpenCapture(c1, t, k))
    BY <1>1, <1>4, <1>5, <1>6, <2>1, RecordsOpen
  <2>. QED BY <1>4, <2>1, <2>2, <2>3 DEF i2
<1>7. CASE ~OpensAt(p, i, c)
  BY <1>3, <1>4, <1>7 DEF Entered, i2, c1
<1>. QED BY <1>6, <1>7

Through(p, t, q, k, e) == \E u : Walk(p, t, u, q) /\ u[q] = k /\ u[q + 1] = e

LEMMA Grafted ==
  ASSUME NEW p, Regular(p), NEW t \in Seq(Char), NEW q \in 1..Len(p), Type(p, q) = "one",
         Type(p, q + 1) \in Signs, NEW k \in 1..Len(t) + 1, NEW e \in 1..Len(t) + 1,
         Takes(p, t, q, k, e), HasWalk(p, t, q + 2, e)
  PROVE  Through(p, t, q, k, e)
<1>1. /\ p \in Seq(Token) /\ Len(p) \in Nat /\ q + 1 \in 1..Len(p) /\ q + 1 + 1 = q + 2 /\ q + 2 \in 1..Len(p) + 1
      /\ Type(p, q + 1) # "one"
  BY RegularIs, AfterSign DEF Signs
<1>2. PICK w : Walk(p, t, w, q + 2) /\ w[q + 2] = e
  BY DEF HasWalk
<1>. DEFINE v == [w EXCEPT ![q + 1] = e]
            u == [v EXCEPT ![q] = k]
<1>3. Walk(p, t, v, q + 2) /\ v[q + 1] = e /\ v[q + 2] = e
  <2>1. /\ Walk(p, t, v, q + 1 + 1) /\ v[q + 1] = e
        /\ \A j \in 1..Len(p) + 1 : j # q + 1 => v[j] = w[j]
    BY <1>1, <1>2, WalkChanged
  <2>. HIDE DEF v
  <2>. QED BY <1>1, <1>2, <2>1
<1>. HIDE DEF v
<1>4. Walk(p, t, v, q + 1)
  <2>1. Moves(p, t, v, q + 1)
    BY <1>1, <1>3 DEF Moves
  <2>. QED BY <1>1, <1>3, <2>1, WalkFrom
<1>5. Walk(p, t, u, q + 1) /\ u[q] = k /\ u[q + 1] = e
  <2>1. /\ Walk(p, t, u, q + 1) /\ u[q] = k
        /\ \A j \in 1..Len(p) + 1 : j # q => u[j] = v[j]
    BY <1>1, <1>4, WalkChanged
  <2>. HIDE DEF u
  <2>. QED BY <1>1, <1>3, <2>1
<1>. HIDE DEF u
<1>6. Walk(p, t, u, q)
  <2>1. Moves(p, t, u, q)
    BY <1>5 DEF Moves
  <2>. QED BY <1>1, <1>5, <2>1, WalkFrom
<1>. QED BY <1>5, <1>6 DEF Through

(* The attempt that gets further is the one the best walk takes. *)
LEMMA BestTakes ==
  ASSUME NEW p, Regular(p), NEW t \in Seq(Char), NEW q \in 1..Len(p), Type(p, q) = "one",
         Type(p, q + 1) \in Signs, NEW s, Best(p, t, s, q),
         NEW j \in 1..Len(Ends(p, q, t, s[q])), HasWalk(p, t, q + 2, Ends(p, q, t, s[q])[j]),
         \A l \in 1..j - 1 : ~HasWalk(p, t, q + 2, Ends(p, q, t, s[q])[l])
  PROVE  s[q + 2] = Ends(p, q, t, s[q])[j] /\ Best(p, t, s, q + 2)
<1>. DEFINE ks == Ends(p, q, t, s[q])
            k == s[q]
<1>1. /\ p \in Seq(Token) /\ Len(p) \in Nat /\ q + 1 \in 1..Len(p) /\ q + 1 + 1 = q + 2 /\ q + 2 \in 1..Len(p) + 1
      /\ Type(p, q + 1) # "one"
  BY RegularIs, AfterSign DEF Signs
<1>2. Walk(p, t, s, q) /\ Best(p, t, s, q + 1) /\ Best(p, t, s, q + 2)
  BY <1>1, BestLater DEF Best
<1>3. /\ s[q] \in 1..Len(t) + 1 /\ s[q + 1] \in 1..Len(t) + 1 /\ s[q + 2] = s[q + 1]
      /\ Takes(p, t, q, s[q], s[q + 1]) /\ Walk(p, t, s, q + 2)
  <2>1. Moves(p, t, s, q) /\ Moves(p, t, s, q + 1)
    BY <1>1, <1>2, WalkFrom DEF Best
  <2>2. s[q] \in 1..Len(t) + 1 /\ s[q + 1] \in 1..Len(t) + 1
    BY <1>1, <1>2, WalkTyped
  <2>. QED BY <1>1, <1>2, <2>1, <2>2 DEF Moves, Best
<1>4. /\ ks \in Seq(1..Len(t) + 1)
      /\ \A l \in 1..Len(ks) : Takes(p, t, q, k, ks[l])
      /\ \A e \in 1..Len(t) + 1 : Takes(p, t, q, k, e) => \E l \in 1..Len(ks) : ks[l] = e
      /\ \A l, n \in 1..Len(ks) : l < n => IF Type(p, q + 1) = "?" THEN ks[l] < ks[n] ELSE ks[l] > ks[n]
  BY <1>3, EndsAre
<1>. HIDE DEF ks
<1>5. PICK l \in 1..Len(ks) : ks[l] = s[q + 1]
  BY <1>3, <1>4
<1>6. HasWalk(p, t, q + 2, ks[l])
  BY <1>3, <1>5 DEF HasWalk
<1>7. j \in 1..Len(ks) /\ Len(ks) \in Nat /\ ks[j] \in 1..Len(t) + 1 /\ ks[l] \in 1..Len(t) + 1
  BY <1>4 DEF ks
<1>8. ~(l < j)
  <2>1. SUFFICES ASSUME l < j PROVE FALSE
    OBVIOUS
  <2>2. l \in 1..j - 1
    BY <1>7, <2>1
  <2>. QED BY <1>6, <2>2 DEF ks
<1>9. ~(j < l)
  <2>1. SUFFICES ASSUME j < l PROVE FALSE
    OBVIOUS
  <2>2. IF Type(p, q + 1) = "?" THEN ks[j] < ks[l] ELSE ks[j] > ks[l]
    BY <1>4, <1>7, <2>1
  <2>3. HasWalk(p, t, q + 2, ks[j]) /\ Takes(p, t, q, k, ks[j])
    BY <1>4, <1>7 DEF ks
  <2>4. PICK u : Walk(p, t, u, q) /\ u[q] = k /\ u[q + 1] = ks[j]
    <3>1. Through(p, t, q, k, ks[j])
      BY <1>3, <1>7, <2>3, Grafted
    <3>. QED BY <3>1 DEF Through
  <2>5. (\A x \in q..Len(p) + 1 : u[x] = s[x]) \/ Prefers(p, s, u, q)
    BY <2>4 DEF Best
  <2>6. u[q + 1] # s[q + 1]
    BY <1>5, <1>7, <2>2, <2>4
  <2>7. PICK x \in q..Len(p) : /\ \A y \in q..x : s[y] = u[y]
                               /\ Preferable(p, x, s[x + 1], u[x + 1])
    BY <1>1, <2>5, <2>6 DEF Prefers
  <2>8. x = q
    <3>1. SUFFICES ASSUME x # q PROVE FALSE
      OBVIOUS
    <3>2. q + 1 \in q..x
      BY <1>1, <2>7, <3>1
    <3>. QED BY <2>6, <2>7, <3>2
  <2>. QED BY <1>5, <1>7, <2>2, <2>4, <2>7, <2>8 DEF Preferable
<1>10. l = j
  BY <1>7, <1>8, <1>9
<1>. QED BY <1>2, <1>3, <1>5, <1>10 DEF ks

Follows(p, t, i) ==
  CallAt(p, i) =>
    \A k \in 1..Len(t) + 1, c \in Captures : \A s :
      LET r == Matcher(p, t)[<<i, k, c>>]
      IN Best(p, t, s, i) /\ s[i] = k /\ Recorded(p, t, s, i, c) /\ r.ok => Recorded(p, t, s, Len(p) + 1, r.caps)

(* A call records the best walk if the calls behind it do. *)
LEMMA FollowsStep ==
  ASSUME NEW p, Regular(p), Settled(p), NEW t \in Seq(Char), NEW i \in 1..Len(p) + 1,
         \A j \in i + 1..Len(p) + 1 : Follows(p, t, j)
  PROVE  Follows(p, t, i)
<1>1. SUFFICES ASSUME CallAt(p, i), NEW k \in 1..Len(t) + 1, NEW c \in Captures, NEW s, Best(p, t, s, i),
                      s[i] = k, Recorded(p, t, s, i, c), Matcher(p, t)[<<i, k, c>>].ok
               PROVE  Recorded(p, t, s, Len(p) + 1, Matcher(p, t)[<<i, k, c>>].caps)
  BY DEF Follows
<1>. DEFINE m == Matcher(p, t)
            r == m[<<i, k, c>>]
            i2 == Skip(p, i, c)
            c2 == Entered(p, i, t, k, c)
            ks == Ends(p, i2, t, k)
<1>2. p \in Seq(Token) /\ Len(p) \in Nat /\ Len(t) \in Nat /\ Valid(p, i, c)
  BY <1>1, RegularIs, RecordsValid
<1>3. /\ i2 \in i..Len(p) + 1
      /\ Type(p, i2) \in {"one", "none"}
      /\ Type(p, i2) = "none" => i2 = Len(p) + 1
      /\ Type(p, i2) = "one" => /\ i2 \in 1..Len(p)
                                /\ Type(p, i2 + 1) \notin Signs => CallAt(p, i2 + 1)
                                /\ Type(p, i2 + 1) \in Signs => i2 + 1 <= Len(p) /\ CallAt(p, i2 + 2)
  BY <1>1, <1>2, Shape
<1>4. CallCases(p, t, i, k, c, m, r, i2, c2, ks)
  BY <1>1, <1>2, CallIs
<1>5. ~Full(p, i, c) => s[i2] = k /\ Best(p, t, s, i2) /\ Recorded(p, t, s, i2, c2)
  BY <1>1, EnteredRecorded
<1>6. ~Full(p, i, c) =>
        \A j \in {i2 + 1, i2 + 2}, d \in Captures :
           Type(p, i2) = "one" /\ (j = i2 + 2 => Type(p, i2 + 1) \in Signs) /\ d.num >= c2.num => Valid(p, j, d)
  BY <1>1, <1>2, EnteredValid
<1>7. m = Matcher(p, t) /\ r = m[<<i, k, c>>] /\ ks = Ends(p, i2, t, k) /\ r.ok
  BY <1>1
<1>8. SUFFICES Recorded(p, t, s, Len(p) + 1, r.caps)
  OBVIOUS
<1>. HIDE DEF m, r, i2, c2, ks
<1>9. ~Full(p, i, c)
  BY <1>4, <1>7 DEF CallCases, RunsOut
<1>10. CASE Type(p, i2) = "none"
  BY <1>3, <1>4, <1>5, <1>7, <1>9, <1>10 DEF CallCases, Matches, Fails
<1>11. CASE Type(p, i2) = "one" /\ Type(p, i2 + 1) \notin Signs
  <2>1. k <= Len(t) /\ r = m[<<i2 + 1, k + 1, c2>>] /\ c2 \in Captures
    BY <1>4, <1>7, <1>9, <1>11 DEF CallCases, Fails
  <2>2. CallAt(p, i2 + 1) /\ i2 + 1 \in i + 1..Len(p) + 1 /\ k + 1 \in 1..Len(t) + 1 /\ i2 \in Nat \ {0} /\ i2 \in 1..Len(p)
    BY <1>2, <1>3, <1>11, <2>1
  <2>3. Best(p, t, s, i2 + 1)
    BY <1>2, <1>5, <1>9, <2>2, BestLater
  <2>4. s[i2 + 1] = k + 1
    <3>1. PICK e \in 1..Len(t) + 1 : e = s[i2 + 1] /\ Takes(p, t, i2, k, e)
      <4>1. Walk(p, t, s, i2) /\ i2 + 1 \in 1..Len(p) + 1
        BY <1>2, <1>5, <1>9, <2>2 DEF Best
      <4>2. Moves(p, t, s, i2)
        BY <1>2, <2>2, <4>1, WalkFrom
      <4>3. s[i2 + 1] \in 1..Len(t) + 1
        BY <1>2, <4>1, WalkTyped
      <4>. QED BY <1>5, <1>9, <1>11, <4>2, <4>3 DEF Moves
    <3>2. \A f \in 1..Len(t) + 1 : Takes(p, t, i2, k, f) <=> f = k + 1 /\ t[k] \in p[i2].set
      BY <1>11, PlainTakes
    <3>. QED BY <3>1, <3>2
  <2>5. Recorded(p, t, s, i2 + 1, c2)
    BY <1>5, <1>9, <1>11, <2>2, RecordsOver
  <2>. QED BY <1>7, <2>1, <2>2, <2>3, <2>4, <2>5 DEF Follows
<1>12. CASE Type(p, i2) = "one" /\ Type(p, i2 + 1) \in Signs
  <2>1. Attempted(m, i2 + 2, ks, c2, r) /\ c2 \in Captures /\ ks \in Seq(1..Len(t) + 1)
    BY <1>4, <1>9, <1>12 DEF CallCases
  <2>2. i2 \in 1..Len(p) /\ CallAt(p, i2 + 2) /\ i2 + 2 \in i + 1..Len(p) + 1 /\ i2 \in Nat \ {0} /\ i2 + 1 \in Nat \ {0}
        /\ i2 + 1 + 1 = i2 + 2 /\ i2 + 2 \in Nat \ {0}
    BY <1>2, <1>3, <1>12
  <2>3. PICK try, j : Tried(m, i2 + 2, ks, try, j, r) /\ try[0] = Fails(c2)
    BY <2>1 DEF Attempted
  <2>4. \A d \in Captures : d.num >= c2.num => Valid(p, i2 + 2, d)
    BY <1>6, <1>9, <1>12
  <2>5. Tried(Matcher(p, t), i2 + 2, Ends(p, i2, t, k), try, j, r)
    BY <1>7, <2>3
  <2>6. Further(p, t, i2 + 2, c2, Matcher(p, t), Ends(p, i2, t, k), try, j, r)
    BY <1>7, <1>12, <2>1, <2>2, <2>3, <2>4, <2>5, Threaded
  <2>7. /\ j \in 1..Len(Ends(p, i2, t, s[i2])) /\ HasWalk(p, t, i2 + 2, Ends(p, i2, t, s[i2])[j])
        /\ \A l \in 1..j - 1 : ~HasWalk(p, t, i2 + 2, Ends(p, i2, t, s[i2])[l])
    BY <1>5, <1>7, <1>9, <2>6 DEF Further, HasBest, HasWalk, Best
  <2>8. s[i2 + 2] = Ends(p, i2, t, s[i2])[j] /\ Best(p, t, s, i2 + 2)
    BY <1>5, <1>9, <1>12, <2>2, <2>7, BestTakes
  <2>9. s[i2 + 2] = ks[j] /\ ks[j] \in 1..Len(t) + 1
    <3>1. s[i2 + 2] = ks[j] /\ j \in 1..Len(ks)
      BY <1>5, <1>7, <1>9, <2>6, <2>8 DEF Further
    <3>. QED BY <2>1, <3>1
  <2>. DEFINE d == try[j - 1].caps
  <2>10. Similar(p, i2 + 2, c2, d) /\ r = m[<<i2 + 2, ks[j], d>>]
    BY <1>7, <2>6 DEF Further
  <2>. HIDE DEF d
  <2>11. d \in Captures
    BY <2>10 DEF Similar
  <2>12. Recorded(p, t, s, i2 + 1, c2)
    <3>1. Type(p, i2) \notin {"(", ")"}
      BY <1>12
    <3>. QED BY <1>5, <1>9, <2>2, <3>1, RecordsOver
  <2>13. Recorded(p, t, s, i2 + 2, c2)
    <3>1. Type(p, i2 + 1) \notin {"(", ")"}
      BY <1>12 DEF Signs
    <3>2. Recorded(p, t, s, i2 + 1 + 1, c2)
      BY <2>2, <2>12, <3>1, RecordsOver
    <3>. QED BY <2>2, <3>2
  <2>14. Recorded(p, t, s, i2 + 2, d)
    BY <2>2, <2>10, <2>13, RecordsSimilar
  <2>. QED BY <1>7, <2>2, <2>8, <2>9, <2>10, <2>11, <2>14 DEF Follows
<1>. QED BY <1>3, <1>10, <1>11, <1>12

(* The captures of a match of a settled pattern are those of its best walk. *)
LEMMA MatcherFollows ==
  ASSUME NEW p, Regular(p), Settled(p), NEW t \in Seq(Char), NEW s, Best(p, t, s, 1), s[1] = 1,
         ReMatchPattern(p, t, NoCaptures).ok
  PROVE  Recorded(p, t, s, Len(p) + 1, ReMatchPattern(p, t, NoCaptures).caps)
<1>. DEFINE N == Len(p) + 1
            S == {i \in 1..N : Follows(p, t, i)}
<1>1. N \in Nat /\ 1 \in 1..N /\ CallAt(p, 1)
  BY RegularIs, StartsCalls
<1>2. \A i \in 1..N : (\A j \in i + 1..N : j \in S) => i \in S
  BY FollowsStep
<1>3. Follows(p, t, 1)
  <2>. HIDE DEF S, N
  <2>1. 1..N \subseteq S
    BY <1>1, <1>2, Downward
  <2>. QED BY <1>1, <2>1 DEF S
<1>4. Recorded(p, t, s, 1, NoCaptures)
  <2>1. Num(p, 1) = 0 /\ \A o \in Opening(p) : ~(o < 1)
    BY NumIs, TokensAre
  <2>2. \A g \in 1..MAXRECAPTURE : NoCaptures.cap[g].len = 0
    BY DEF NoCaptures, NoCapture
  <2>. QED BY <2>1, <2>2, NoCapturesTyped DEF Recorded
<1>5. 1 \in 1..Len(t) + 1
  OBVIOUS
<1>. QED BY <1>1, <1>3, <1>4, <1>5, NoCapturesTyped, MatcherCalled DEF Follows

-----------------------------------------------------------------------------
(* Walks and splits: the same matches, told by where every token begins and  *)
(* by where those that take characters end                                   *)

LEMMA MaxIs ==
  ASSUME NEW S, S \subseteq Nat, NEW n \in S, \A x \in S : x <= n
  PROVE  Max(S) = n
<1>1. \A x \in S : (\A y \in S : x >= y) => x = n
  <2>1. ASSUME NEW x \in S, \A y \in S : x >= y PROVE x = n
    <3>1. x >= n /\ x <= n /\ x \in Nat /\ n \in Nat
      BY <2>1
    <3>. QED BY <3>1
  <2>. QED BY <2>1
<1>2. \A y \in S : n >= y
  OBVIOUS
<1>. QED BY <1>1, <1>2 DEF Max

LEMMA MinIs ==
  ASSUME NEW S, S \subseteq Nat, NEW n \in S, \A x \in S : n <= x
  PROVE  Min(S) = n
<1>1. \A x \in S : (\A y \in S : x =< y) => x = n
  <2>1. ASSUME NEW x \in S, \A y \in S : x =< y PROVE x = n
    <3>1. x <= n /\ n <= x /\ x \in Nat /\ n \in Nat
      BY <2>1
    <3>. QED BY <3>1
  <2>. QED BY <2>1
<1>2. \A y \in S : n =< y
  OBVIOUS
<1>. QED BY <1>1, <1>2 DEF Min

LEMMA StartIs ==
  ASSUME NEW p, Regular(p), NEW ends
  PROVE  /\ Start(p, ends, 1) = 1
         /\ \A i \in 1..Len(p) :
              Start(p, ends, i + 1) = IF Type(p, i) = "one" THEN ends[i] ELSE Start(p, ends, i)
<1>. DEFINE before(i) == {j \in Atoms(p) : j < i}
<1>1. Atoms(p) \subseteq 1..Len(p) /\ Len(p) \in Nat
  BY TokensAre, RegularIs
<1>2. \A i : Start(p, ends, i) = IF before(i) = {} THEN 1 ELSE ends[Max(before(i))]
  BY DEF Start
<1>3. before(1) = {}
  BY <1>1
<1>4. ASSUME NEW i \in 1..Len(p), Type(p, i) = "one" PROVE Start(p, ends, i + 1) = ends[i]
  <2>1. i \in before(i + 1) /\ before(i + 1) \subseteq Nat /\ \A x \in before(i + 1) : x <= i
    BY <1>1, <1>4, TokensAre
  <2>. HIDE DEF before
  <2>2. Max(before(i + 1)) = i
    BY <2>1, MaxIs
  <2>. QED BY <1>2, <2>1, <2>2
<1>5. ASSUME NEW i \in 1..Len(p), Type(p, i) # "one" PROVE Start(p, ends, i + 1) = Start(p, ends, i)
  <2>1. i \notin Atoms(p)
    BY <1>5, TokensAre
  <2>2. \A j \in Atoms(p) : j < i + 1 <=> j < i
    BY <1>1, <2>1
  <2>3. before(i + 1) = before(i)
    BY <2>2
  <2>. QED BY <1>2, <2>3
<1>. QED BY <1>2, <1>3, <1>4, <1>5

(* The split of a walk, and the walk of a split. *)
SplitOf(p, s) == [i \in Atoms(p) |-> s[i + 1]]
WalkOf(p, ends) == [i \in 1..Len(p) + 1 |-> Start(p, ends, i)]

LEMMA TakesIs ==
  ASSUME NEW p, NEW t, NEW j, NEW k, NEW e
  PROVE  Takes(p, t, j, k, e) <=> e - k \in Counts(p, j, Len(t)) /\ \A q \in k..(e - 1) : t[q] \in p[j].set
BY DEF Takes

(* A split is a walk ... *)
LEMMA SplitIsWalk ==
  ASSUME NEW p, Regular(p), NEW t \in Seq(Char), NEW ends \in Splits(p, t)
  PROVE  Walk(p, t, WalkOf(p, ends), 1) /\ WalkOf(p, ends)[1] = 1 /\ SplitOf(p, WalkOf(p, ends)) = ends
<1>. DEFINE s == WalkOf(p, ends)
            S == {n \in 0..Len(p) : Start(p, ends, n + 1) \in 1..Len(t) + 1}
<1>1. /\ ends \in [Atoms(p) -> 1..Len(t) + 1] /\ Start(p, ends, Len(p) + 1) = Len(t) + 1
      /\ \A i \in Atoms(p) : Takes(p, t, i, Start(p, ends, i), ends[i])
  BY TakesIs DEF Splits
<1>2. Len(p) \in Nat /\ Len(t) \in Nat /\ Atoms(p) \subseteq 1..Len(p)
  BY RegularIs, TokensAre
<1>3. \A i \in 1..Len(p) : i \in Atoms(p) <=> Type(p, i) = "one"
  BY <1>2, TokensAre
<1>4. /\ Start(p, ends, 1) = 1
      /\ \A i \in 1..Len(p) :
              Start(p, ends, i + 1) = IF Type(p, i) = "one" THEN ends[i] ELSE Start(p, ends, i)
  BY StartIs
<1>5. \A i \in 1..Len(p) + 1 : Start(p, ends, i) \in 1..Len(t) + 1
  <2>1. 0 \in S
    BY <1>2, <1>4
  <2>2. ASSUME NEW n \in 0..Len(p) - 1, n \in S PROVE n + 1 \in S
    <3>1. n + 1 \in 1..Len(p) /\ Start(p, ends, n + 1) \in 1..Len(t) + 1
      BY <1>2, <2>2
    <3>2. Start(p, ends, n + 1 + 1) \in 1..Len(t) + 1
      BY <1>1, <1>3, <1>4, <3>1
    <3>. QED BY <3>1, <3>2
  <2>3. 0..Len(p) \subseteq S
    <3>. HIDE DEF S
    <3>. QED BY <1>2, <2>1, <2>2, UpTo
  <2>4. ASSUME NEW i \in 1..Len(p) + 1 PROVE Start(p, ends, i) \in 1..Len(t) + 1
    <3>1. i - 1 \in 0..Len(p) /\ i - 1 + 1 = i
      BY <1>2
    <3>. QED BY <2>3, <3>1
  <2>. QED BY <2>4
<1>6. s \in Positions(p, t) /\ \A i \in 1..Len(p) + 1 : s[i] = Start(p, ends, i)
  BY <1>5 DEF WalkOf, Positions
<1>. HIDE DEF s
<1>7. Len(p) + 1 \in 1..Len(p) + 1 /\ 1 \in 1..Len(p) + 1 /\ \A i \in 1..Len(p) : i \in 1..Len(p) + 1 /\ i + 1 \in 1..Len(p) + 1
  BY <1>2
<1>8. ASSUME NEW j \in 1..Len(p) PROVE Moves(p, t, s, j)
  BY <1>1, <1>3, <1>4, <1>6, <1>7 DEF Moves
<1>9. Walk(p, t, s, 1) /\ s[1] = 1
  BY <1>1, <1>4, <1>6, <1>7, <1>8 DEF Walk
<1>10. \A i \in Atoms(p) : s[i + 1] = ends[i]
  BY <1>2, <1>3, <1>4, <1>6, <1>7
<1>11. SplitOf(p, s) = ends
  BY <1>1, <1>10 DEF SplitOf
<1>. QED BY <1>9, <1>11 DEF s

(* ... and a walk is a split. *)
LEMMA WalkIsSplit ==
  ASSUME NEW p, Regular(p), NEW t \in Seq(Char), NEW s, Walk(p, t, s, 1), s[1] = 1
  PROVE  /\ SplitOf(p, s) \in Splits(p, t)
         /\ \A i \in 1..Len(p) + 1 : Start(p, SplitOf(p, s), i) = s[i]
<1>. DEFINE ends == SplitOf(p, s)
            S == {n \in 0..Len(p) : Start(p, ends, n + 1) = s[n + 1]}
<1>1. Len(p) \in Nat /\ Len(t) \in Nat /\ Atoms(p) \subseteq 1..Len(p)
  BY RegularIs, TokensAre
<1>2. \A i \in 1..Len(p) : i \in Atoms(p) <=> Type(p, i) = "one"
  BY <1>1, TokensAre
<1>3. \A i \in 1..Len(p) : i \in 1..Len(p) + 1 /\ i + 1 \in 1..Len(p) + 1
  BY <1>1
<1>4. s \in [1..Len(p) + 1 -> 1..Len(t) + 1] /\ s[Len(p) + 1] = Len(t) + 1 /\ \A j \in 1..Len(p) : Moves(p, t, s, j)
  BY DEF Walk, Positions
<1>5. ends \in [Atoms(p) -> 1..Len(t) + 1] /\ \A i \in Atoms(p) : ends[i] = s[i + 1]
  BY <1>1, <1>3, <1>4 DEF SplitOf
<1>. HIDE DEF ends
<1>6. /\ Start(p, ends, 1) = 1
      /\ \A i \in 1..Len(p) :
              Start(p, ends, i + 1) = IF Type(p, i) = "one" THEN ends[i] ELSE Start(p, ends, i)
  BY StartIs
<1>7. \A i \in 1..Len(p) + 1 : Start(p, ends, i) = s[i]
  <2>1. 0 \in S
    BY <1>1, <1>6
  <2>2. ASSUME NEW n \in 0..Len(p) - 1, n \in S PROVE n + 1 \in S
    <3>1. n + 1 \in 1..Len(p) /\ Start(p, ends, n + 1) = s[n + 1]
      BY <1>1, <2>2
    <3>2. Start(p, ends, n + 1 + 1) = s[n + 1 + 1]
      BY <1>2, <1>4, <1>5, <1>6, <3>1 DEF Moves
    <3>. QED BY <3>1, <3>2
  <2>3. 0..Len(p) \subseteq S
    <3>. HIDE DEF S
    <3>. QED BY <1>1, <2>1, <2>2, UpTo
  <2>4. ASSUME NEW i \in 1..Len(p) + 1 PROVE Start(p, ends, i) = s[i]
    <3>1. i - 1 \in 0..Len(p) /\ i - 1 + 1 = i
      BY <1>1
    <3>. QED BY <2>3, <3>1
  <2>. QED BY <2>4
<1>8. ASSUME NEW i \in Atoms(p) PROVE Takes(p, t, i, Start(p, ends, i), ends[i])
  BY <1>1, <1>2, <1>3, <1>4, <1>5, <1>7 DEF Moves
<1>9. Start(p, ends, Len(p) + 1) = Len(t) + 1
  BY <1>1, <1>4, <1>7
<1>10. ends \in Splits(p, t)
  BY <1>5, <1>8, <1>9, TakesIs DEF Splits
<1>. QED BY <1>7, <1>10 DEF ends

(* The matcher decides whether a text is in the language of the pattern. *)
LEMMA LanguageIs ==
  ASSUME NEW p, Regular(p), NEW t \in Seq(Char)
  PROVE  InLanguage(p, t) <=> HasWalk(p, t, 1, 1)
BY SplitIsWalk, WalkIsSplit DEF InLanguage, HasWalk

-----------------------------------------------------------------------------
(* The groups of the preferred split *)

LEMMA BetterAsymmetric ==
  ASSUME NEW p, Regular(p), NEW n, NEW m, n \in [Atoms(p) -> Nat], m \in [Atoms(p) -> Nat],
         Better(p, n, m)
  PROVE  ~Better(p, m, n)
<1>1. Atoms(p) \subseteq Nat
  BY TokensAre
<1>2. PICK i \in Atoms(p) : /\ \A j \in Atoms(p) : j < i => n[j] = m[j]
                            /\ IF Type(p, i + 1) = "?" THEN n[i] < m[i] ELSE n[i] > m[i]
  BY DEF Better
<1>3. ASSUME NEW x \in Atoms(p), \A j \in Atoms(p) : j < x => m[j] = n[j],
             IF Type(p, x + 1) = "?" THEN m[x] < n[x] ELSE m[x] > n[x]
      PROVE  FALSE
  <2>1. /\ i \in Nat /\ x \in Nat /\ n[i] \in Nat /\ m[i] \in Nat /\ n[x] \in Nat /\ m[x] \in Nat
    BY <1>1
  <2>2. n[i] # m[i] /\ n[x] # m[x]
    BY <1>2, <1>3, <2>1
  <2>3. ~(i < x) /\ ~(x < i)
    BY <1>2, <1>3, <2>2
  <2>4. i = x
    BY <2>1, <2>3
  <2>. QED BY <1>2, <1>3, <2>1, <2>4
<1>. QED BY <1>3 DEF Better

LEMMA PrefersBetter ==
  ASSUME NEW p, Regular(p), NEW s, NEW r, Prefers(p, s, r, 1)
  PROVE  Better(p, SplitOf(p, s), SplitOf(p, r))
<1>1. PICK q \in 1..Len(p) : /\ Type(p, q) = "one" /\ \A j \in 1..q : s[j] = r[j]
                             /\ Preferable(p, q, s[q + 1], r[q + 1])
  BY DEF Prefers
<1>2. q \in Atoms(p) /\ Atoms(p) \subseteq 1..Len(p) /\ Len(p) \in Nat
  BY <1>1, TokensAre, RegularIs
<1>3. \A j \in Atoms(p) : SplitOf(p, s)[j] = s[j + 1] /\ SplitOf(p, r)[j] = r[j + 1]
  BY DEF SplitOf
<1>4. ASSUME NEW j \in Atoms(p), j < q PROVE SplitOf(p, s)[j] = SplitOf(p, r)[j]
  <2>1. j + 1 \in 1..q
    BY <1>2, <1>4
  <2>. QED BY <1>1, <1>3, <2>1
<1>5. IF Type(p, q + 1) = "?" THEN SplitOf(p, s)[q] < SplitOf(p, r)[q] ELSE SplitOf(p, s)[q] > SplitOf(p, r)[q]
  BY <1>1, <1>2, <1>3 DEF Preferable
<1>. QED BY <1>2, <1>4, <1>5 DEF Better

(* The best walk, read as a split, is the preferred one. *)
LEMMA PreferredIs ==
  ASSUME NEW p, Regular(p), NEW t \in Seq(Char), NEW s, Best(p, t, s, 1), s[1] = 1
  PROVE  Preferred(p, t) = SplitOf(p, s)
<1>. DEFINE n == SplitOf(p, s)
<1>1. Walk(p, t, s, 1) /\ n \in Splits(p, t)
  BY WalkIsSplit DEF Best
<1>2. Splits(p, t) \subseteq [Atoms(p) -> Nat]
  BY DEF Splits
<1>3. ASSUME NEW m \in Splits(p, t) \ {n} PROVE Better(p, n, m)
  <2>. DEFINE r == WalkOf(p, m)
  <2>1. Walk(p, t, r, 1) /\ r[1] = 1 /\ SplitOf(p, r) = m
    BY SplitIsWalk
  <2>. HIDE DEF r
  <2>2. (\A q \in 1..Len(p) + 1 : r[q] = s[q]) \/ Prefers(p, s, r, 1)
    BY <2>1 DEF Best
  <2>3. CASE \A q \in 1..Len(p) + 1 : r[q] = s[q]
    <3>1. \A i \in Atoms(p) : i + 1 \in 1..Len(p) + 1
      BY TokensAre, RegularIs
    <3>2. SplitOf(p, r) = n
      BY <2>3, <3>1 DEF SplitOf
    <3>. QED BY <1>3, <2>1, <3>2
  <2>4. CASE Prefers(p, s, r, 1)
    BY <2>1, <2>4, PrefersBetter
  <2>. QED BY <2>2, <2>3, <2>4
<1>. HIDE DEF n
<1>4. ASSUME NEW m \in Splits(p, t), \A o \in Splits(p, t) \ {m} : Better(p, m, o) PROVE m = n
  <2>1. SUFFICES ASSUME m # n PROVE FALSE
    OBVIOUS
  <2>2. Better(p, m, n) /\ Better(p, n, m)
    BY <1>1, <1>3, <1>4, <2>1
  <2>3. m \in [Atoms(p) -> Nat] /\ n \in [Atoms(p) -> Nat]
    BY <1>1, <1>2
  <2>. QED BY <2>2, <2>3, BetterAsymmetric
<1>5. Preferred(p, t) = n
  BY <1>1, <1>3, <1>4 DEF Preferred
<1>. QED BY <1>5 DEF n

(* Every number below the count of groups is that of a group. *)
Numbered(p, n, i) == \E o \in Opening(p) : o < i /\ Num(p, o) = n

LEMMA GroupExists ==
  ASSUME NEW p, Regular(p), NEW n \in Nat, n < Cardinality(Opening(p))
  PROVE  \E o \in Opening(p) : Num(p, o) = n
<1>. DEFINE S == {x \in 0..Len(p) : n < Num(p, x + 1) => Numbered(p, n, x + 1)}
<1>1. Len(p) \in Nat
  BY RegularIs
<1>2. 0 \in S
  BY <1>1, NumIs
<1>3. ASSUME NEW x \in 0..Len(p) - 1, x \in S PROVE x + 1 \in S
  <2>1. x + 1 \in Nat \ {0} /\ x + 1 \in 0..Len(p) /\ x + 1 \in Int /\ x + 1 + 1 \in Int
    BY <1>1
  <2>2. Num(p, x + 1 + 1) = (IF Type(p, x + 1) = "(" THEN Num(p, x + 1) + 1 ELSE Num(p, x + 1)) /\ Num(p, x + 1) \in Nat
    BY <2>1, NumIs
  <2>3. SUFFICES ASSUME n < Num(p, x + 1 + 1) PROVE Numbered(p, n, x + 1 + 1)
    BY <2>1
  <2>4. CASE n < Num(p, x + 1)
    <3>1. PICK o \in Opening(p) : o < x + 1 /\ Num(p, o) = n
      BY <1>3, <2>4 DEF Numbered
    <3>2. o \in Int
      BY TokensAre
    <3>. QED BY <2>1, <3>1, <3>2 DEF Numbered
  <2>5. CASE ~(n < Num(p, x + 1))
    <3>1. Type(p, x + 1) = "(" /\ Num(p, x + 1) = n
      BY <2>2, <2>3, <2>5
    <3>2. x + 1 \in Opening(p) /\ x + 1 < x + 1 + 1
      BY <2>1, <3>1, TokensAre
    <3>. QED BY <3>1, <3>2 DEF Numbered
  <2>. QED BY <2>4, <2>5
<1>4. 0..Len(p) \subseteq S
  <2>. HIDE DEF S
  <2>. QED BY <1>1, <1>2, <1>3, UpTo
<1>5. Len(p) \in 0..Len(p) /\ n < Num(p, Len(p) + 1)
  BY <1>1, NumIs
<1>6. Numbered(p, n, Len(p) + 1)
  BY <1>4, <1>5
<1>. QED BY <1>6 DEF Numbered

LEMMA WalkForward ==
  ASSUME NEW p, Regular(p), NEW t \in Seq(Char), NEW s, Walk(p, t, s, 1), NEW i \in 1..Len(p) + 1
  PROVE  \A j \in i..Len(p) + 1 : s[i] <= s[j]
<1>. DEFINE N == Len(p) + 1 - i
            S == {n \in 0..N : s[i] <= s[i + n]}
<1>1. Len(p) \in Nat /\ N \in Nat /\ Len(t) \in Nat
  BY RegularIs
<1>2. s \in [1..Len(p) + 1 -> 1..Len(t) + 1] /\ \A j \in 1..Len(p) : Moves(p, t, s, j)
  BY DEF Walk, Positions
<1>3. ASSUME NEW j \in 1..Len(p) PROVE s[j] <= s[j + 1]
  <2>1. s[j] \in Int /\ s[j + 1] \in Int
    BY <1>1, <1>2
  <2>2. Counts(p, j, Len(t)) \subseteq Nat
    BY <1>1 DEF Counts
  <2>3. CASE Type(p, j) = "one"
    <3>1. s[j + 1] - s[j] \in Nat
      BY <1>2, <2>2, <2>3 DEF Moves, Takes
    <3>. QED BY <2>1, <3>1
  <2>4. CASE Type(p, j) # "one"
    BY <1>2, <2>1, <2>4 DEF Moves
  <2>. QED BY <2>3, <2>4
<1>4. 0 \in S
  BY <1>1, <1>2
<1>5. ASSUME NEW n \in 0..N - 1, n \in S PROVE n + 1 \in S
  <2>1. i + n \in 1..Len(p) /\ n + 1 \in 0..N /\ i + n + 1 = i + (n + 1) /\ s[i] <= s[i + n]
    BY <1>1, <1>5
  <2>2. i + n \in 1..Len(p) + 1 /\ i + n + 1 \in 1..Len(p) + 1 /\ i \in 1..Len(p) + 1
    BY <1>1, <2>1
  <2>3. s[i] \in Int /\ s[i + n] \in Int /\ s[i + n + 1] \in Int
    BY <1>1, <1>2, <2>2
  <2>4. s[i + n] <= s[i + n + 1]
    BY <1>3, <2>1
  <2>. QED BY <2>1, <2>3, <2>4
<1>6. 0..N \subseteq S
  <2>. HIDE DEF S, N
  <2>. QED BY <1>1, <1>4, <1>5, UpTo
<1>7. ASSUME NEW j \in i..Len(p) + 1 PROVE s[i] <= s[j]
  <2>1. j - i \in 0..N /\ i + (j - i) = j
    BY <1>1
  <2>. QED BY <1>6, <2>1
<1>. QED BY <1>7

(* What the captures of the best walk hold is the text of the group. *)
LEMMA GroupTextIs ==
  ASSUME NEW p, Regular(p), NEW t \in Seq(Char), NEW s, Best(p, t, s, 1), s[1] = 1,
         NEW o \in Opening(p), NEW e, Pair(p, o, e)
  PROVE  GroupText(p, t, Num(p, o)) = SubSeq(t, s[o], s[e] - 1)
<1>. DEFINE n == SplitOf(p, s)
            g == Num(p, o)
            open == CHOOSE i \in Tokens(p, "(") : Cardinality({j \in Tokens(p, "(") : j < i}) = g
            close == Min({i \in Tokens(p, ")") : i > open})
<1>1. /\ Opening(p) \subseteq 1..Len(p) /\ Closing(p) \subseteq 1..Len(p) /\ Len(p) \in Nat
      /\ e \in Closing(p) /\ o < e /\ (o + 1..e - 1) \cap Parens(p) = {}
  <2>1. Opening(p) \subseteq 1..Len(p) /\ Closing(p) \subseteq 1..Len(p)
    BY TokensAre
  <2>. QED BY <2>1, RegularIs DEF Pair
<1>2. g \in Nat /\ g < Cardinality(Opening(p))
  <2>1. Len(p) + 1 \in Int /\ o < Len(p) + 1 /\ o \in Int
    BY <1>1
  <2>2. Num(p, Len(p) + 1) >= g + 1 /\ g \in Nat /\ Num(p, Len(p) + 1) = Cardinality(Opening(p))
    BY <2>1, NumOrders, NumIs
  <2>3. Cardinality(Opening(p)) \in Nat
    BY NumIs, FS_CardinalityType
  <2>. QED BY <2>2, <2>3
<1>3. open = CHOOSE i \in Opening(p) : Num(p, i) = g
  BY DEF Opening, Num
<1>4. open = o
  <2>1. \A u \in Opening(p) : Num(p, u) = g => u = o
    BY NumOrders
  <2>. HIDE DEF open
  <2>. QED BY <1>3, <2>1
<1>5. close = e
  <2>. DEFINE C == {i \in Closing(p) : i > o}
  <2>1. close = Min(C)
    BY <1>4 DEF Closing
  <2>2. C \subseteq Nat /\ e \in C
    BY <1>1
  <2>3. ASSUME NEW x \in C PROVE e <= x
    <3>1. x \in Parens(p) /\ x \in Int /\ x > o /\ e \in Int /\ o \in Int
      BY <1>1 DEF Parens, Closing
    <3>2. x \notin o + 1..e - 1
      BY <1>1, <3>1
    <3>. QED BY <3>1, <3>2
  <2>4. Min(C) = e
    <3>. HIDE DEF C
    <3>. QED BY <2>2, <2>3, MinIs
  <2>. QED BY <2>1, <2>4
<1>6. Start(p, n, o) = s[o] /\ Start(p, n, e) = s[e]
  BY <1>1, WalkIsSplit DEF Best
<1>7. Preferred(p, t) = n
  BY PreferredIs
<1>8. GroupText(p, t, g) = IF g < Cardinality(Tokens(p, "("))
                           THEN SubSeq(t, Start(p, Preferred(p, t), open), Start(p, Preferred(p, t), close) - 1)
                           ELSE <<>>
  BY DEF GroupText
<1>. HIDE DEF g, open, close, n
<1>9. GroupText(p, t, g) = SubSeq(t, s[o], s[e] - 1)
  BY <1>2, <1>4, <1>5, <1>6, <1>7, <1>8 DEF Opening
<1>. QED BY <1>9 DEF g

-----------------------------------------------------------------------------
(* What the replacement copies *)

Entries(c) == \A g \in 1..MAXRECAPTURE : c.cap[g] \in Capture

LEMMA EntriesTyped == ASSUME NEW c \in Captures PROVE Entries(c)
BY DEF Entries, Captures, Capture

(* The entry of every group behind the count, and of every group. *)
LEMMA CapturedIs ==
  ASSUME NEW p, Regular(p), NEW t \in Seq(Char), NEW s, Best(p, t, s, 1), s[1] = 1,
         NEW c, Recorded(p, t, s, Len(p) + 1, c), NEW g \in Nat
  PROVE  /\ Captured(c, g).len >= 0
         /\ Bytes(Captured(c, g)) = GroupText(p, t, g)
<1>. DEFINE e == Captured(c, g)
<1>1. /\ c \in Captures /\ c.num = Cardinality(Opening(p)) /\ c.num \in Nat /\ c.num <= MAXRECAPTURE
      /\ MAXRECAPTURE \in Nat /\ Len(p) \in Nat
  <2>1. c \in Captures /\ c.num = Num(p, Len(p) + 1)
    BY DEF Recorded
  <2>2. Num(p, Len(p) + 1) = Cardinality(Opening(p)) /\ Len(p) \in Nat
    BY NumIs, RegularIs
  <2>3. MAXRECAPTURE \in Nat /\ c.num \in 0..MAXRECAPTURE
    BY <2>1, CaptureAssumption DEF Captures
  <2>. QED BY <2>1, <2>2, <2>3
<1>2. e \in Capture
  <2>1. CASE g < MAXRECAPTURE
    <3>1. g + 1 \in 1..MAXRECAPTURE
      BY <1>1, <2>1
    <3>. QED BY <1>1, <2>1, <3>1, EntriesTyped DEF Captured, Entries
  <2>2. CASE ~(g < MAXRECAPTURE)
    BY <2>2 DEF Captured, NoCapture, Capture
  <2>. QED BY <2>1, <2>2
<1>3. Bytes(e) = [j \in 1..e.len |-> IF e.at + j - 1 <= Len(e.text) THEN e.text[e.at + j - 1] ELSE Beyond]
  BY DEF Bytes
<1>4. CASE g >= c.num
  <2>1. e.len = 0
    <3>1. CASE g < MAXRECAPTURE
      <4>1. g + 1 \in 1..MAXRECAPTURE /\ g + 1 > c.num
        BY <1>1, <1>4, <3>1
      <4>. QED BY <3>1, <4>1 DEF Captured, Recorded
    <3>2. CASE ~(g < MAXRECAPTURE)
      BY <3>2 DEF Captured, NoCapture
    <3>. QED BY <3>1, <3>2
  <2>2. Bytes(e) = <<>>
    <3>. HIDE DEF e
    <3>. QED BY <1>3, <2>1
  <2>3. GroupText(p, t, g) = <<>>
    BY <1>1, <1>4 DEF GroupText, Opening
  <2>. QED BY <2>1, <2>2, <2>3
<1>5. CASE g < c.num
  <2>1. PICK o \in Opening(p) : Num(p, o) = g
    BY <1>1, <1>5, GroupExists
  <2>2. PICK q \in Closing(p) : Pair(p, o, q)
    BY RegularIs
  <2>3. /\ o \in 1..Len(p) /\ q \in 1..Len(p) /\ o < q
    <3>1. Opening(p) \subseteq 1..Len(p) /\ Closing(p) \subseteq 1..Len(p)
      BY TokensAre
    <3>. QED BY <2>2, <3>1 DEF Pair
  <2>4. e.text = t /\ e.at = s[o] /\ e.len = s[q] - s[o]
    <3>1. g < MAXRECAPTURE /\ o < Len(p) + 1 /\ q < Len(p) + 1
      BY <1>1, <1>5, <2>3
    <3>2. Records(p, t, s, Len(p) + 1, o, c.cap[g + 1])
      BY <2>1, <3>1 DEF Recorded
    <3>. QED BY <2>2, <3>1, <3>2 DEF Captured, Records
  <2>5. GroupText(p, t, g) = SubSeq(t, s[o], s[q] - 1)
    BY <2>1, <2>2, GroupTextIs
  <2>6. /\ s[o] \in 1..Len(t) + 1 /\ s[q] \in 1..Len(t) + 1 /\ s[o] <= s[q]
    <3>1. Walk(p, t, s, 1) /\ o \in 1..Len(p) + 1 /\ q \in 1..Len(p) + 1 /\ q \in o..Len(p) + 1
      BY <1>1, <2>3 DEF Best
    <3>2. p \in Seq(Token)
      BY RegularIs
    <3>3. s[o] \in 1..Len(t) + 1 /\ s[q] \in 1..Len(t) + 1
      BY <3>1, <3>2, WalkTyped
    <3>. QED BY <3>1, <3>3, WalkForward
  <2>. HIDE DEF e
  <2>7. SubSeq(t, s[o], s[q] - 1) = [j \in 1..s[q] - s[o] |-> t[s[o] + j - 1]]
    <3>. DEFINE u == SubSeq(t, s[o], s[q] - 1)
                w == [j \in 1..s[q] - s[o] |-> t[s[o] + j - 1]]
    <3>1. Len(t) \in Nat
      OBVIOUS
    <3>2. \A j \in s[o]..s[q] - 1 : t[j] \in Char
      BY <3>1, <2>6
    <3>3. u \in Seq(Char) /\ Len(u) = s[q] - s[o] /\ \A j \in 1..s[q] - s[o] : u[j] = t[s[o] + j - 1]
      <4>1. PICK a : a = s[o]
        OBVIOUS
      <4>2. PICK b : b = s[q] - 1
        OBVIOUS
      <4>3. a \in 1..Len(t) + 1 /\ b \in a - 1..Len(t) /\ b - a + 1 = s[q] - s[o]
        BY <2>6, <3>1, <4>1, <4>2
      <4>4. /\ SubSeq(t, a, b) \in Seq(Char) /\ Len(SubSeq(t, a, b)) = b - a + 1
            /\ \A j \in 1..b - a + 1 : SubSeq(t, a, b)[j] = t[a + j - 1]
        BY <4>3, SubSeqProperties
      <4>. QED BY <4>1, <4>2, <4>3, <4>4
    <3>. HIDE DEF u
    <3>4. Len(u) \in Nat /\ u \in [1..Len(u) -> Char]
      BY <3>3
    <3>5. u = w
      BY <3>3, <3>4
    <3>. QED BY <3>5 DEF u
  <2>8. \A j \in 1..s[q] - s[o] : s[o] + j - 1 <= Len(t)
    BY <2>6
  <2>9. Bytes(e) = [j \in 1..s[q] - s[o] |-> t[s[o] + j - 1]]
    BY <1>3, <2>4, <2>8
  <2>10. e.len >= 0 /\ Bytes(e) = GroupText(p, t, g)
    <3>1. e.len >= 0
      BY <2>4, <2>6
    <3>. QED BY <2>5, <2>7, <2>9, <3>1
  <2>. QED BY <2>10 DEF e
<1>. QED BY <1>1, <1>4, <1>5

-----------------------------------------------------------------------------
(* The second pass of a replacement writes what the first one measured *)

Byte == Char \cup {Beyond}

Piece(e, group) ==
  CASE e.type = "ref" -> group[e.group]
    [] e.type = "lit" -> <<e.ch>>
    [] OTHER -> <<>>

Filled(replace, group) ==
  CHOOSE out : out = [n \in 0..Len(replace) |->
                        IF n = 0 THEN <<>>
                        ELSE out[n - 1] \o CASE replace[n].type = "ref" -> group[replace[n].group]
                                             [] replace[n].type = "lit" -> <<replace[n].ch>>
                                             [] OTHER -> <<>>]

LEMMA FillFills == \A replace, group : Fill(replace, group) = Filled(replace, group)[Len(replace)]
BY DEF Fill, Filled

Measured(replace, c) ==
  CHOOSE room : room = [n \in 0..Len(replace) |->
                          IF n = 0 THEN 1 ELSE room[n - 1] + Width(replace[n], c)]

LEMMA MeasureMeasures == \A replace, c : MeasureReplacement(replace, c) = Measured(replace, c)[Len(replace)]
BY DEF MeasureReplacement, Measured

LEMMA ItemIs ==
  ASSUME NEW e \in Item
  PROVE  /\ e.type \in {"lit", "ref", "dropped"}
         /\ e.type = "lit" => e.ch \in Char
         /\ e.type = "ref" => e.group \in Digit
<1>1. CASE e \in {Lit(ch) : ch \in Char}
  <2>1. PICK ch \in Char : e = Lit(ch)
    BY <1>1
  <2>. QED BY <2>1 DEF Lit
<1>2. CASE e \in {Ref(n) : n \in Digit}
  <2>1. PICK n \in Digit : e = Ref(n)
    BY <1>2
  <2>. QED BY <2>1 DEF Ref
<1>3. CASE e = Dropped
  BY <1>3 DEF Dropped
<1>. QED BY <1>1, <1>2, <1>3 DEF Item

Groups(group) == \A g \in Digit : group[g] \in Seq(Byte)

LEMMA PieceTyped ==
  ASSUME NEW e \in Item, NEW group, Groups(group)
  PROVE  Piece(e, group) \in Seq(Byte)
<1>1. /\ e.type \in {"lit", "ref", "dropped"}
      /\ e.type = "lit" => e.ch \in Byte
      /\ e.type = "ref" => group[e.group] \in Seq(Byte)
  BY ItemIs DEF Groups, Byte
<1>2. <<>> \in Seq(Byte)
  OBVIOUS
<1>3. e.type = "lit" => <<e.ch>> \in Seq(Byte)
  BY <1>1
<1>. QED BY <1>1, <1>2, <1>3 DEF Piece

Joined(a, b, e, group) == b = a \o Piece(e, group)

LEMMA JoinedIs ==
  ASSUME NEW a \in Seq(Byte), NEW b, NEW e, NEW group, Piece(e, group) \in Seq(Byte), Joined(a, b, e, group)
  PROVE  b \in Seq(Byte) /\ Len(b) = Len(a) + Len(Piece(e, group))
<1>. DEFINE c == Piece(e, group)
<1>. HIDE DEF c
<1>1. c \in Seq(Byte) /\ b = a \o c
  BY DEF c, Joined
<1>2. a \o c \in Seq(Byte) /\ Len(a \o c) = Len(a) + Len(c)
  BY <1>1, ConcatProperties
<1>. QED BY <1>1, <1>2 DEF c

LEMMA FilledIs ==
  ASSUME NEW replace \in Seq(Item), NEW group, Groups(group)
  PROVE  LET out == Filled(replace, group)
         IN /\ out[0] = <<>>
            /\ \A n \in 0..Len(replace) : out[n] \in Seq(Byte)
            /\ \A n \in 1..Len(replace) : Joined(out[n - 1], out[n], replace[n], group)
<1>. DEFINE N == Len(replace)
            step == [n \in 1..N |-> [v \in Seq(Byte) |-> v \o Piece(replace[n], group)]]
            Is(f) == f = [n \in 0..N |-> IF n = 0 THEN <<>> ELSE f[n - 1] \o Piece(replace[n], group)]
<1>1. N \in Nat
  OBVIOUS
<1>2. ASSUME NEW n \in 1..N PROVE Piece(replace[n], group) \in Seq(Byte)
  <2>1. replace[n] \in Item
    OBVIOUS
  <2>. QED BY <2>1, PieceTyped
<1>3. \A n \in 1..N, v \in Seq(Byte) : step[n][v] = v \o Piece(replace[n], group) /\ step[n][v] \in Seq(Byte)
  <2>. HIDE DEF N
  <2>. QED BY <1>2
<1>4. <<>> \in Seq(Byte)
  OBVIOUS
<1>5. PICK f : Chain(f, N, Seq(Byte), <<>>, step)
  <2>. HIDE DEF step, N, Is
  <2>. QED BY <1>1, <1>3, <1>4, Iterates
<1>. HIDE DEF N
<1>6. Is(f)
  <2>1. f \in [0..N -> Seq(Byte)] /\ f[0] = <<>>
    BY <1>5 DEF Chain
  <2>2. ASSUME NEW n \in 0..N, n # 0 PROVE f[n] = f[n - 1] \o Piece(replace[n], group)
    <3>1. n \in 1..N /\ n - 1 \in 0..N
      BY <1>1, <2>2
    <3>2. f[n] = step[n][f[n - 1]] /\ f[n - 1] \in Seq(Byte)
      BY <1>5, <2>1, <3>1 DEF Chain
    <3>. HIDE DEF step
    <3>. QED BY <1>3, <3>1, <3>2
  <2>3. f = [n \in 0..N |-> f[n]]
    BY <2>1
  <2>. QED BY <2>1, <2>2, <2>3
<1>7. Filled(replace, group) = CHOOSE g : Is(g)
  BY DEF Filled, Is, Piece, N
<1>8. Is(Filled(replace, group))
  <2>. HIDE DEF Is
  <2>. QED BY <1>6, <1>7
<1>. DEFINE out == Filled(replace, group)
<1>. HIDE DEF out
<1>9. out[0] = <<>> /\ \A n \in 1..N : Joined(out[n - 1], out[n], replace[n], group)
  <2>1. 0 \in 0..N /\ \A n \in 1..N : n \in 0..N /\ n # 0
    BY <1>1
  <2>. QED BY <1>8, <2>1 DEF out, Joined
<1>. DEFINE S == {n \in 0..N : out[n] \in Seq(Byte)}
<1>10. 0..N \subseteq S
  <2>1. 0 \in S
    <3>1. 0 \in 0..N
      BY <1>1
    <3>2. out[0] \in Seq(Byte)
      BY <1>4, <1>9, Zenon
    <3>. QED BY <3>1, <3>2
  <2>2. ASSUME NEW n \in 0..N - 1, n \in S PROVE n + 1 \in S
    <3>1. n + 1 \in 1..N /\ n + 1 \in 0..N /\ n + 1 - 1 = n
      BY <1>1
    <3>2. Joined(out[n], out[n + 1], replace[n + 1], group)
      BY <1>9, <3>1
    <3>3. out[n] \in Seq(Byte) /\ Piece(replace[n + 1], group) \in Seq(Byte)
      BY <1>2, <2>2, <3>1
    <3>4. out[n + 1] \in Seq(Byte)
      BY <3>2, <3>3, JoinedIs
    <3>. QED BY <3>1, <3>4
  <2>. HIDE DEF S
  <2>. QED BY <1>1, <2>1, <2>2, UpTo
<1>. QED BY <1>9, <1>10 DEF N, out

LEMMA MeasuredIs ==
  ASSUME NEW replace \in Seq(Item), NEW c, \A n \in 1..Len(replace) : Width(replace[n], c) \in Int
  PROVE  LET room == Measured(replace, c)
         IN /\ room[0] = 1
            /\ \A n \in 1..Len(replace) : room[n] = room[n - 1] + Width(replace[n], c)
<1>. DEFINE N == Len(replace)
            step == [n \in 1..N |-> [v \in Int |-> v + Width(replace[n], c)]]
            Is(f) == f = [n \in 0..N |-> IF n = 0 THEN 1 ELSE f[n - 1] + Width(replace[n], c)]
<1>1. N \in Nat /\ 1 \in Int
  OBVIOUS
<1>2. \A n \in 1..N, v \in Int : step[n][v] = v + Width(replace[n], c) /\ step[n][v] \in Int
  OBVIOUS
<1>3. PICK f : Chain(f, N, Int, 1, step)
  <2>. HIDE DEF step, N, Is
  <2>. QED BY <1>1, <1>2, Iterates
<1>. HIDE DEF N
<1>4. Is(f)
  <2>1. f \in [0..N -> Int] /\ f[0] = 1
    BY <1>3 DEF Chain
  <2>2. ASSUME NEW n \in 0..N, n # 0 PROVE f[n] = f[n - 1] + Width(replace[n], c)
    <3>1. n \in 1..N /\ n - 1 \in 0..N
      BY <1>1, <2>2
    <3>2. f[n] = step[n][f[n - 1]] /\ f[n - 1] \in Int
      BY <1>3, <2>1, <3>1 DEF Chain
    <3>. HIDE DEF step
    <3>. QED BY <1>2, <3>1, <3>2
  <2>3. f = [n \in 0..N |-> f[n]]
    BY <2>1
  <2>. QED BY <2>1, <2>2, <2>3
<1>5. Measured(replace, c) = CHOOSE g : Is(g)
  BY DEF Measured, Is, N
<1>6. Is(Measured(replace, c))
  <2>. HIDE DEF Is
  <2>. QED BY <1>4, <1>5
<1>7. 0 \in 0..N /\ \A n \in 1..N : n \in 0..N /\ n # 0
  BY <1>1
<1>. QED BY <1>6, <1>7 DEF N

LEMMA EntryTyped ==
  ASSUME NEW c \in Captures, NEW g \in Digit
  PROVE  Captured(c, g) \in Capture
<1>1. MAXRECAPTURE \in Nat /\ g \in Nat
  BY CaptureAssumption DEF Digit
<1>2. CASE g < MAXRECAPTURE
  <2>1. g + 1 \in 1..MAXRECAPTURE
    BY <1>1, <1>2
  <2>. QED BY <1>2, <2>1, EntriesTyped DEF Captured, Entries
<1>3. CASE ~(g < MAXRECAPTURE)
  BY <1>3 DEF Captured, NoCapture, Capture
<1>. QED BY <1>2, <1>3

LEMMA BytesTyped ==
  ASSUME NEW e \in Capture
  PROVE  Bytes(e) \in Seq(Byte) /\ (e.len >= 0 => Len(Bytes(e)) = e.len)
<1>1. e.text \in Seq(Char) /\ e.at \in Nat \ {0} /\ e.len \in Int
  BY DEF Capture
<1>2. ASSUME NEW j \in 1..e.len
      PROVE  (IF e.at + j - 1 <= Len(e.text) THEN e.text[e.at + j - 1] ELSE Beyond) \in Byte
  <2>1. CASE e.at + j - 1 <= Len(e.text)
    <3>1. e.at + j - 1 \in 1..Len(e.text)
      BY <1>1, <2>1
    <3>. QED BY <1>1, <2>1, <3>1 DEF Byte
  <2>2. CASE ~(e.at + j - 1 <= Len(e.text))
    BY <2>2 DEF Byte
  <2>. QED BY <2>1, <2>2
<1>3. Bytes(e) \in [1..e.len -> Byte]
  BY <1>2 DEF Bytes
<1>4. CASE e.len >= 0
  BY <1>1, <1>3, <1>4
<1>5. CASE ~(e.len >= 0)
  <2>1. 1..e.len = {} /\ 1..0 = {}
    BY <1>1, <1>5
  <2>2. Bytes(e) \in [1..0 -> Byte]
    BY <1>3, <2>1
  <2>. QED BY <1>5, <2>2
<1>. QED BY <1>4, <1>5

(* The copy writes what was measured, short of the terminator. *)
LEMMA CopyIs ==
  ASSUME NEW replace \in Seq(Item), NEW c \in Captures
  PROVE  /\ CopyReplacement(replace, c) \in Seq(Byte)
         /\ ~Overruns(replace, c) => Len(CopyReplacement(replace, c)) + 1 = MeasureReplacement(replace, c)
<1>. DEFINE group == [n \in Digit |-> Bytes(Captured(c, n))]
            N == Len(replace)
            out == Filled(replace, group)
            room == Measured(replace, c)
<1>1. N \in Nat /\ \A n \in 1..N : replace[n] \in Item
  OBVIOUS
<1>2. \A g \in Digit : group[g] = Bytes(Captured(c, g)) /\ group[g] \in Seq(Byte)
  BY EntryTyped, BytesTyped
<1>3. Groups(group)
  BY <1>2 DEF Groups
<1>4. ASSUME NEW e \in Item PROVE Width(e, c) \in Int
  <2>1. e.type = "ref" => Captured(c, e.group).len \in Int
    BY ItemIs, EntryTyped DEF Capture
  <2>. QED BY <2>1, ItemIs DEF Width
<1>5. ASSUME NEW e \in Item, ~(e.type = "ref" /\ Captured(c, e.group).len < 0)
      PROVE  Len(Piece(e, group)) = Width(e, c) /\ Piece(e, group) \in Seq(Byte)
  <2>1. Piece(e, group) \in Seq(Byte)
    BY <1>3, PieceTyped
  <2>2. CASE e.type = "ref"
    <3>1. e.group \in Digit /\ Captured(c, e.group) \in Capture
      BY <2>2, ItemIs, EntryTyped
    <3>2. Captured(c, e.group).len >= 0
      BY <1>5, <2>2, <3>1 DEF Capture
    <3>3. Len(Bytes(Captured(c, e.group))) = Captured(c, e.group).len
      BY <3>1, <3>2, BytesTyped
    <3>. QED BY <1>2, <2>1, <2>2, <3>1, <3>3 DEF Piece, Width
  <2>3. CASE e.type = "lit"
    BY <2>1, <2>3 DEF Piece, Width
  <2>4. CASE e.type \notin {"ref", "lit"}
    BY <2>1, <2>4 DEF Piece, Width
  <2>. QED BY <2>2, <2>3, <2>4
<1>. HIDE DEF group
<1>6. /\ out[0] = <<>> /\ \A n \in 0..N : out[n] \in Seq(Byte)
      /\ \A n \in 1..N : Joined(out[n - 1], out[n], replace[n], group)
  BY <1>3, FilledIs
<1>7. room[0] = 1 /\ \A n \in 1..N : room[n] = room[n - 1] + Width(replace[n], c)
  BY <1>1, <1>4, MeasuredIs
<1>8. CopyReplacement(replace, c) = out[N] /\ MeasureReplacement(replace, c) = room[N]
  BY FillFills, MeasureMeasures DEF CopyReplacement, group
<1>. HIDE DEF out, room, N
<1>9. ASSUME ~Overruns(replace, c) PROVE Len(out[N]) + 1 = room[N]
  <2>. DEFINE S == {n \in 0..N : Len(out[n]) + 1 = room[n]}
  <2>1. 0 \in S
    BY <1>1, <1>6, <1>7
  <2>2. ASSUME NEW n \in 0..N - 1, n \in S PROVE n + 1 \in S
    <3>1. n + 1 \in 1..N /\ n + 1 \in 0..N /\ n + 1 - 1 = n /\ n \in 0..N
      BY <1>1
    <3>2. /\ Joined(out[n], out[n + 1], replace[n + 1], group) /\ out[n] \in Seq(Byte)
          /\ room[n + 1] = room[n] + Width(replace[n + 1], c)
      BY <1>6, <1>7, <3>1
    <3>3. Len(Piece(replace[n + 1], group)) = Width(replace[n + 1], c) /\ Piece(replace[n + 1], group) \in Seq(Byte)
      <4>1. ~(replace[n + 1].type = "ref" /\ Captured(c, replace[n + 1].group).len < 0)
        BY <1>9, <3>1 DEF Overruns, N
      <4>. QED BY <1>1, <1>5, <3>1, <4>1
    <3>4. Len(out[n + 1]) = Len(out[n]) + Width(replace[n + 1], c)
      BY <3>2, <3>3, JoinedIs
    <3>5. Len(out[n]) \in Nat /\ Len(out[n]) + 1 = room[n] /\ Width(replace[n + 1], c) \in Nat
      <4>1. Len(out[n]) \in Nat
        BY <3>2
      <4>2. Width(replace[n + 1], c) \in Nat
        BY <3>3
      <4>. QED BY <2>2, <4>1, <4>2
    <3>6. Len(out[n + 1]) + 1 = room[n + 1]
      BY <3>2, <3>4, <3>5
    <3>. QED BY <3>1, <3>6
  <2>3. 0..N \subseteq S
    <3>. HIDE DEF S
    <3>. QED BY <1>1, <2>1, <2>2, UpTo
  <2>. QED BY <1>1, <2>3
<1>10. out[N] \in Seq(Byte)
  BY <1>1, <1>6
<1>. QED BY <1>8, <1>9, <1>10 DEF Byte

-----------------------------------------------------------------------------
(* What the matcher finds, and what a replacement of it says *)

(* The matcher's answer, if it gives one, is whether the language has the    *)
(* text.                                                                     *)
LEMMA MatchDecides ==
  ASSUME NEW p, Regular(p), NEW t \in Seq(Char), NEW c \in Captures
  PROVE  LET r == ReMatchPattern(p, t, c)
         IN /\ r \in Results /\ r.caps \in Captures
            /\ r.ok => InLanguage(p, t)
            /\ ~r.ok /\ ~r.fatal => ~InLanguage(p, t)
<1>. DEFINE r == ReMatchPattern(p, t, c)
<1>1. r \in Results /\ (r.ok => HasBest(p, t, 1, 1)) /\ (~r.ok /\ ~r.fatal => ~HasWalk(p, t, 1, 1))
  BY MatcherDecides
<1>2. HasBest(p, t, 1, 1) => HasWalk(p, t, 1, 1)
  BY DEF HasBest, HasWalk, Best
<1>3. r.caps \in Captures
  <2>. HIDE DEF r
  <2>. QED BY <1>1 DEF Results
<1>. QED BY <1>1, <1>2, <1>3, LanguageIs

(* A match of a settled pattern is replaced as the reference says. *)
LEMMA MatchReplaces ==
  ASSUME NEW p, Regular(p), Settled(p), NEW t \in Seq(Char), ReMatchPattern(p, t, NoCaptures).ok,
         NEW replace \in Seq(Item)
  PROVE  LET c == ReMatchPattern(p, t, NoCaptures).caps
         IN ~Overruns(replace, c) /\ CopyReplacement(replace, c) = Replacement(p, replace, t)
<1>. DEFINE c == ReMatchPattern(p, t, NoCaptures).caps
<1>1. PICK s : Best(p, t, s, 1) /\ s[1] = 1
  <2>1. HasBest(p, t, 1, 1)
    BY NoCapturesTyped, MatcherDecides
  <2>. QED BY <2>1 DEF HasBest
<1>2. Recorded(p, t, s, Len(p) + 1, c)
  BY <1>1, MatcherFollows
<1>. HIDE DEF c
<1>3. \A g \in Nat : Captured(c, g).len >= 0 /\ Bytes(Captured(c, g)) = GroupText(p, t, g)
  BY <1>1, <1>2, CapturedIs
<1>4. c \in Captures
  BY <1>2 DEF Recorded
<1>5. Digit \subseteq Nat
  BY DEF Digit
<1>6. ~Overruns(replace, c)
  <2>1. SUFFICES ASSUME NEW n \in 1..Len(replace), replace[n].type = "ref", Captured(c, replace[n].group).len < 0
                 PROVE  FALSE
    BY DEF Overruns
  <2>2. PICK g \in Digit : g = replace[n].group
    BY <2>1, ItemIs
  <2>3. Captured(c, g).len \in Int
    BY <1>4, EntryTyped DEF Capture
  <2>4. Captured(c, g).len >= 0
    BY <1>3, <1>5
  <2>. QED BY <2>1, <2>2, <2>3, <2>4
<1>7. [n \in Digit |-> Bytes(Captured(c, n))] = [g \in Digit |-> GroupText(p, t, g)]
  BY <1>3, <1>5
<1>8. CopyReplacement(replace, c) = Replacement(p, replace, t)
  BY <1>7 DEF CopyReplacement, Replacement
<1>. QED BY <1>6, <1>8 DEF c

-----------------------------------------------------------------------------
(* The invariant *)

Looking == {"reset", "match", "measure", "copy"}
Holding == {"match", "measure", "copy"}

(* A call with the rules rs: the rules before its own do not have the text   *)
(* or were missed, its own has it once it is measured.                       *)
Proceeds(rs, c) ==
  /\ c = [pc |-> c.pc, text |-> c.text, rule |-> c.rule, room |-> c.room, out |-> c.out, missed |-> c.missed]
  /\ c.pc \in Looking \cup {"idle", "done"}
  /\ c.pc # "idle" => /\ c.text \in Seq(Char) /\ c.rule \in 1..Len(rs) + 1
                      /\ \A q \in 1..c.rule - 1 : InLanguage(rs[q].from, c.text) => q \in c.missed
                      /\ c.missed \subseteq 1..c.rule - 1
  /\ c.pc \in Looking => c.rule <= Len(rs) /\ c.out = NULL
  /\ c.pc \in {"measure", "copy"} => InLanguage(rs[c.rule].from, c.text)
  /\ c.pc = "done" => IF c.rule <= Len(rs) THEN InLanguage(rs[c.rule].from, c.text) /\ c.out # NULL
                                           ELSE c.out = NULL

Found(rs, c) == ReMatchPattern(rs[c.rule].from, c.text, NoCaptures)

(* A call that shares its rule with no other finds in the rule's captures k  *)
(* what its own match left there.                                            *)
Exclusive(rs, c, k) ==
  /\ c.pc = "match" => k = NoCaptures
  /\ c.pc \in {"measure", "copy"} => Found(rs, c).ok /\ k = Found(rs, c).caps
  /\ c.pc = "copy" => c.room = MeasureReplacement(rs[c.rule].to, k)

Answered(rs, c) ==
  c.pc = "done" /\ c.out # NULL =>
    /\ Len(c.out) + 1 = c.room
    /\ Settled(rs[c.rule].from) => c.out = Replacement(rs[c.rule].from, rs[c.rule].to, c.text)

(* Two calls at one rule, one of them in the matcher. *)
Contend(c, d) == c.pc = "match" /\ d.pc \in Holding /\ d.rule = c.rule

RewriteInv ==
  /\ setup \in Setups /\ dead \in BOOLEAN
  /\ caps \in [1..Len(Rules) -> Captures]
  /\ DOMAIN call = Thread /\ alone \in [Thread -> BOOLEAN]
  /\ \A t \in Thread : Proceeds(Rules, call[t])
  /\ \A t \in Thread : alone[t] /\ ~dead =>
       Exclusive(Rules, call[t], caps[call[t].rule]) /\ Answered(Rules, call[t])
  /\ \A t, o \in Thread : t # o /\ Contend(call[t], call[o]) => ~alone[o]
  /\ DiesOnlyOfBadRules

(* What the assumption on the configurations gives. *)
LEMMA SetupIs ==
  ASSUME NEW s \in Setups
  PROVE  /\ Len(s.urls) \in Nat /\ s.texts \subseteq Seq(Char) /\ s.callers \subseteq Thread
         /\ \A r \in 1..Len(s.urls) : Regular(s.urls[r].from) /\ s.urls[r].to \in Seq(Item)
         /\ s.ports \in Seq([from : Nat, to : Nat]) /\ NULL \notin Seq(Byte)
<1>. DEFINE U == [from : {p \in Seq(Token) : Regular(p)}, to : Seq(Item)]
<1>1. s.urls \in Seq(U) /\ s.ports \in Seq([from : Nat, to : Nat]) /\ s.texts \subseteq Seq(Char) /\ s.callers \subseteq Thread
  BY SetupAssumption
<1>2. \A u \in U : Regular(u.from) /\ u.to \in Seq(Item)
  OBVIOUS
<1>. HIDE DEF U
<1>3. Len(s.urls) \in Nat /\ \A r \in 1..Len(s.urls) : s.urls[r] \in U
  BY <1>1
<1>. QED BY <1>1, <1>2, <1>3, SetupAssumption DEF Byte

-----------------------------------------------------------------------------
(* A step of one call *)

(* Thread t's call becomes d; the others keep what they had, or are not      *)
(* alone any more.                                                          *)
OneCall(t, d) ==
  /\ call' = [call EXCEPT ![t] = d] /\ setup' = setup
  /\ caps' \in [1..Len(Rules) -> Captures] /\ dead' \in BOOLEAN /\ alone' \in [Thread -> BOOLEAN]
  /\ Proceeds(Rules, d)
  /\ alone'[t] /\ ~dead' => Exclusive(Rules, d, caps'[d.rule]) /\ Answered(Rules, d)
  /\ \A o \in Thread \ {t} :
       /\ alone'[o] => /\ alone[o]
                       /\ call[o].pc \in Holding => caps'[call[o].rule] = caps[call[o].rule]
       /\ Contend(d, call[o]) => ~alone'[o]
       /\ Contend(call[o], d) => ~alone'[t]
  /\ DiesOnlyOfBadRules'

(* Such a step keeps the invariant. *)
LEMMA OneCallKeeps ==
  ASSUME RewriteInv, ~dead, NEW t \in Thread, NEW d, OneCall(t, d)
  PROVE  RewriteInv'
<1>1. call'[t] = d /\ DOMAIN call' = Thread /\ \A o \in Thread \ {t} : call'[o] = call[o]
  BY DEF RewriteInv, OneCall
<1>2. Rules' = Rules /\ setup' = setup
  BY DEF OneCall, Rules
<1>3. setup' \in Setups /\ dead' \in BOOLEAN /\ caps' \in [1..Len(Rules') -> Captures] /\ alone' \in [Thread -> BOOLEAN]
  BY <1>2 DEF RewriteInv, OneCall
<1>4. ASSUME NEW o \in Thread PROVE Proceeds(Rules', call'[o])
  <2>1. CASE o = t
    BY <1>1, <1>2, <2>1 DEF OneCall
  <2>2. CASE o # t
    BY <1>1, <1>2, <2>2 DEF RewriteInv
  <2>. QED BY <2>1, <2>2
<1>5. ASSUME NEW o \in Thread, alone'[o], ~dead'
      PROVE  Exclusive(Rules', call'[o], caps'[call'[o].rule]) /\ Answered(Rules', call'[o])
  <2>1. CASE o = t
    BY <1>1, <1>2, <1>5, <2>1 DEF OneCall
  <2>2. CASE o # t
    <3>1. Exclusive(Rules, call[o], caps[call[o].rule]) /\ Answered(Rules, call[o])
      BY <1>5, <2>2 DEF OneCall, RewriteInv
    <3>2. call[o].pc \in Holding => caps'[call[o].rule] = caps[call[o].rule]
      BY <1>5, <2>2 DEF OneCall
    <3>3. Exclusive(Rules, call[o], caps'[call[o].rule])
      BY <3>1, <3>2 DEF Exclusive, Holding
    <3>. QED BY <1>1, <1>2, <2>2, <3>1, <3>3
  <2>. QED BY <2>1, <2>2
<1>6. ASSUME NEW a \in Thread, NEW o \in Thread, a # o, Contend(call'[a], call'[o]) PROVE ~alone'[o]
  <2>1. CASE a = t
    BY <1>1, <1>6, <2>1 DEF OneCall
  <2>2. CASE o = t
    BY <1>1, <1>6, <2>2 DEF OneCall
  <2>3. CASE a # t /\ o # t
    <3>1. ~alone[o]
      BY <1>1, <1>6, <2>3 DEF RewriteInv
    <3>. QED BY <2>3, <3>1 DEF OneCall
  <2>. QED BY <2>1, <2>2, <2>3
<1>7. DiesOnlyOfBadRules'
  BY DEF OneCall
<1>. QED BY <1>1, <1>3, <1>4, <1>5, <1>6, <1>7 DEF RewriteInv

(* What every step may use of the call it belongs to. *)
LEMMA CallIsAt ==
  ASSUME RewriteInv, NEW t \in Thread
  PROVE  LET c == call[t]
         IN /\ Proceeds(Rules, c) /\ Len(Rules) \in Nat
            /\ c.pc \in Looking => /\ c.rule \in 1..Len(Rules) /\ c.text \in Seq(Char) /\ caps[c.rule] \in Captures
                                   /\ Regular(Rules[c.rule].from) /\ Rules[c.rule].to \in Seq(Item)
<1>1. Proceeds(Rules, call[t]) /\ setup \in Setups /\ caps \in [1..Len(Rules) -> Captures]
  BY DEF RewriteInv
<1>2. Len(Rules) \in Nat /\ \A r \in 1..Len(Rules) : Regular(Rules[r].from) /\ Rules[r].to \in Seq(Item)
  BY <1>1, SetupIs DEF Rules
<1>3. call[t].pc \in Looking => call[t].rule \in 1..Len(Rules) /\ call[t].text \in Seq(Char)
  BY <1>1, <1>2 DEF Proceeds, Looking
<1>. QED BY <1>1, <1>2, <1>3

(* The call that takes up a rule, or ends without one. *)
LEMMA AtRuleIs ==
  ASSUME NEW rs, Len(rs) \in Nat, NEW c, NEW r \in 1..Len(rs) + 1, NEW d,
         c = [pc |-> c.pc, text |-> c.text, rule |-> c.rule, room |-> c.room, out |-> c.out, missed |-> c.missed],
         c.text \in Seq(Char), c.out = NULL,
         d = [c EXCEPT !.rule = r, !.pc = IF r <= Len(rs) THEN "reset" ELSE "done"],
         \A q \in 1..r - 1 : InLanguage(rs[q].from, c.text) => q \in c.missed,
         c.missed \subseteq 1..r - 1
  PROVE  /\ Proceeds(rs, d) /\ d.pc \notin Holding /\ Answered(rs, d)
         /\ \A k : Exclusive(rs, d, k)
<1>1. /\ d = [pc |-> d.pc, text |-> d.text, rule |-> d.rule, room |-> d.room, out |-> d.out, missed |-> d.missed]
      /\ d.text = c.text /\ d.rule = r /\ d.out = NULL /\ d.missed = c.missed
      /\ d.pc = (IF r <= Len(rs) THEN "reset" ELSE "done")
  <2>1. d = [pc |-> IF r <= Len(rs) THEN "reset" ELSE "done", text |-> c.text, rule |-> r,
             room |-> c.room, out |-> c.out, missed |-> c.missed]
    OBVIOUS
  <2>. QED BY <2>1
<1>2. Proceeds(rs, d)
  BY <1>1 DEF Proceeds, Looking
<1>3. d.pc \notin Holding /\ \A k : Exclusive(rs, d, k)
  BY <1>1 DEF Holding, Exclusive
<1>4. Answered(rs, d)
  BY <1>1 DEF Answered
<1>. QED BY <1>2, <1>3, <1>4

LEMMA RewriteURLKeeps ==
  ASSUME RewriteInv, ~dead, NEW t \in Thread, NEW text \in setup.texts, RewriteURL(t, text)
  PROVE  RewriteInv'
<1>1. /\ call[t].pc = "idle" /\ UNCHANGED <<setup, caps, sock, alone, dead>>
      /\ text \in Seq(Char) /\ Len(Rules) \in Nat
  BY SetupIs DEF RewriteInv, RewriteURL, Rules
<1>2. PICK c : c = [Quiet EXCEPT !.text = text]
  OBVIOUS
<1>3. /\ c = [pc |-> c.pc, text |-> c.text, rule |-> c.rule, room |-> c.room, out |-> c.out, missed |-> c.missed]
      /\ c.text = text /\ c.out = NULL /\ c.missed = {}
  BY <1>2 DEF Quiet
<1>4. PICK d : d = [c EXCEPT !.rule = 1, !.pc = IF 1 <= Len(Rules) THEN "reset" ELSE "done"]
  OBVIOUS
<1>5. Proceeds(Rules, d) /\ d.pc \notin Holding /\ Answered(Rules, d) /\ \A k : Exclusive(Rules, d, k)
  <2>1. 1 \in 1..Len(Rules) + 1 /\ \A q \in 1..1 - 1 : InLanguage(Rules[q].from, c.text) => q \in c.missed
    BY <1>1
  <2>2. c.missed \subseteq 1..1 - 1
    BY <1>3
  <2>. QED BY <1>1, <1>3, <1>4, <2>1, <2>2, AtRuleIs
<1>6. call' = [call EXCEPT ![t] = d]
  BY <1>2, <1>4 DEF RewriteURL, AtRule
<1>7. DiesOnlyOfBadRules'
  BY <1>1 DEF DiesOnlyOfBadRules
<1>8. OneCall(t, d)
  <2>1. caps' \in [1..Len(Rules) -> Captures] /\ dead' \in BOOLEAN /\ alone' \in [Thread -> BOOLEAN]
        /\ setup' = setup /\ alone' = alone /\ caps' = caps
    BY <1>1 DEF RewriteInv
  <2>2. d.pc # "match"
    BY <1>5 DEF Holding
  <2>. QED BY <1>5, <1>6, <1>7, <2>1, <2>2 DEF OneCall, Contend
<1>. QED BY <1>8, OneCallKeeps

(* A call with another pc and the same rule and text. *)
LEMMA NextPc ==
  ASSUME NEW c, c = [pc |-> c.pc, text |-> c.text, rule |-> c.rule, room |-> c.room, out |-> c.out, missed |-> c.missed],
         NEW pc, NEW d, d = [c EXCEPT !.pc = pc]
  PROVE  /\ d = [pc |-> d.pc, text |-> d.text, rule |-> d.rule, room |-> d.room, out |-> d.out, missed |-> d.missed]
         /\ d.pc = pc /\ d.text = c.text /\ d.rule = c.rule /\ d.room = c.room /\ d.out = c.out /\ d.missed = c.missed
<1>1. d = [pc |-> pc, text |-> c.text, rule |-> c.rule, room |-> c.room, out |-> c.out, missed |-> c.missed]
  OBVIOUS
<1>. QED BY <1>1

LEMMA ReMatchKeeps ==
  ASSUME RewriteInv, ~dead, NEW t \in Thread, ReMatch(t)
  PROVE  RewriteInv'
<1>1. PICK c : c = call[t]
  OBVIOUS
<1>2. /\ c.pc = "reset" /\ setup' = setup /\ dead' = dead
      /\ caps' = [caps EXCEPT ![c.rule] = NoCaptures]
      /\ alone' = [o \in Thread |-> IF o = t THEN \A u \in Sharing(t) : call[u].pc # "match"
                                    ELSE alone[o] /\ o \notin Sharing(t)]
      /\ call' = [call EXCEPT ![t].pc = "match"]
  BY <1>1 DEF ReMatch
<1>3. /\ Proceeds(Rules, c) /\ c.pc \in Looking /\ c.rule \in 1..Len(Rules)
  BY <1>1, <1>2, CallIsAt DEF Looking
<1>4. PICK d : d = [c EXCEPT !.pc = "match"]
  OBVIOUS
<1>5. /\ d = [pc |-> d.pc, text |-> d.text, rule |-> d.rule, room |-> d.room, out |-> d.out, missed |-> d.missed]
      /\ d.pc = "match" /\ d.text = c.text /\ d.rule = c.rule /\ d.out = c.out /\ d.missed = c.missed
  BY <1>3, <1>4, NextPc DEF Proceeds
<1>6. Proceeds(Rules, d)
  BY <1>2, <1>3, <1>5 DEF Proceeds, Looking
<1>7. \A o \in Thread \ {t} : o \in Sharing(t) <=> call[o].pc \in Holding /\ call[o].rule = c.rule
  BY <1>1 DEF Sharing, Holding
<1>8. \A u \in Sharing(t) : u \in Thread \ {t}
  BY DEF Sharing
<1>9. caps \in [1..Len(Rules) -> Captures] /\ alone \in [Thread -> BOOLEAN] /\ t \in DOMAIN call
  BY DEF RewriteInv
<1>10. caps' \in [1..Len(Rules) -> Captures] /\ caps'[d.rule] = NoCaptures
       /\ \A r \in 1..Len(Rules) : r # c.rule => caps'[r] = caps[r]
  BY <1>2, <1>3, <1>5, <1>9, NoCapturesTyped
<1>11. /\ alone'[t] <=> \A u \in Sharing(t) : call[u].pc # "match"
       /\ \A o \in Thread \ {t} : alone'[o] <=> alone[o] /\ o \notin Sharing(t)
       /\ alone' \in [Thread -> BOOLEAN]
  <2>1. \A o \in Thread : alone'[o] = IF o = t THEN \A u \in Sharing(t) : call[u].pc # "match"
                                      ELSE alone[o] /\ o \notin Sharing(t)
    BY <1>2
  <2>2. alone' \in [Thread -> BOOLEAN]
    BY <1>2
  <2>. QED BY <2>1, <2>2
<1>12. call' = [call EXCEPT ![t] = d]
  BY <1>1, <1>2, <1>4
<1>13. Exclusive(Rules, d, caps'[d.rule]) /\ Answered(Rules, d)
  BY <1>5, <1>10 DEF Exclusive, Answered
<1>14. ASSUME NEW o \in Thread \ {t}
       PROVE  /\ alone'[o] => /\ alone[o]
                              /\ call[o].pc \in Holding => caps'[call[o].rule] = caps[call[o].rule]
              /\ Contend(d, call[o]) => ~alone'[o]
              /\ Contend(call[o], d) => ~alone'[t]
  <2>1. ASSUME alone'[o], call[o].pc \in Holding PROVE caps'[call[o].rule] = caps[call[o].rule]
    <3>1. call[o].rule # c.rule
      BY <1>7, <1>11, <2>1
    <3>2. call[o].rule \in 1..Len(Rules)
      BY <2>1, CallIsAt DEF Looking, Holding
    <3>. QED BY <1>10, <3>1, <3>2
  <2>2. Contend(d, call[o]) => ~alone'[o]
    BY <1>5, <1>7, <1>11 DEF Contend
  <2>3. ASSUME Contend(call[o], d) PROVE ~alone'[t]
    <3>1. call[o].pc = "match" /\ call[o].rule = c.rule
      BY <1>5, <2>3 DEF Contend
    <3>2. o \in Sharing(t)
      BY <1>7, <3>1 DEF Holding
    <3>. QED BY <1>11, <3>1, <3>2
  <2>. QED BY <1>11, <2>1, <2>2, <2>3
<1>15. DiesOnlyOfBadRules'
  BY <1>2 DEF DiesOnlyOfBadRules
<1>16. OneCall(t, d)
  <2>1. dead' \in BOOLEAN
    BY <1>2 DEF RewriteInv
  <2>. QED BY <1>2, <1>6, <1>10, <1>11, <1>12, <1>13, <1>14, <1>15, <2>1 DEF OneCall
<1>. QED BY <1>16, OneCallKeeps

(* A step of a call that writes captures has the rule to itself, and one     *)
(* that reads them leaves them.                                             *)
LEMMA OthersKeep ==
  ASSUME RewriteInv, NEW t \in Thread, call[t].pc \in Holding, alone' = alone,
         NEW d, d.pc \in Holding => d.rule = call[t].rule, d.pc = "match" => call[t].pc = "match",
         \/ caps' = caps
         \/ call[t].pc = "match" /\ \A r \in 1..Len(Rules) : r # call[t].rule => caps'[r] = caps[r]
  PROVE  \A o \in Thread \ {t} :
           /\ alone'[o] => /\ alone[o]
                           /\ call[o].pc \in Holding => caps'[call[o].rule] = caps[call[o].rule]
           /\ Contend(d, call[o]) => ~alone'[o]
           /\ Contend(call[o], d) => ~alone'[t]
<1>1. SUFFICES ASSUME NEW o \in Thread \ {t}
               PROVE  /\ alone'[o] => /\ alone[o]
                                      /\ call[o].pc \in Holding => caps'[call[o].rule] = caps[call[o].rule]
                      /\ Contend(d, call[o]) => ~alone'[o]
                      /\ Contend(call[o], d) => ~alone'[t]
  OBVIOUS
<1>2. /\ Contend(call[t], call[o]) => ~alone[o]
      /\ Contend(call[o], call[t]) => ~alone[t]
  BY DEF RewriteInv
<1>3. Contend(d, call[o]) => Contend(call[t], call[o])
  BY DEF Contend, Holding
<1>4. Contend(call[o], d) => Contend(call[o], call[t])
  BY DEF Contend, Holding
<1>5. ASSUME alone[o], call[o].pc \in Holding PROVE caps'[call[o].rule] = caps[call[o].rule]
  <2>1. CASE caps' = caps
    BY <2>1
  <2>2. CASE call[t].pc = "match" /\ \A r \in 1..Len(Rules) : r # call[t].rule => caps'[r] = caps[r]
    <3>1. call[o].rule # call[t].rule
      BY <1>2, <1>5, <2>2 DEF Contend
    <3>2. call[o].rule \in 1..Len(Rules)
      BY <1>5, CallIsAt DEF Looking, Holding
    <3>. QED BY <2>2, <3>1, <3>2
  <2>. QED BY <2>1, <2>2
<1>. QED BY <1>2, <1>3, <1>4, <1>5

(* Captures another call reset and filled are captures. *)
LEMMA TornTyped == ASSUME NEW c \in Captures PROVE Torn(c) \subseteq Captures
<1>1. NoCaptures \in Captures
  BY NoCapturesTyped
<1>2. c.num \in 0..MAXRECAPTURE /\ c.cap \in [1..MAXRECAPTURE -> Capture]
  BY DEF Captures, Capture
<1>3. PICK f : f = [g \in 1..MAXRECAPTURE |-> [c.cap[g] EXCEPT !.len = -1]]
  OBVIOUS
<1>4. f \in [1..MAXRECAPTURE -> Capture]
  <2>1. SUFFICES ASSUME NEW g \in 1..MAXRECAPTURE PROVE [c.cap[g] EXCEPT !.len = -1] \in Capture
    BY <1>3
  <2>2. PICK h \in Capture : h = c.cap[g]
    BY <1>2
  <2>3. -1 \in Int
    OBVIOUS
  <2>4. [h EXCEPT !.len = -1] \in Capture
    BY <2>3 DEF Capture
  <2>. QED BY <2>2, <2>4
<1>5. [c EXCEPT !.cap = f] \in Captures
  BY <1>4 DEF Captures, Capture
<1>. QED BY <1>1, <1>3, <1>5 DEF Torn

(* An outcome of a match is typed, matches only a text of the language, and  *)
(* refuses one only if the rule has groups and another call used it; of a    *)
(* call that was alone it is the matcher's.                                  *)
LEMMA OutcomesAre ==
  ASSUME NEW p, Regular(p), NEW t \in Seq(Char), NEW c \in Captures, NEW u \in BOOLEAN,
         NEW m \in Outcomes(p, t, c, u)
  PROVE  /\ m \in Results /\ m.caps \in Captures
         /\ m.ok => InLanguage(p, t)
         /\ ~m.ok /\ ~m.fatal /\ InLanguage(p, t) => ~u /\ Tokens(p, "(") # {}
         /\ u => m = ReMatchPattern(p, t, c)
<1>1. PICK x : x = ReMatchPattern(p, t, c)
  OBVIOUS
<1>2. /\ x \in Results /\ x.caps \in Captures
      /\ x.ok => InLanguage(p, t)
      /\ ~x.ok /\ ~x.fatal => ~InLanguage(p, t)
  BY <1>1, MatchDecides
<1>3. CASE u \/ Tokens(p, "(") = {}
  <2>1. m = x
    BY <1>1, <1>3 DEF Outcomes
  <2>. QED BY <1>1, <1>2, <2>1
<1>4. CASE ~(u \/ Tokens(p, "(") = {})
  <2>1. PICK k \in Torn(x.caps) : m \in {Fails(k), RunsOut(k)} \cup {y \in {Matches(k)} : InLanguage(p, t)}
    BY <1>1, <1>4 DEF Outcomes
  <2>2. k \in Captures
    BY <1>2, <2>1, TornTyped
  <2>3. /\ Fails(k) \in Results /\ Fails(k).caps = k /\ ~Fails(k).ok
        /\ RunsOut(k) \in Results /\ RunsOut(k).caps = k /\ ~RunsOut(k).ok
        /\ Matches(k) \in Results /\ Matches(k).caps = k /\ Matches(k).ok
    BY <2>2 DEF Fails, RunsOut, Matches, Results
  <2>4. m = Fails(k) \/ m = RunsOut(k) \/ (m = Matches(k) /\ InLanguage(p, t))
    BY <2>1
  <2>5. m \in Results /\ m.caps \in Captures /\ (m.ok => InLanguage(p, t))
    BY <2>2, <2>3, <2>4
  <2>. QED BY <1>4, <2>5
<1>. QED BY <1>3, <1>4

LEMMA MatchKeeps ==
  ASSUME RewriteInv, ~dead, NEW t \in Thread, Match(t)
  PROVE  RewriteInv'
<1>1. PICK c : c = call[t]
  OBVIOUS
<1>2. PICK p : p = Rules[c.rule].from
  OBVIOUS
<1>0. PICK missed : missed = IF alone[t] \/ Tokens(p, "(") = {} THEN c.missed ELSE c.missed \cup {c.rule}
  OBVIOUS
<1>3. PICK m \in Outcomes(p, c.text, caps[c.rule], alone[t]) :
        /\ caps' = [caps EXCEPT ![c.rule] = m.caps]
        /\ dead' = m.fatal
        /\ call' = [call EXCEPT ![t] = IF m.fatal THEN c ELSE IF m.ok THEN [c EXCEPT !.pc = "measure"]
                                       ELSE AtRule([c EXCEPT !.missed = missed], c.rule + 1)]
  BY <1>0, <1>1, <1>2 DEF Match
<1>4. /\ c.pc = "match" /\ setup' = setup /\ alone' = alone
      /\ caps' = [caps EXCEPT ![c.rule] = m.caps]
      /\ dead' = m.fatal
      /\ call' = [call EXCEPT ![t] = IF m.fatal THEN c ELSE IF m.ok THEN [c EXCEPT !.pc = "measure"]
                                     ELSE AtRule([c EXCEPT !.missed = missed], c.rule + 1)]
  BY <1>1, <1>3 DEF Match
<1>5. /\ Proceeds(Rules, c) /\ Len(Rules) \in Nat /\ c.rule \in 1..Len(Rules) /\ c.text \in Seq(Char)
      /\ caps[c.rule] \in Captures /\ Regular(p)
  BY <1>1, <1>2, <1>4, CallIsAt DEF Looking
<1>6. /\ m \in Results /\ m.caps \in Captures
      /\ m.ok => InLanguage(p, c.text)
      /\ ~m.ok /\ ~m.fatal /\ InLanguage(p, c.text) => ~alone[t] /\ Tokens(p, "(") # {}
      /\ alone[t] => m = ReMatchPattern(p, c.text, caps[c.rule])
  <2>1. alone[t] \in BOOLEAN
    BY DEF RewriteInv
  <2>. QED BY <1>3, <1>5, <2>1, OutcomesAre
<1>7. PICK d : d = IF m.fatal THEN c ELSE IF m.ok THEN [c EXCEPT !.pc = "measure"] ELSE AtRule([c EXCEPT !.missed = missed], c.rule + 1)
  OBVIOUS
<1>8. call' = [call EXCEPT ![t] = d]
  BY <1>4, <1>7
<1>9. alone[t] => caps[c.rule] = NoCaptures /\ m = Found(Rules, c)
  <2>1. ASSUME alone[t] PROVE caps[c.rule] = NoCaptures
    <3>1. Exclusive(Rules, c, caps[c.rule])
      BY <1>1, <2>1 DEF RewriteInv
    <3>. QED BY <1>4, <3>1 DEF Exclusive
  <2>. QED BY <1>2, <1>6, <2>1 DEF Found
<1>10. caps \in [1..Len(Rules) -> Captures] /\ alone \in [Thread -> BOOLEAN]
  BY DEF RewriteInv
<1>11. /\ caps' \in [1..Len(Rules) -> Captures] /\ caps'[c.rule] = m.caps
       /\ \A r \in 1..Len(Rules) : r # c.rule => caps'[r] = caps[r]
  BY <1>4, <1>5, <1>6, <1>10
<1>12. /\ Proceeds(Rules, d) /\ (d.pc \in Holding => d.rule = c.rule) /\ (d.pc = "match" => c.pc = "match")
       /\ alone[t] /\ ~m.fatal => Exclusive(Rules, d, caps'[d.rule]) /\ Answered(Rules, d)
  <2>1. CASE m.fatal
    BY <1>4, <1>5, <1>7, <2>1
  <2>2. CASE ~m.fatal /\ m.ok
    <3>1. d = [c EXCEPT !.pc = "measure"]
      BY <1>7, <2>2
    <3>2. /\ d = [pc |-> d.pc, text |-> d.text, rule |-> d.rule, room |-> d.room, out |-> d.out, missed |-> d.missed]
          /\ d.pc = "measure" /\ d.text = c.text /\ d.rule = c.rule /\ d.out = c.out /\ d.missed = c.missed
      BY <1>5, <3>1, NextPc DEF Proceeds
    <3>3. Proceeds(Rules, d)
      BY <1>2, <1>4, <1>5, <1>6, <2>2, <3>2 DEF Proceeds, Looking
    <3>4. alone[t] => Exclusive(Rules, d, caps'[d.rule])
      <4>1. Found(Rules, d) = Found(Rules, c)
        BY <3>2 DEF Found
      <4>. QED BY <1>9, <1>11, <2>2, <3>2, <4>1 DEF Exclusive
    <3>5. Answered(Rules, d)
      BY <3>2 DEF Answered
    <3>. QED BY <1>4, <3>2, <3>3, <3>4, <3>5
  <2>3. CASE ~m.fatal /\ ~m.ok
    <3>1. PICK r : r = c.rule + 1
      OBVIOUS
    <3>0. PICK e : e = [c EXCEPT !.missed = missed]
      OBVIOUS
    <3>2. d = [e EXCEPT !.rule = r, !.pc = IF r <= Len(Rules) THEN "reset" ELSE "done"]
      BY <1>7, <2>3, <3>0, <3>1 DEF AtRule
    <3>3. /\ c = [pc |-> c.pc, text |-> c.text, rule |-> c.rule, room |-> c.room, out |-> c.out, missed |-> c.missed]
          /\ c.out = NULL /\ \A q \in 1..c.rule - 1 : InLanguage(Rules[q].from, c.text) => q \in c.missed
          /\ c.missed \subseteq 1..c.rule - 1
      BY <1>4, <1>5 DEF Proceeds, Looking
    <3>7. /\ e = [pc |-> e.pc, text |-> e.text, rule |-> e.rule, room |-> e.room, out |-> e.out, missed |-> e.missed]
          /\ e.text = c.text /\ e.out = NULL /\ e.missed = missed
      <4>1. e = [pc |-> c.pc, text |-> c.text, rule |-> c.rule, room |-> c.room, out |-> c.out, missed |-> missed]
        BY <3>0, <3>3
      <4>. QED BY <3>3, <4>1
    <3>4. \A q \in 1..r - 1 : InLanguage(Rules[q].from, e.text) => q \in e.missed
      <4>1. \A q \in 1..r - 1 : q \in 1..c.rule - 1 \/ q = c.rule
        BY <1>5, <3>1
      <4>2. c.missed \subseteq missed
        BY <1>0
      <4>3. InLanguage(p, c.text) => c.rule \in missed
        BY <1>0, <1>6, <2>3
      <4>. QED BY <1>2, <3>3, <3>7, <4>1, <4>2, <4>3
    <3>8. e.missed \subseteq 1..r - 1
      <4>1. c.missed \subseteq 1..r - 1 /\ c.rule \in 1..r - 1
        BY <1>5, <3>1, <3>3
      <4>. QED BY <1>0, <3>7, <4>1
    <3>5. r \in 1..Len(Rules) + 1
      BY <1>5, <3>1
    <3>6. Proceeds(Rules, d) /\ d.pc \notin Holding /\ Answered(Rules, d) /\ \A k : Exclusive(Rules, d, k)
      BY <1>5, <3>2, <3>4, <3>5, <3>7, <3>8, AtRuleIs
    <3>. QED BY <3>6 DEF Holding
  <2>. QED BY <2>1, <2>2, <2>3
<1>13. DiesOnlyOfBadRules'
  <2>1. SUFFICES ASSUME m.fatal, alone[t], Settled(p) PROVE Cardinality(Tokens(p, "(")) > MAXRECAPTURE
    <3>1. m.fatal => call'[t] = c
      <4>1. t \in DOMAIN call
        BY DEF RewriteInv
      <4>. QED BY <1>7, <1>8, <4>1
    <3>2. Rules' = Rules /\ dead' = m.fatal /\ alone'[t] = alone[t]
      BY <1>4 DEF Rules
    <3>. QED BY <1>2, <1>5, <2>1, <3>1, <3>2 DEF DiesOnlyOfBadRules
  <2>2. ReMatchPattern(p, c.text, NoCaptures).fatal
    BY <1>6, <1>9, <2>1
  <2>. QED BY <1>5, <2>1, <2>2, MatcherRoomy DEF Opening
<1>14. OneCall(t, d)
  <2>1. dead' \in BOOLEAN
    BY <1>4, <1>6 DEF Results
  <2>2. call[t].pc \in Holding
    BY <1>1, <1>4 DEF Holding
  <2>3. \A o \in Thread \ {t} :
           /\ alone'[o] => /\ alone[o]
                           /\ call[o].pc \in Holding => caps'[call[o].rule] = caps[call[o].rule]
           /\ Contend(d, call[o]) => ~alone'[o]
           /\ Contend(call[o], d) => ~alone'[t]
    BY <1>1, <1>4, <1>11, <1>12, <2>2, OthersKeep
  <2>. QED BY <1>4, <1>8, <1>10, <1>11, <1>12, <1>13, <2>1, <2>3 DEF OneCall
<1>. QED BY <1>14, OneCallKeeps

LEMMA MeasureKeeps ==
  ASSUME RewriteInv, ~dead, NEW t \in Thread, Measure(t)
  PROVE  RewriteInv'
<1>1. PICK c : c = call[t]
  OBVIOUS
<1>2. PICK n : n = MeasureReplacement(Rules[c.rule].to, caps[c.rule])
  OBVIOUS
<1>3. /\ c.pc = "measure" /\ setup' = setup /\ alone' = alone /\ caps' = caps /\ dead' = dead
      /\ call' = [call EXCEPT ![t].pc = "copy", ![t].room = n]
  BY <1>1, <1>2 DEF Measure
<1>4. Proceeds(Rules, c) /\ t \in DOMAIN call
  BY <1>1 DEF RewriteInv
<1>5. PICK d : d = [c EXCEPT !.pc = "copy", !.room = n]
  OBVIOUS
<1>6. call' = [call EXCEPT ![t] = d]
  BY <1>1, <1>3, <1>4, <1>5
<1>7. /\ d = [pc |-> d.pc, text |-> d.text, rule |-> d.rule, room |-> d.room, out |-> d.out, missed |-> d.missed]
      /\ d.pc = "copy" /\ d.text = c.text /\ d.rule = c.rule /\ d.room = n /\ d.out = c.out /\ d.missed = c.missed
  <2>1. c = [pc |-> c.pc, text |-> c.text, rule |-> c.rule, room |-> c.room, out |-> c.out, missed |-> c.missed]
    BY <1>4 DEF Proceeds
  <2>2. d = [pc |-> "copy", text |-> c.text, rule |-> c.rule, room |-> n, out |-> c.out, missed |-> c.missed]
    BY <1>5, <2>1
  <2>. QED BY <2>2
<1>8. Proceeds(Rules, d)
  BY <1>3, <1>4, <1>7 DEF Proceeds, Looking
<1>9. alone[t] => Exclusive(Rules, d, caps[d.rule]) /\ Answered(Rules, d)
  <2>1. SUFFICES ASSUME alone[t] PROVE Exclusive(Rules, d, caps[d.rule]) /\ Answered(Rules, d)
    OBVIOUS
  <2>2. Exclusive(Rules, c, caps[c.rule])
    BY <1>1, <2>1 DEF RewriteInv
  <2>3. Found(Rules, d) = Found(Rules, c)
    BY <1>7 DEF Found
  <2>. QED BY <1>2, <1>3, <1>7, <2>2, <2>3 DEF Exclusive, Answered
<1>10. DiesOnlyOfBadRules'
  BY <1>3 DEF DiesOnlyOfBadRules
<1>11. OneCall(t, d)
  <2>1. /\ caps' \in [1..Len(Rules) -> Captures] /\ dead' \in BOOLEAN /\ alone' \in [Thread -> BOOLEAN]
    BY <1>3 DEF RewriteInv
  <2>2. call[t].pc \in Holding /\ d.rule = call[t].rule /\ d.pc # "match"
    BY <1>1, <1>3, <1>7 DEF Holding
  <2>3. \A o \in Thread \ {t} :
           /\ alone'[o] => /\ alone[o]
                           /\ call[o].pc \in Holding => caps'[call[o].rule] = caps[call[o].rule]
           /\ Contend(d, call[o]) => ~alone'[o]
           /\ Contend(call[o], d) => ~alone'[t]
    BY <1>3, <2>2, OthersKeep
  <2>. QED BY <1>3, <1>6, <1>8, <1>9, <1>10, <2>1, <2>3 DEF OneCall
<1>. QED BY <1>11, OneCallKeeps

LEMMA CopyKeeps ==
  ASSUME RewriteInv, ~dead, NEW t \in Thread, Copy(t)
  PROVE  RewriteInv'
<1>1. PICK c : c = call[t]
  OBVIOUS
<1>2. PICK u : u = Rules[c.rule]
  OBVIOUS
<1>3. PICK k : k = caps[c.rule]
  OBVIOUS
<1>4. /\ c.pc = "copy" /\ setup' = setup /\ alone' = alone /\ caps' = caps /\ dead' = Overruns(u.to, k)
      /\ call' = [call EXCEPT ![t].pc = "done", ![t].out = CopyReplacement(u.to, k)]
  BY <1>1, <1>2, <1>3 DEF Copy
<1>5. /\ Proceeds(Rules, c) /\ Len(Rules) \in Nat /\ c.rule \in 1..Len(Rules) /\ c.text \in Seq(Char)
      /\ k \in Captures /\ Regular(u.from) /\ u.to \in Seq(Item) /\ t \in DOMAIN call
  BY <1>1, <1>2, <1>3, <1>4, CallIsAt DEF Looking, RewriteInv
<1>6. PICK out : out = CopyReplacement(u.to, k)
  OBVIOUS
<1>7. out # NULL /\ (~Overruns(u.to, k) => Len(out) + 1 = MeasureReplacement(u.to, k))
  <2>1. out \in Seq(Byte) /\ (~Overruns(u.to, k) => Len(out) + 1 = MeasureReplacement(u.to, k))
    BY <1>5, <1>6, CopyIs
  <2>2. NULL \notin Seq(Byte)
    BY SetupIs DEF RewriteInv
  <2>. QED BY <2>1, <2>2
<1>8. alone[t] => /\ c.room = MeasureReplacement(u.to, k)
                  /\ Settled(u.from) => ~Overruns(u.to, k) /\ out = Replacement(u.from, u.to, c.text)
  <2>1. SUFFICES ASSUME alone[t]
                 PROVE  /\ c.room = MeasureReplacement(u.to, k)
                        /\ Settled(u.from) => ~Overruns(u.to, k) /\ out = Replacement(u.from, u.to, c.text)
    OBVIOUS
  <2>2. Exclusive(Rules, c, k)
    BY <1>1, <1>3, <2>1 DEF RewriteInv
  <2>3. /\ ReMatchPattern(u.from, c.text, NoCaptures).ok
        /\ k = ReMatchPattern(u.from, c.text, NoCaptures).caps
        /\ c.room = MeasureReplacement(u.to, k)
    BY <1>2, <1>4, <2>2 DEF Exclusive, Found
  <2>. QED BY <1>5, <1>6, <2>3, MatchReplaces
<1>9. PICK d : d = [c EXCEPT !.pc = "done", !.out = out]
  OBVIOUS
<1>10. call' = [call EXCEPT ![t] = d]
  BY <1>1, <1>4, <1>5, <1>6, <1>9
<1>11. /\ d = [pc |-> d.pc, text |-> d.text, rule |-> d.rule, room |-> d.room, out |-> d.out, missed |-> d.missed]
       /\ d.pc = "done" /\ d.text = c.text /\ d.rule = c.rule /\ d.room = c.room /\ d.out = out /\ d.missed = c.missed
  <2>1. c = [pc |-> c.pc, text |-> c.text, rule |-> c.rule, room |-> c.room, out |-> c.out, missed |-> c.missed]
    BY <1>5 DEF Proceeds
  <2>2. d = [pc |-> "done", text |-> c.text, rule |-> c.rule, room |-> c.room, out |-> out, missed |-> c.missed]
    BY <1>9, <2>1
  <2>. QED BY <2>2
<1>12. Proceeds(Rules, d)
  BY <1>4, <1>5, <1>7, <1>11 DEF Proceeds, Looking
<1>13. alone'[t] /\ ~dead' => Exclusive(Rules, d, caps'[d.rule]) /\ Answered(Rules, d)
  <2>1. Exclusive(Rules, d, caps'[d.rule])
    BY <1>11 DEF Exclusive
  <2>. QED BY <1>2, <1>4, <1>7, <1>8, <1>11, <2>1 DEF Answered
<1>14. DiesOnlyOfBadRules'
  <2>1. call'[t] = d /\ Rules' = Rules
    BY <1>4, <1>5, <1>10 DEF Rules
  <2>2. dead' => ~alone'[t] \/ ~Settled(u.from)
    BY <1>4, <1>8
  <2>. QED BY <1>2, <1>5, <1>11, <2>1, <2>2 DEF DiesOnlyOfBadRules
<1>15. OneCall(t, d)
  <2>1. /\ caps' \in [1..Len(Rules) -> Captures] /\ alone' \in [Thread -> BOOLEAN]
    BY <1>4 DEF RewriteInv
  <2>2. dead' \in BOOLEAN
    BY <1>4 DEF Overruns
  <2>3. call[t].pc \in Holding /\ d.pc \notin Holding /\ d.pc # "match"
    BY <1>1, <1>4, <1>11 DEF Holding
  <2>4. \A o \in Thread \ {t} :
           /\ alone'[o] => /\ alone[o]
                           /\ call[o].pc \in Holding => caps'[call[o].rule] = caps[call[o].rule]
           /\ Contend(d, call[o]) => ~alone'[o]
           /\ Contend(call[o], d) => ~alone'[t]
    BY <1>4, <2>3, OthersKeep
  <2>. QED BY <1>4, <1>10, <1>12, <1>13, <1>14, <2>1, <2>2, <2>4 DEF OneCall
<1>. QED BY <1>15, OneCallKeeps

(* The start, and every other step. *)
LEMMA RewriteInit == Init => RewriteInv
<1>1. SUFFICES ASSUME Init PROVE RewriteInv
  OBVIOUS
<1>2. /\ setup \in Setups /\ dead = FALSE /\ call = [t \in Thread |-> Quiet] /\ alone = [t \in Thread |-> TRUE]
      /\ caps = [r \in 1..Len(Rules) |-> NoCaptures]
  BY <1>1 DEF Init
<1>3. Quiet = [pc |-> Quiet.pc, text |-> Quiet.text, rule |-> Quiet.rule, room |-> Quiet.room, out |-> Quiet.out, missed |-> Quiet.missed]
      /\ Quiet.pc = "idle"
  BY DEF Quiet
<1>4. \A rs : Proceeds(rs, Quiet) /\ Answered(rs, Quiet) /\ \A k : Exclusive(rs, Quiet, k)
  BY <1>3 DEF Proceeds, Answered, Exclusive, Looking
<1>5. \A b : ~Contend(Quiet, b)
  BY <1>3 DEF Contend
<1>6. caps \in [1..Len(Rules) -> Captures]
  BY <1>2, NoCapturesTyped
<1>. QED BY <1>2, <1>4, <1>5, <1>6 DEF RewriteInv, DiesOnlyOfBadRules

LEMMA RewriteNext == RewriteInv /\ [Next]_vars => RewriteInv'
<1>1. SUFFICES ASSUME RewriteInv, [Next]_vars PROVE RewriteInv'
  OBVIOUS
<1>2. CASE UNCHANGED <<setup, caps, call, alone, dead>>
  BY <1>1, <1>2 DEF RewriteInv, DiesOnlyOfBadRules, Rules
<1>3. CASE Next
  <2>1. ~dead
    BY <1>3 DEF Next
  <2>2. PICK t \in setup.callers :
          \/ \E text \in setup.texts : RewriteURL(t, text)
          \/ ReMatch(t) \/ Match(t) \/ Measure(t) \/ Copy(t)
          \/ \E addr \in setup.addrs : ConnectHook(t, addr)
          \/ ResolveFails(t)
          \/ \E ip \in Ip : Resolved(t, ip)
    BY <1>3 DEF Next
  <2>3. t \in Thread
    BY <1>1, SetupIs DEF RewriteInv
  <2>4. CASE \E text \in setup.texts : RewriteURL(t, text)
    BY <1>1, <2>1, <2>3, <2>4, RewriteURLKeeps
  <2>5. CASE ReMatch(t)
    BY <1>1, <2>1, <2>3, <2>5, ReMatchKeeps
  <2>6. CASE Match(t)
    BY <1>1, <2>1, <2>3, <2>6, MatchKeeps
  <2>7. CASE Measure(t)
    BY <1>1, <2>1, <2>3, <2>7, MeasureKeeps
  <2>8. CASE Copy(t)
    BY <1>1, <2>1, <2>3, <2>8, CopyKeeps
  <2>9. CASE \E addr \in setup.addrs : ConnectHook(t, addr)
    BY <1>2, <2>9 DEF ConnectHook
  <2>10. CASE ResolveFails(t)
    BY <1>2, <2>10 DEF ResolveFails
  <2>11. CASE \E ip \in Ip : Resolved(t, ip)
    BY <1>2, <2>11 DEF Resolved
  <2>. QED BY <2>2, <2>4, <2>5, <2>6, <2>7, <2>8, <2>9, <2>10, <2>11
<1>. QED BY <1>1, <1>2, <1>3 DEF vars

-----------------------------------------------------------------------------
(* Connections: the rules for the port that were passed over have failed *)

ForPort(ps, s) == {i \in 1..Len(ps) : ps[i].from = s.addr.port}

SocketRecord(s) ==
  s = [pc |-> s.pc, addr |-> s.addr, rule |-> s.rule, to |-> s.to, failed |-> s.failed]

Connects(ps, s) ==
  /\ SocketRecord(s)
  /\ s.pc \in {"idle", "resolve", "done"}
  /\ s.pc = "resolve" => /\ s.rule \in ForPort(ps, s)
                         /\ s.failed = {i \in ForPort(ps, s) : i < s.rule}
  /\ s.pc = "done" =>
       LET left == ForPort(ps, s) \ s.failed
       IN IF left = {} THEN s.to = s.addr
          ELSE /\ s.to.port = ps[Min(left)].to /\ s.to.ip \in Ip
               /\ \A i \in s.failed : i < Min(left)

SocketInv ==
  /\ setup \in Setups /\ DOMAIN sock = Thread
  /\ \A t \in Thread : Connects(PortRules, sock[t])

(* The search for the next rule after r, when all up to r have failed. *)
Searched(ps, s, r, n) ==
  LET later == {i \in (r + 1)..Len(ps) : ps[i].from = s.addr.port}
  IN n = IF later = {} THEN [s EXCEPT !.pc = "done", !.to = s.addr]
                       ELSE [s EXCEPT !.pc = "resolve", !.rule = Min(later)]

LEMMA NextRuleIs ==
  ASSUME NEW ps, Len(ps) \in Nat, NEW s, NEW r \in 0..Len(ps), NEW n, SocketRecord(s),
         s.failed = {i \in ForPort(ps, s) : i <= r}, Searched(ps, s, r, n)
  PROVE  Connects(ps, n)
<1>. DEFINE later == {i \in (r + 1)..Len(ps) : ps[i].from = s.addr.port}
<1>1. later \subseteq ForPort(ps, s) /\ later \subseteq Nat /\ \A i \in ForPort(ps, s) : i \in later <=> ~(i <= r)
  BY DEF ForPort
<1>2. ForPort(ps, s) \subseteq Nat
  BY DEF ForPort
<1>3. CASE later = {}
  <2>1. n = [pc |-> "done", addr |-> s.addr, rule |-> s.rule, to |-> s.addr, failed |-> s.failed]
    BY <1>3 DEF Searched, SocketRecord
  <2>2. SocketRecord(n) /\ n.pc = "done" /\ n.addr = s.addr /\ n.to = s.addr /\ n.failed = s.failed
    BY <2>1 DEF SocketRecord
  <2>3. ForPort(ps, n) = ForPort(ps, s)
    BY <2>2 DEF ForPort
  <2>4. ForPort(ps, n) \ n.failed = {}
    <3>. HIDE DEF later
    <3>. QED BY <1>1, <1>3, <2>2, <2>3
  <2>. QED BY <2>2, <2>4 DEF Connects, SocketRecord
<1>4. CASE later # {}
  <2>1. PICK x \in later : \A y \in later : x <= y
    <3>. HIDE DEF later
    <3>. QED BY <1>1, <1>4, Least
  <2>2. Min(later) = x
    <3>. HIDE DEF later
    <3>. QED BY <1>1, <2>1, MinIs
  <2>3. n = [pc |-> "resolve", addr |-> s.addr, rule |-> x, to |-> s.to, failed |-> s.failed]
    BY <1>4, <2>2 DEF Searched, SocketRecord
  <2>4. SocketRecord(n) /\ n.pc = "resolve" /\ n.addr = s.addr /\ n.rule = x /\ n.failed = s.failed
    BY <2>3 DEF SocketRecord
  <2>5. ForPort(ps, n) = ForPort(ps, s)
    BY <2>4 DEF ForPort
  <2>6. \A i \in ForPort(ps, s) : i <= r <=> i < x
    <3>1. x > r /\ x \in Nat
      BY <2>1
    <3>. HIDE DEF later
    <3>2. \A i \in ForPort(ps, s) : i \in later => x <= i
      BY <2>1
    <3>. QED BY <1>1, <1>2, <3>1, <3>2
  <2>7. s.failed = {i \in ForPort(ps, s) : i < x}
    BY <2>6
  <2>8. x \in ForPort(ps, s)
    <3>. HIDE DEF later
    <3>. QED BY <1>1, <2>1
  <2>9. n.rule \in ForPort(ps, n) /\ n.failed = {i \in ForPort(ps, n) : i < n.rule}
    BY <2>4, <2>5, <2>7, <2>8
  <2>. QED BY <2>4, <2>9 DEF Connects, SocketRecord
<1>. QED BY <1>3, <1>4

(* A connection whose rule resolves. *)
Taken(ps, s, ip, n) ==
  n = [s EXCEPT !.pc = "done", !.to = [ip |-> ip, port |-> ps[s.rule].to]]

LEMMA ResolvedIs ==
  ASSUME NEW ps, NEW s, Connects(ps, s), s.pc = "resolve", NEW ip \in Ip, NEW n,
         Taken(ps, s, ip, n)
  PROVE  Connects(ps, n)
<1>1. /\ SocketRecord(s) /\ s.rule \in ForPort(ps, s)
      /\ s.failed = {i \in ForPort(ps, s) : i < s.rule}
  BY DEF Connects
<1>2. PICK to : to = [ip |-> ip, port |-> ps[s.rule].to]
  OBVIOUS
<1>3. n = [pc |-> "done", addr |-> s.addr, rule |-> s.rule, to |-> to, failed |-> s.failed]
  BY <1>1, <1>2 DEF SocketRecord, Taken
<1>4. SocketRecord(n) /\ n.pc = "done" /\ n.addr = s.addr /\ n.to = to /\ n.failed = s.failed
  BY <1>3 DEF SocketRecord
<1>5. ForPort(ps, n) = ForPort(ps, s) /\ ForPort(ps, s) \subseteq Nat
  BY <1>4 DEF ForPort
<1>6. PICK left : left = ForPort(ps, n) \ n.failed
  OBVIOUS
<1>7. left \subseteq Nat /\ s.rule \in left /\ \A i \in left : s.rule <= i
  BY <1>1, <1>4, <1>5, <1>6
<1>8. Min(left) = s.rule /\ left # {}
  BY <1>7, MinIs
<1>9. n.to.port = ps[Min(left)].to /\ n.to.ip \in Ip
  BY <1>2, <1>4, <1>8
<1>10. \A i \in n.failed : i < Min(left)
  BY <1>1, <1>4, <1>8
<1>. QED BY <1>4, <1>6, <1>8, <1>9, <1>10 DEF Connects

LEMMA SocketInit == Init => SocketInv
<1>1. \A ps : Connects(ps, NoSocket)
  BY DEF Connects, SocketRecord, NoSocket
<1>. QED BY <1>1 DEF Init, SocketInv

LEMMA SocketNext == SocketInv /\ [Next]_vars => SocketInv'
<1>1. SUFFICES ASSUME SocketInv, [Next]_vars PROVE SocketInv'
  OBVIOUS
<1>2. CASE UNCHANGED <<setup, sock>>
  BY <1>1, <1>2 DEF SocketInv, PortRules
<1>3. ASSUME NEW t \in Thread, NEW n, setup' = setup, sock' = [sock EXCEPT ![t] = n], Connects(PortRules, n)
      PROVE  SocketInv'
  <2>1. /\ sock'[t] = n /\ DOMAIN sock' = Thread /\ PortRules' = PortRules
        /\ \A o \in Thread \ {t} : sock'[o] = sock[o]
    BY <1>1, <1>3 DEF SocketInv, PortRules
  <2>2. \A o \in Thread : Connects(PortRules', sock'[o])
    BY <1>1, <1>3, <2>1 DEF SocketInv
  <2>. QED BY <1>1, <1>3, <2>1, <2>2 DEF SocketInv
<1>4. CASE Next
  <2>1. PICK t \in setup.callers :
          \/ \E text \in setup.texts : RewriteURL(t, text)
          \/ ReMatch(t) \/ Match(t) \/ Measure(t) \/ Copy(t)
          \/ \E addr \in setup.addrs : ConnectHook(t, addr)
          \/ ResolveFails(t)
          \/ \E ip \in Ip : Resolved(t, ip)
    BY <1>4 DEF Next
  <2>2. t \in Thread /\ PortRules \in Seq([from : Nat, to : Nat])
    BY <1>1, SetupIs DEF SocketInv, PortRules
  <2>3. Len(PortRules) \in Nat /\ Connects(PortRules, sock[t])
    BY <1>1, <2>2 DEF SocketInv
  <2>4. PICK s : s = sock[t]
    OBVIOUS
  <2>5. CASE \/ \E text \in setup.texts : RewriteURL(t, text)
             \/ ReMatch(t) \/ Match(t) \/ Measure(t) \/ Copy(t)
    BY <1>2, <2>5 DEF RewriteURL, ReMatch, Match, Measure, Copy
  <2>6. ASSUME NEW addr \in setup.addrs, ConnectHook(t, addr) PROVE SocketInv'
    <3>1. PICK c : c = [NoSocket EXCEPT !.addr = addr]
      OBVIOUS
    <3>2. PICK n : n = NextPortRule(c, 0)
      OBVIOUS
    <3>3. SocketRecord(c) /\ c.failed = {}
      BY <3>1 DEF NoSocket, SocketRecord
    <3>4. c.failed = {i \in ForPort(PortRules, c) : i <= 0}
      BY <3>3 DEF ForPort
    <3>5. Searched(PortRules, c, 0, n)
      BY <3>2 DEF NextPortRule, Searched
    <3>6. Connects(PortRules, n)
      <4>1. 0 \in 0..Len(PortRules)
        BY <2>3
      <4>. QED BY <2>3, <3>3, <3>4, <3>5, <4>1, NextRuleIs
    <3>7. sock' = [sock EXCEPT ![t] = n] /\ setup' = setup
      BY <2>6, <3>1, <3>2 DEF ConnectHook
    <3>. QED BY <1>3, <2>2, <3>6, <3>7
  <2>7. CASE ResolveFails(t)
    <3>1. PICK r : r = s.rule
      OBVIOUS
    <3>2. PICK c : c = [s EXCEPT !.failed = s.failed \cup {r}]
      OBVIOUS
    <3>3. PICK n : n = NextPortRule(c, r)
      OBVIOUS
    <3>4. /\ SocketRecord(s) /\ r \in ForPort(PortRules, s)
          /\ s.failed = {i \in ForPort(PortRules, s) : i < r}
      BY <2>3, <2>4, <2>7, <3>1 DEF ResolveFails, Connects
    <3>5. c = [pc |-> s.pc, addr |-> s.addr, rule |-> s.rule, to |-> s.to, failed |-> s.failed \cup {r}]
      BY <3>2, <3>4 DEF SocketRecord
    <3>6. SocketRecord(c) /\ c.addr = s.addr /\ c.failed = s.failed \cup {r}
      BY <3>5 DEF SocketRecord
    <3>7. ForPort(PortRules, c) = ForPort(PortRules, s)
      BY <3>6 DEF ForPort
    <3>8. r \in 0..Len(PortRules) /\ ForPort(PortRules, s) \subseteq Nat
      BY <2>3, <3>4 DEF ForPort
    <3>9. c.failed = {i \in ForPort(PortRules, c) : i <= r}
      <4>1. \A i \in ForPort(PortRules, s) : i <= r <=> i < r \/ i = r
        BY <3>8
      <4>. QED BY <3>4, <3>6, <3>7, <4>1
    <3>10. Searched(PortRules, c, r, n)
      BY <3>3 DEF NextPortRule, Searched
    <3>11. Connects(PortRules, n)
      BY <2>3, <3>6, <3>8, <3>9, <3>10, NextRuleIs
    <3>12. sock' = [sock EXCEPT ![t] = n] /\ setup' = setup
      BY <2>4, <2>7, <3>1, <3>2, <3>3 DEF ResolveFails
    <3>. QED BY <1>3, <2>2, <3>11, <3>12
  <2>8. ASSUME NEW ip \in Ip, Resolved(t, ip) PROVE SocketInv'
    <3>1. PICK n : n = [s EXCEPT !.pc = "done", !.to = [ip |-> ip, port |-> PortRules[s.rule].to]]
      OBVIOUS
    <3>2. s.pc = "resolve" /\ Connects(PortRules, s)
      BY <2>3, <2>4, <2>8 DEF Resolved
    <3>3. Connects(PortRules, n)
      BY <3>1, <3>2, ResolvedIs DEF Taken
    <3>4. sock' = [sock EXCEPT ![t] = n] /\ setup' = setup
      <4>1. t \in DOMAIN sock
        BY <1>1, <2>2 DEF SocketInv
      <4>. QED BY <2>4, <2>8, <3>1, <4>1 DEF Resolved
    <3>. QED BY <1>3, <2>2, <3>3, <3>4
  <2>. QED BY <2>1, <2>5, <2>6, <2>7, <2>8
<1>. QED BY <1>1, <1>2, <1>4 DEF vars

-----------------------------------------------------------------------------
(* The theorems *)

(* The invariant of the calls of RewriteURL: what each has found and passed  *)
(* over, what the captures of its rule hold while no other call uses them,   *)
(* and of what the process may die (config.c RewriteURL, regex.c ReMatch and *)
(* ReReplace, for any rules that are Regular and any number of threads).     *)
THEOREM RewriteInvariant == Spec => []RewriteInv
BY RewriteInit, RewriteNext, PTL DEF Spec

(* The rule of a call that is done is the first whose language has the text, *)
(* of those it has not missed.                                               *)
LEMMA FirstRuleIs ==
  ASSUME RewriteInv, NEW t \in Thread, call[t].pc = "done"
  PROVE  /\ FirstRule(call[t].text, call[t].missed) = call[t].rule /\ Len(Rules) \in Nat /\ call[t].rule \in 1..Len(Rules) + 1
         /\ (call[t].out = NULL) = (call[t].rule > Len(Rules))
<1>1. PICK c : c = call[t]
  OBVIOUS
<1>2. Proceeds(Rules, c) /\ Len(Rules) \in Nat /\ c.pc = "done"
  BY <1>1, CallIsAt
<1>3. PICK S : S = ({r \in 1..Len(Rules) : InLanguage(Rules[r].from, c.text)} \ c.missed) \cup {Len(Rules) + 1}
  OBVIOUS
<1>4. S \subseteq Nat
  BY <1>2, <1>3
<1>5. c.rule \in 1..Len(Rules) + 1 /\ c.rule \in S
  <2>1. c.rule \in 1..Len(Rules) + 1 /\ c.missed \subseteq 1..c.rule - 1
        /\ (c.rule <= Len(Rules) => InLanguage(Rules[c.rule].from, c.text))
    BY <1>2 DEF Proceeds
  <2>2. c.rule \notin c.missed
    BY <1>2, <2>1
  <2>3. c.rule \in 1..Len(Rules) \/ c.rule = Len(Rules) + 1
    BY <1>2, <2>1
  <2>. QED BY <1>2, <1>3, <2>1, <2>2, <2>3
<1>6. ASSUME NEW x \in S PROVE c.rule <= x
  <2>1. SUFFICES ASSUME x < c.rule PROVE FALSE
    BY <1>4, <1>5
  <2>2. x \in 1..c.rule - 1 /\ x # Len(Rules) + 1 /\ x \notin c.missed
    BY <1>2, <1>3, <1>5, <2>1
  <2>. QED BY <1>2, <1>3, <2>2 DEF Proceeds
<1>7. Min(S) = c.rule
  BY <1>4, <1>5, <1>6, MinIs
<1>8. (c.out = NULL) = (c.rule > Len(Rules))
  BY <1>2, <1>5 DEF Proceeds
<1>. QED BY <1>1, <1>2, <1>3, <1>5, <1>7, <1>8 DEF FirstRule

(* RewriteURL answers by the first rule whose language has the text, except  *)
(* that it may miss rules with groups while other threads use them, and with *)
(* the groups of the preferred match filled in if none did and the rule is   *)
(* settled: the backtracking matcher finds what the declarative reference    *)
(* describes, for any rules, texts and number of threads.                    *)
THEOREM AlwaysRewritesByFirstRule == Spec => []RewritesByFirstRule
<1>1. RewriteInv => RewritesByFirstRule
  <2>1. SUFFICES ASSUME RewriteInv, NEW t \in Thread, call[t].pc = "done", ~dead
                 PROVE  LET text == call[t].text
                            r == FirstRule(text, call[t].missed)
                        IN /\ call[t].rule = r
                           /\ (call[t].out = NULL) = (r > Len(Rules))
                           /\ r \in 1..Len(Rules) /\ alone[t] /\ Settled(Rules[r].from) =>
                                call[t].out = Replacement(Rules[r].from, Rules[r].to, text)
    BY DEF RewritesByFirstRule
  <2>2. /\ FirstRule(call[t].text, call[t].missed) = call[t].rule /\ Len(Rules) \in Nat /\ call[t].rule \in 1..Len(Rules) + 1
        /\ (call[t].out = NULL) = (call[t].rule > Len(Rules))
    BY <2>1, FirstRuleIs
  <2>3. alone[t] => Answered(Rules, call[t])
    BY <2>1 DEF RewriteInv
  <2>4. call[t].rule \in 1..Len(Rules) => call[t].out # NULL
    BY <2>2
  <2>. QED BY <2>1, <2>2, <2>3, <2>4 DEF Answered
<1>. QED BY <1>1, RewriteInvariant, PTL

(* The second pass of ReReplace writes exactly what the first made room for, *)
(* terminator included, unless another thread used the rule meanwhile, for   *)
(* any rules, replacements and number of groups.                             *)
THEOREM CopyAlwaysFillsRoom == Spec => []CopyFillsRoom
<1>1. RewriteInv => CopyFillsRoom
  BY DEF RewriteInv, CopyFillsRoom, Answered
<1>. QED BY <1>1, RewriteInvariant, PTL

(* The process dies of a rewriting only for a rule that is not settled, that *)
(* has more groups than fit, or that two threads used at once: the matcher   *)
(* opens no group of a settled rule twice (regex.c ReMatchInternal).         *)
THEOREM AlwaysDiesOnlyOfBadRules == Spec => []DiesOnlyOfBadRules
<1>1. RewriteInv => DiesOnlyOfBadRules
  BY DEF RewriteInv
<1>. QED BY <1>1, RewriteInvariant, PTL

(* A connection goes to the resolved address and the port of the first rule  *)
(* for its port that resolved, and where the game wanted if none did         *)
(* (config.c RewriteAddr), for any rules and answers of the resolver.        *)
THEOREM AlwaysConnectsByFirstResolved == Spec => []ConnectsByFirstResolved
<1>1. SocketInv => ConnectsByFirstResolved
  <2>1. SUFFICES ASSUME SocketInv, NEW t \in Thread, sock[t].pc = "done"
                 PROVE  LET s == sock[t]
                            mine == {i \in 1..Len(PortRules) : PortRules[i].from = s.addr.port}
                            left == mine \ s.failed
                        IN IF left = {} THEN s.to = s.addr
                           ELSE /\ s.to.port = PortRules[Min(left)].to /\ s.to.ip \in Ip
                                /\ \A i \in s.failed : i < Min(left)
    BY DEF ConnectsByFirstResolved
  <2>2. Connects(PortRules, sock[t])
    BY <2>1 DEF SocketInv
  <2>. QED BY <2>1, <2>2 DEF Connects, ForPort
<1>2. Spec => []SocketInv
  BY SocketInit, SocketNext, PTL DEF Spec
<1>. QED BY <1>1, <1>2, PTL

=============================================================================
