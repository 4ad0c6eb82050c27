-------------------------- MODULE JsonConfigProofs --------------------------
(***************************************************************************)
(* Proofs about JsonConfig for every limit of the lists and files of every *)
(* length: the state keeps its type, a file is refused only if the grammar *)
(* refuses it, the game starts with a whole file or not at all, and no     *)
(* file of the player's is saved over.                                     *)
(***************************************************************************)
EXTENDS JsonConfig, SequenceTheorems, TLAPS

-----------------------------------------------------------------------------
(* Tuples *)

LEMMA Concat ==
  ASSUME NEW S, NEW s \in Seq(S), NEW u \in Seq(S), NEW r \in Seq(S),
         Len(r) = Len(s) + Len(u),
         \A i \in 1 .. Len(s) : r[i] = s[i],
         \A i \in 1 .. Len(u) : r[Len(s) + i] = u[i]
  PROVE  s \o u = r
<1>. DEFINE w == s \o u
<1>1. /\ w \in Seq(S) /\ Len(w) = Len(s) + Len(u)
      /\ \A i \in 1 .. Len(s) + Len(u) : w[i] = IF i <= Len(s) THEN s[i] ELSE u[i - Len(s)]
  BY ConcatProperties
<1>. HIDE DEF w
<1>2. \A i \in 1 .. Len(r) : w[i] = r[i]
  <2>1. SUFFICES ASSUME NEW i \in 1 .. Len(r) PROVE w[i] = r[i]
    OBVIOUS
  <2>2. CASE i <= Len(s)
    BY <1>1, <2>2
  <2>3. CASE i > Len(s)
    <3>1. i - Len(s) \in 1 .. Len(u) /\ Len(s) + (i - Len(s)) = i
      <4>1. Len(s) \in Nat /\ Len(u) \in Nat
        OBVIOUS
      <4>. QED BY <2>3, <4>1
    <3>2. r[Len(s) + (i - Len(s))] = u[i - Len(s)]
      BY <3>1
    <3>. QED BY <1>1, <2>3, <3>1, <3>2
  <2>. QED BY <2>2, <2>3
<1>. QED BY <1>1, <1>2, SeqEqual DEF w

LEMMA OneAndOne == \A a, b : <<a>> \o <<b>> = <<a, b>>
<1>. TAKE a, b
<1>. DEFINE S == {a, b}
            s == <<a>>
            u == <<b>>
            r == <<a, b>>
<1>1. s \in Seq(S) /\ u \in Seq(S) /\ r \in Seq(S) /\ Len(r) = Len(s) + Len(u)
  OBVIOUS
<1>2. \A i \in 1 .. Len(s) : r[i] = s[i]
  OBVIOUS
<1>3. \A i \in 1 .. Len(u) : r[Len(s) + i] = u[i]
  OBVIOUS
<1>. HIDE DEF S, s, u, r
<1>. QED BY <1>1, <1>2, <1>3, Concat DEF s, u, r

LEMMA OneAndTwo == \A a, b, c : <<a>> \o <<b, c>> = <<a, b, c>>
<1>. TAKE a, b, c
<1>. DEFINE S == {a, b, c}
            s == <<a>>
            u == <<b, c>>
            r == <<a, b, c>>
<1>1. s \in Seq(S) /\ u \in Seq(S) /\ r \in Seq(S) /\ Len(r) = Len(s) + Len(u)
  OBVIOUS
<1>2. \A i \in 1 .. Len(s) : r[i] = s[i]
  OBVIOUS
<1>3. \A i \in 1 .. Len(u) : r[Len(s) + i] = u[i]
  OBVIOUS
<1>. HIDE DEF S, s, u, r
<1>. QED BY <1>1, <1>2, <1>3, Concat DEF s, u, r

LEMMA TwoAndOne == \A a, b, c : <<a, b>> \o <<c>> = <<a, b, c>>
<1>. TAKE a, b, c
<1>. DEFINE S == {a, b, c}
            s == <<a, b>>
            u == <<c>>
            r == <<a, b, c>>
<1>1. s \in Seq(S) /\ u \in Seq(S) /\ r \in Seq(S) /\ Len(r) = Len(s) + Len(u)
  OBVIOUS
<1>2. \A i \in 1 .. Len(s) : r[i] = s[i]
  OBVIOUS
<1>3. \A i \in 1 .. Len(u) : r[Len(s) + i] = u[i]
  OBVIOUS
<1>. HIDE DEF S, s, u, r
<1>. QED BY <1>1, <1>2, <1>3, Concat DEF s, u, r

LEMMA TwoAndTwo == \A a, b, c, d : <<a, b>> \o <<c, d>> = <<a, b, c, d>>
<1>. TAKE a, b, c, d
<1>. DEFINE S == {a, b, c, d}
            s == <<a, b>>
            u == <<c, d>>
            r == <<a, b, c, d>>
<1>1. s \in Seq(S) /\ u \in Seq(S) /\ r \in Seq(S) /\ Len(r) = Len(s) + Len(u)
  OBVIOUS
<1>2. \A i \in 1 .. Len(s) : r[i] = s[i]
  OBVIOUS
<1>3. \A i \in 1 .. Len(u) : r[Len(s) + i] = u[i]
  OBVIOUS
<1>. HIDE DEF S, s, u, r
<1>. QED BY <1>1, <1>2, <1>3, Concat DEF s, u, r

LEMMA TwoAndThree == \A a, b, c, d, e : <<a, b>> \o <<c, d, e>> = <<a, b, c, d, e>>
<1>. TAKE a, b, c, d, e
<1>. DEFINE S == {a, b, c, d, e}
            s == <<a, b>>
            u == <<c, d, e>>
            r == <<a, b, c, d, e>>
<1>1. s \in Seq(S) /\ u \in Seq(S) /\ r \in Seq(S) /\ Len(r) = Len(s) + Len(u)
  OBVIOUS
<1>2. \A i \in 1 .. Len(s) : r[i] = s[i]
  OBVIOUS
<1>3. \A i \in 1 .. Len(u) : r[Len(s) + i] = u[i]
  OBVIOUS
<1>. HIDE DEF S, s, u, r
<1>. QED BY <1>1, <1>2, <1>3, Concat DEF s, u, r

LEMMA FourAndOne == \A a, b, c, d, e : <<a, b, c, d>> \o <<e>> = <<a, b, c, d, e>>
<1>. TAKE a, b, c, d, e
<1>. DEFINE S == {a, b, c, d, e}
            s == <<a, b, c, d>>
            u == <<e>>
            r == <<a, b, c, d, e>>
<1>1. s \in Seq(S) /\ u \in Seq(S) /\ r \in Seq(S) /\ Len(r) = Len(s) + Len(u)
  OBVIOUS
<1>2. \A i \in 1 .. Len(s) : r[i] = s[i]
  OBVIOUS
<1>3. \A i \in 1 .. Len(u) : r[Len(s) + i] = u[i]
  OBVIOUS
<1>. HIDE DEF S, s, u, r
<1>. QED BY <1>1, <1>2, <1>3, Concat DEF s, u, r

-----------------------------------------------------------------------------
(* The grammar *)

Derive(e, t) == UNION {After(form, t) : form \in e}

LEMMA DeriveOne == \A a, t : Derive({a}, t) = After(a, t)
BY DEF Derive

LEMMA DeriveTwo == \A a, b, t : Derive({a, b}, t) = After(a, t) \cup After(b, t)
BY DEF Derive

LEMMA DeriveNone == \A t : Derive({}, t) = {}
BY DEF Derive

(* The terminal a form begins with is read. *)
LEMMA AfterTerminal ==
  ASSUME NEW form, NEW h, NEW rest, NEW t, form # <<>>, Head(form) = h, Tail(form) = rest,
         h \notin DOMAIN Productions, <<>> \o rest = rest
  PROVE  After(form, t) = IF Fits(h, t) THEN {rest} ELSE {}
<1>1. After(form, t) = {Tail(p) \o rest : p \in {q \in {<<h>>} : Fits(Head(q), t)}}
  BY DEF After
<1>2. Tail(<<h>>) = <<>> /\ Head(<<h>>) = h
  OBVIOUS
<1>3. Tail(<<h>>) \o rest = rest
  BY <1>2
<1>4. \A q \in {<<h>>} : Fits(Head(q), t) <=> Fits(h, t)
  BY <1>2
<1>. QED BY <1>1, <1>3, <1>4

LEMMA Words ==
  /\ DOMAIN Productions = {"config", "settings", "setting", "texts", "moreTexts", "rules",
                           "moreRules", "rule", "members", "member"}
  /\ Productions["config"] = {<<"{", "}">>, <<"{", "setting", "settings">>}
  /\ Productions["settings"] = {<<"}">>, <<",", "setting", "settings">>}
  /\ Productions["texts"] = {<<"{", "}">>, <<"{", "string", ":", "string", "moreTexts">>}
  /\ Productions["moreTexts"] = {<<"}">>, <<",", "string", ":", "string", "moreTexts">>}
  /\ Productions["rules"] = {<<"[", "]">>, <<"[", "rule", "moreRules">>}
  /\ Productions["moreRules"] = {<<"]">>, <<",", "rule", "moreRules">>}
  /\ Productions["rule"] = {<<"{", "}">>, <<"{", "member", "members">>}
  /\ Productions["members"] = {<<"}">>, <<",", "member", "members">>}
BY DEF Productions

(* What the prover has to know of short tuples. *)
LEMMA Parts ==
  /\ \A a : <<a>> # <<>> /\ Head(<<a>>) = a /\ Tail(<<a>>) = <<>>
  /\ \A a, b : <<a, b>> # <<>> /\ Head(<<a, b>>) = a /\ Tail(<<a, b>>) = <<b>>
  /\ \A a, b, c : <<a, b, c>> # <<>> /\ Head(<<a, b, c>>) = a /\ Tail(<<a, b, c>>) = <<b, c>>
  /\ \A a, b, c, d : /\ <<a, b, c, d>> # <<>> /\ Head(<<a, b, c, d>>) = a
                     /\ Tail(<<a, b, c, d>>) = <<b, c, d>>
  /\ \A a, b, c, d, e : /\ <<a, b, c, d, e>> # <<>> /\ Head(<<a, b, c, d, e>>) = a
                        /\ Tail(<<a, b, c, d, e>>) = <<b, c, d, e>>
OBVIOUS

LEMMA Empties ==
  /\ <<>> \o <<>> = <<>>
  /\ \A a : <<a>> \o <<>> = <<a>> /\ <<>> \o <<a>> = <<a>>
  /\ \A a, b : <<a, b>> \o <<>> = <<a, b>> /\ <<>> \o <<a, b>> = <<a, b>>
  /\ \A a, b, c : <<>> \o <<a, b, c>> = <<a, b, c>>
  /\ \A a, b, c, d : <<>> \o <<a, b, c, d>> = <<a, b, c, d>>
OBVIOUS

LEMMA AfterConfig == \A t : After(<<"config">>, t) =
    IF t = "{" THEN {<<"}">>, <<"setting", "settings">>} ELSE {}
<1>. TAKE t
<1>. DEFINE form == <<"config">>
            rest == <<>>
            p == <<"{", "}">>
            q == <<"{", "setting", "settings">>
            a == <<"}">>
            b == <<"setting", "settings">>
<1>1. form # <<>> /\ Head(form) = "config" /\ Tail(form) = rest
  BY Parts
<1>2. Head(p) = "{" /\ Tail(p) \o rest = a
  <2>1. Head(p) = "{" /\ Tail(p) = <<"}">>
    BY Parts
  <2>2. <<"}">> \o rest = a
    BY Empties
  <2>. QED BY <2>1, <2>2
<1>3. Head(q) = "{" /\ Tail(q) \o rest = b
  <2>1. Head(q) = "{" /\ Tail(q) = <<"setting", "settings">>
    BY Parts
  <2>2. <<"setting", "settings">> \o rest = b
    BY Empties
  <2>. QED BY <2>1, <2>2
<1>4. "config" \in DOMAIN Productions /\ Productions["config"] = {p, q}
  BY Words
<1>. HIDE DEF form, rest, p, q, a, b
<1>5. After(form, t) = (IF Fits("{", t) THEN {a} ELSE {}) \cup (IF Fits("{", t) THEN {b} ELSE {})
  <2>1. After(form, t) = {Tail(r) \o rest : r \in {x \in {p, q} : Fits(Head(x), t)}}
    BY <1>1, <1>4 DEF After
  <2>. QED BY <1>2, <1>3, <2>1
<1>. QED BY <1>5 DEF Fits, form, a, b

LEMMA AfterSettings == \A t : After(<<"settings">>, t) =
    IF t = "}" THEN {<<>>}
    ELSE IF t = "," THEN {<<"setting", "settings">>} ELSE {}
<1>. TAKE t
<1>. DEFINE form == <<"settings">>
            rest == <<>>
            p == <<"}">>
            q == <<",", "setting", "settings">>
            a == <<>>
            b == <<"setting", "settings">>
<1>1. form # <<>> /\ Head(form) = "settings" /\ Tail(form) = rest
  BY Parts
<1>2. Head(p) = "}" /\ Tail(p) \o rest = a
  <2>1. Head(p) = "}" /\ Tail(p) = <<>>
    BY Parts
  <2>2. <<>> \o rest = a
    BY Empties
  <2>. QED BY <2>1, <2>2
<1>3. Head(q) = "," /\ Tail(q) \o rest = b
  <2>1. Head(q) = "," /\ Tail(q) = <<"setting", "settings">>
    BY Parts
  <2>2. <<"setting", "settings">> \o rest = b
    BY Empties
  <2>. QED BY <2>1, <2>2
<1>4. "settings" \in DOMAIN Productions /\ Productions["settings"] = {p, q}
  BY Words
<1>. HIDE DEF form, rest, p, q, a, b
<1>5. After(form, t) = (IF Fits("}", t) THEN {a} ELSE {}) \cup (IF Fits(",", t) THEN {b} ELSE {})
  <2>1. After(form, t) = {Tail(r) \o rest : r \in {x \in {p, q} : Fits(Head(x), t)}}
    BY <1>1, <1>4 DEF After
  <2>. QED BY <1>2, <1>3, <2>1
<1>. QED BY <1>5 DEF Fits, form, a, b

LEMMA AfterTexts == \A t : After(<<"texts", "settings">>, t) =
    IF t = "{"
    THEN {<<"}", "settings">>, <<"string", ":", "string", "moreTexts", "settings">>}
    ELSE {}
<1>. TAKE t
<1>. DEFINE form == <<"texts", "settings">>
            rest == <<"settings">>
            p == <<"{", "}">>
            q == <<"{", "string", ":", "string", "moreTexts">>
            a == <<"}", "settings">>
            b == <<"string", ":", "string", "moreTexts", "settings">>
<1>1. form # <<>> /\ Head(form) = "texts" /\ Tail(form) = rest
  BY Parts
<1>2. Head(p) = "{" /\ Tail(p) \o rest = a
  <2>1. Head(p) = "{" /\ Tail(p) = <<"}">>
    BY Parts
  <2>2. <<"}">> \o rest = a
    BY OneAndOne
  <2>. QED BY <2>1, <2>2
<1>3. Head(q) = "{" /\ Tail(q) \o rest = b
  <2>1. Head(q) = "{" /\ Tail(q) = <<"string", ":", "string", "moreTexts">>
    BY Parts
  <2>2. <<"string", ":", "string", "moreTexts">> \o rest = b
    BY FourAndOne
  <2>. QED BY <2>1, <2>2
<1>4. "texts" \in DOMAIN Productions /\ Productions["texts"] = {p, q}
  BY Words
<1>. HIDE DEF form, rest, p, q, a, b
<1>5. After(form, t) = (IF Fits("{", t) THEN {a} ELSE {}) \cup (IF Fits("{", t) THEN {b} ELSE {})
  <2>1. After(form, t) = {Tail(r) \o rest : r \in {x \in {p, q} : Fits(Head(x), t)}}
    BY <1>1, <1>4 DEF After
  <2>. QED BY <1>2, <1>3, <2>1
<1>. QED BY <1>5 DEF Fits, form, a, b

LEMMA AfterMoreTexts == \A t : After(<<"moreTexts", "settings">>, t) =
    IF t = "}" THEN {<<"settings">>}
    ELSE IF t = "," THEN {<<"string", ":", "string", "moreTexts", "settings">>} ELSE {}
<1>. TAKE t
<1>. DEFINE form == <<"moreTexts", "settings">>
            rest == <<"settings">>
            p == <<"}">>
            q == <<",", "string", ":", "string", "moreTexts">>
            a == <<"settings">>
            b == <<"string", ":", "string", "moreTexts", "settings">>
<1>1. form # <<>> /\ Head(form) = "moreTexts" /\ Tail(form) = rest
  BY Parts
<1>2. Head(p) = "}" /\ Tail(p) \o rest = a
  <2>1. Head(p) = "}" /\ Tail(p) = <<>>
    BY Parts
  <2>2. <<>> \o rest = a
    BY Empties
  <2>. QED BY <2>1, <2>2
<1>3. Head(q) = "," /\ Tail(q) \o rest = b
  <2>1. Head(q) = "," /\ Tail(q) = <<"string", ":", "string", "moreTexts">>
    BY Parts
  <2>2. <<"string", ":", "string", "moreTexts">> \o rest = b
    BY FourAndOne
  <2>. QED BY <2>1, <2>2
<1>4. "moreTexts" \in DOMAIN Productions /\ Productions["moreTexts"] = {p, q}
  BY Words
<1>. HIDE DEF form, rest, p, q, a, b
<1>5. After(form, t) = (IF Fits("}", t) THEN {a} ELSE {}) \cup (IF Fits(",", t) THEN {b} ELSE {})
  <2>1. After(form, t) = {Tail(r) \o rest : r \in {x \in {p, q} : Fits(Head(x), t)}}
    BY <1>1, <1>4 DEF After
  <2>. QED BY <1>2, <1>3, <2>1
<1>. QED BY <1>5 DEF Fits, form, a, b

LEMMA AfterRules == \A t : After(<<"rules", "settings">>, t) =
    IF t = "[" THEN {<<"]", "settings">>, <<"rule", "moreRules", "settings">>} ELSE {}
<1>. TAKE t
<1>. DEFINE form == <<"rules", "settings">>
            rest == <<"settings">>
            p == <<"[", "]">>
            q == <<"[", "rule", "moreRules">>
            a == <<"]", "settings">>
            b == <<"rule", "moreRules", "settings">>
<1>1. form # <<>> /\ Head(form) = "rules" /\ Tail(form) = rest
  BY Parts
<1>2. Head(p) = "[" /\ Tail(p) \o rest = a
  <2>1. Head(p) = "[" /\ Tail(p) = <<"]">>
    BY Parts
  <2>2. <<"]">> \o rest = a
    BY OneAndOne
  <2>. QED BY <2>1, <2>2
<1>3. Head(q) = "[" /\ Tail(q) \o rest = b
  <2>1. Head(q) = "[" /\ Tail(q) = <<"rule", "moreRules">>
    BY Parts
  <2>2. <<"rule", "moreRules">> \o rest = b
    BY TwoAndOne
  <2>. QED BY <2>1, <2>2
<1>4. "rules" \in DOMAIN Productions /\ Productions["rules"] = {p, q}
  BY Words
<1>. HIDE DEF form, rest, p, q, a, b
<1>5. After(form, t) = (IF Fits("[", t) THEN {a} ELSE {}) \cup (IF Fits("[", t) THEN {b} ELSE {})
  <2>1. After(form, t) = {Tail(r) \o rest : r \in {x \in {p, q} : Fits(Head(x), t)}}
    BY <1>1, <1>4 DEF After
  <2>. QED BY <1>2, <1>3, <2>1
<1>. QED BY <1>5 DEF Fits, form, a, b

LEMMA AfterMoreRules == \A t : After(<<"moreRules", "settings">>, t) =
    IF t = "]" THEN {<<"settings">>}
    ELSE IF t = "," THEN {<<"rule", "moreRules", "settings">>} ELSE {}
<1>. TAKE t
<1>. DEFINE form == <<"moreRules", "settings">>
            rest == <<"settings">>
            p == <<"]">>
            q == <<",", "rule", "moreRules">>
            a == <<"settings">>
            b == <<"rule", "moreRules", "settings">>
<1>1. form # <<>> /\ Head(form) = "moreRules" /\ Tail(form) = rest
  BY Parts
<1>2. Head(p) = "]" /\ Tail(p) \o rest = a
  <2>1. Head(p) = "]" /\ Tail(p) = <<>>
    BY Parts
  <2>2. <<>> \o rest = a
    BY Empties
  <2>. QED BY <2>1, <2>2
<1>3. Head(q) = "," /\ Tail(q) \o rest = b
  <2>1. Head(q) = "," /\ Tail(q) = <<"rule", "moreRules">>
    BY Parts
  <2>2. <<"rule", "moreRules">> \o rest = b
    BY TwoAndOne
  <2>. QED BY <2>1, <2>2
<1>4. "moreRules" \in DOMAIN Productions /\ Productions["moreRules"] = {p, q}
  BY Words
<1>. HIDE DEF form, rest, p, q, a, b
<1>5. After(form, t) = (IF Fits("]", t) THEN {a} ELSE {}) \cup (IF Fits(",", t) THEN {b} ELSE {})
  <2>1. After(form, t) = {Tail(r) \o rest : r \in {x \in {p, q} : Fits(Head(x), t)}}
    BY <1>1, <1>4 DEF After
  <2>. QED BY <1>2, <1>3, <2>1
<1>. QED BY <1>5 DEF Fits, form, a, b

LEMMA AfterRule == \A t : After(<<"rule", "moreRules", "settings">>, t) =
    IF t = "{"
    THEN {<<"}", "moreRules", "settings">>, <<"member", "members", "moreRules", "settings">>}
    ELSE {}
<1>. TAKE t
<1>. DEFINE form == <<"rule", "moreRules", "settings">>
            rest == <<"moreRules", "settings">>
            p == <<"{", "}">>
            q == <<"{", "member", "members">>
            a == <<"}", "moreRules", "settings">>
            b == <<"member", "members", "moreRules", "settings">>
<1>1. form # <<>> /\ Head(form) = "rule" /\ Tail(form) = rest
  BY Parts
<1>2. Head(p) = "{" /\ Tail(p) \o rest = a
  <2>1. Head(p) = "{" /\ Tail(p) = <<"}">>
    BY Parts
  <2>2. <<"}">> \o rest = a
    BY OneAndTwo
  <2>. QED BY <2>1, <2>2
<1>3. Head(q) = "{" /\ Tail(q) \o rest = b
  <2>1. Head(q) = "{" /\ Tail(q) = <<"member", "members">>
    BY Parts
  <2>2. <<"member", "members">> \o rest = b
    BY TwoAndTwo
  <2>. QED BY <2>1, <2>2
<1>4. "rule" \in DOMAIN Productions /\ Productions["rule"] = {p, q}
  BY Words
<1>. HIDE DEF form, rest, p, q, a, b
<1>5. After(form, t) = (IF Fits("{", t) THEN {a} ELSE {}) \cup (IF Fits("{", t) THEN {b} ELSE {})
  <2>1. After(form, t) = {Tail(r) \o rest : r \in {x \in {p, q} : Fits(Head(x), t)}}
    BY <1>1, <1>4 DEF After
  <2>. QED BY <1>2, <1>3, <2>1
<1>. QED BY <1>5 DEF Fits, form, a, b

LEMMA AfterMembers == \A t : After(<<"members", "moreRules", "settings">>, t) =
    IF t = "}" THEN {<<"moreRules", "settings">>}
    ELSE IF t = "," THEN {<<"member", "members", "moreRules", "settings">>} ELSE {}
<1>. TAKE t
<1>. DEFINE form == <<"members", "moreRules", "settings">>
            rest == <<"moreRules", "settings">>
            p == <<"}">>
            q == <<",", "member", "members">>
            a == <<"moreRules", "settings">>
            b == <<"member", "members", "moreRules", "settings">>
<1>1. form # <<>> /\ Head(form) = "members" /\ Tail(form) = rest
  BY Parts
<1>2. Head(p) = "}" /\ Tail(p) \o rest = a
  <2>1. Head(p) = "}" /\ Tail(p) = <<>>
    BY Parts
  <2>2. <<>> \o rest = a
    BY Empties
  <2>. QED BY <2>1, <2>2
<1>3. Head(q) = "," /\ Tail(q) \o rest = b
  <2>1. Head(q) = "," /\ Tail(q) = <<"member", "members">>
    BY Parts
  <2>2. <<"member", "members">> \o rest = b
    BY TwoAndTwo
  <2>. QED BY <2>1, <2>2
<1>4. "members" \in DOMAIN Productions /\ Productions["members"] = {p, q}
  BY Words
<1>. HIDE DEF form, rest, p, q, a, b
<1>5. After(form, t) = (IF Fits("}", t) THEN {a} ELSE {}) \cup (IF Fits(",", t) THEN {b} ELSE {})
  <2>1. After(form, t) = {Tail(r) \o rest : r \in {x \in {p, q} : Fits(Head(x), t)}}
    BY <1>1, <1>4 DEF After
  <2>. QED BY <1>2, <1>3, <2>1
<1>. QED BY <1>5 DEF Fits, form, a, b

LEMMA AfterSetting == \A t : After(<<"setting", "settings">>, t) =
    IF t \in {"UrlRewrites", "PatchAddress"} THEN {<<":", "texts", "settings">>}
    ELSE IF t = "PortRewrites" THEN {<<":", "rules", "settings">>}
    ELSE IF t = "BypassSelfSignedCertificate" THEN {<<":", "string", "settings">>} ELSE {}
<1>. TAKE t
<1>. DEFINE form == <<"setting", "settings">>
            rest == <<"settings">>
            url == <<"UrlRewrites", ":", "texts">>
            patch == <<"PatchAddress", ":", "texts">>
            port == <<"PortRewrites", ":", "rules">>
            bypass == <<"BypassSelfSignedCertificate", ":", "string">>
            texts == <<":", "texts", "settings">>
            rules == <<":", "rules", "settings">>
            string == <<":", "string", "settings">>
<1>1. form # <<>> /\ Head(form) = "setting" /\ Tail(form) = rest
  BY Parts
<1>2. /\ Head(url) = "UrlRewrites" /\ Head(patch) = "PatchAddress"
      /\ Head(port) = "PortRewrites" /\ Head(bypass) = "BypassSelfSignedCertificate"
  BY Parts
<1>3. Tail(url) \o rest = texts /\ Tail(patch) \o rest = texts
  <2>1. Tail(url) = <<":", "texts">> /\ Tail(patch) = <<":", "texts">>
    BY Parts
  <2>. QED BY <2>1, TwoAndOne
<1>4. Tail(port) \o rest = rules /\ Tail(bypass) \o rest = string
  <2>1. Tail(port) = <<":", "rules">> /\ Tail(bypass) = <<":", "string">>
    BY Parts
  <2>2. <<":", "rules">> \o rest = rules /\ <<":", "string">> \o rest = string
    BY TwoAndOne
  <2>. QED BY <2>1, <2>2
<1>5. "setting" \in DOMAIN Productions /\ Productions["setting"] = {url, patch, port, bypass}
  BY DEF Productions
<1>. HIDE DEF form, rest, url, patch, port, bypass, texts, rules, string
<1>6. After(form, t) =
        {Tail(r) \o rest : r \in {x \in {url, patch, port, bypass} : Fits(Head(x), t)}}
  BY <1>1, <1>5 DEF After
<1>7. After(form, t) = IF t \in {"UrlRewrites", "PatchAddress"} THEN {texts}
                       ELSE IF t = "PortRewrites" THEN {rules}
                       ELSE IF t = "BypassSelfSignedCertificate" THEN {string} ELSE {}
  BY <1>2, <1>3, <1>4, <1>6 DEF Fits
<1>. QED BY <1>7 DEF form, texts, rules, string

LEMMA AfterMember == \A t : After(<<"member", "members", "moreRules", "settings">>, t) =
    IF t \in {"FromPort", "ToPort"} THEN {<<":", "number", "members", "moreRules", "settings">>}
    ELSE IF t = "ToAddr" THEN {<<":", "string", "members", "moreRules", "settings">>} ELSE {}
<1>. TAKE t
<1>. DEFINE form == <<"member", "members", "moreRules", "settings">>
            rest == <<"members", "moreRules", "settings">>
            from == <<"FromPort", ":", "number">>
            to == <<"ToPort", ":", "number">>
            addr == <<"ToAddr", ":", "string">>
            number == <<":", "number", "members", "moreRules", "settings">>
            string == <<":", "string", "members", "moreRules", "settings">>
<1>1. form # <<>> /\ Head(form) = "member" /\ Tail(form) = rest
  BY Parts
<1>2. Head(from) = "FromPort" /\ Head(to) = "ToPort" /\ Head(addr) = "ToAddr"
  BY Parts
<1>3. Tail(from) \o rest = number /\ Tail(to) \o rest = number
  <2>1. Tail(from) = <<":", "number">> /\ Tail(to) = <<":", "number">>
    BY Parts
  <2>2. <<":", "number">> \o rest = number
    BY TwoAndThree
  <2>. QED BY <2>1, <2>2
<1>4. Tail(addr) \o rest = string
  <2>1. Tail(addr) = <<":", "string">>
    BY Parts
  <2>2. <<":", "string">> \o rest = string
    BY TwoAndThree
  <2>. QED BY <2>1, <2>2
<1>5. "member" \in DOMAIN Productions /\ Productions["member"] = {from, to, addr}
  BY DEF Productions
<1>. HIDE DEF form, rest, from, to, addr, number, string
<1>6. After(form, t) = {Tail(r) \o rest : r \in {x \in {from, to, addr} : Fits(Head(x), t)}}
  BY <1>1, <1>5 DEF After
<1>7. After(form, t) = IF t \in {"FromPort", "ToPort"} THEN {number}
                       ELSE IF t = "ToAddr" THEN {string} ELSE {}
  BY <1>2, <1>3, <1>4, <1>6 DEF Fits
<1>. QED BY <1>7 DEF form, number, string

(* The forms that begin with a terminal. *)
LEMMA AfterTerminals ==
  ASSUME NEW h, NEW t, h \notin DOMAIN Productions
  PROVE  /\ After(<<h>>, t) = IF Fits(h, t) THEN {<<>>} ELSE {}
         /\ \A a : After(<<h, a>>, t) = IF Fits(h, t) THEN {<<a>>} ELSE {}
         /\ \A a, b : After(<<h, a, b>>, t) = IF Fits(h, t) THEN {<<a, b>>} ELSE {}
         /\ \A a, b, c : After(<<h, a, b, c>>, t) = IF Fits(h, t) THEN {<<a, b, c>>} ELSE {}
         /\ \A a, b, c, d : After(<<h, a, b, c, d>>, t)
                              = IF Fits(h, t) THEN {<<a, b, c, d>>} ELSE {}
<1>1. ASSUME NEW form, NEW rest, form # <<>>, Head(form) = h, Tail(form) = rest,
             <<>> \o rest = rest
      PROVE  After(form, t) = IF Fits(h, t) THEN {rest} ELSE {}
  BY <1>1, AfterTerminal
<1>2. After(<<h>>, t) = IF Fits(h, t) THEN {<<>>} ELSE {}
  <2>1. <<h>> # <<>> /\ Head(<<h>>) = h /\ Tail(<<h>>) = <<>> /\ <<>> \o <<>> = <<>>
    BY Parts, Empties
  <2>. QED BY <1>1, <2>1
<1>3. ASSUME NEW a PROVE After(<<h, a>>, t) = IF Fits(h, t) THEN {<<a>>} ELSE {}
  <2>1. /\ <<h, a>> # <<>> /\ Head(<<h, a>>) = h /\ Tail(<<h, a>>) = <<a>>
        /\ <<>> \o <<a>> = <<a>>
    BY Parts, Empties
  <2>. QED BY <1>1, <2>1
<1>4. ASSUME NEW a, NEW b PROVE After(<<h, a, b>>, t) = IF Fits(h, t) THEN {<<a, b>>} ELSE {}
  <2>1. <<h, a, b>> # <<>> /\ Head(<<h, a, b>>) = h
    OBVIOUS
  <2>2. Tail(<<h, a, b>>) = <<a, b>>
    OBVIOUS
  <2>3. <<>> \o <<a, b>> = <<a, b>>
    OBVIOUS
  <2>. QED BY <1>1, <2>1, <2>2, <2>3
<1>5. ASSUME NEW a, NEW b, NEW c
      PROVE  After(<<h, a, b, c>>, t) = IF Fits(h, t) THEN {<<a, b, c>>} ELSE {}
  <2>1. <<h, a, b, c>> # <<>> /\ Head(<<h, a, b, c>>) = h
    OBVIOUS
  <2>2. Tail(<<h, a, b, c>>) = <<a, b, c>>
    OBVIOUS
  <2>3. <<>> \o <<a, b, c>> = <<a, b, c>>
    OBVIOUS
  <2>. QED BY <1>1, <2>1, <2>2, <2>3
<1>6. ASSUME NEW a, NEW b, NEW c, NEW d
      PROVE  After(<<h, a, b, c, d>>, t) = IF Fits(h, t) THEN {<<a, b, c, d>>} ELSE {}
  <2>1. <<h, a, b, c, d>> # <<>> /\ Head(<<h, a, b, c, d>>) = h
    OBVIOUS
  <2>2. Tail(<<h, a, b, c, d>>) = <<a, b, c, d>>
    OBVIOUS
  <2>3. <<>> \o <<a, b, c, d>> = <<a, b, c, d>>
    OBVIOUS
  <2>. QED BY <1>1, <2>1, <2>2, <2>3
<1>. QED BY <1>2, <1>3, <1>4, <1>5, <1>6

(* What may be left of a file: of its settings, ... *)
ConfigOpen    == <<"config">>
ConfigEnd     == <<"}">>
ConfigSetting == <<"setting", "settings">>
ConfigTexts   == <<":", "texts", "settings">>
ConfigRules   == <<":", "rules", "settings">>
ConfigFlag    == <<":", "string", "settings">>
ConfigString  == <<"string", "settings">>
ConfigSep     == <<"settings">>
(* ... of the texts of one, with the settings after it, ... *)
TextsOpen     == <<"texts", "settings">>
TextsEnd      == <<"}", "settings">>
TextsKey      == <<"string", ":", "string", "moreTexts", "settings">>
TextsColon    == <<":", "string", "moreTexts", "settings">>
TextsString   == <<"string", "moreTexts", "settings">>
TextsSep      == <<"moreTexts", "settings">>
(* ... of the rules of one, ... *)
RulesOpen     == <<"rules", "settings">>
RulesEnd      == <<"]", "settings">>
RulesRule     == <<"rule", "moreRules", "settings">>
RulesSep      == <<"moreRules", "settings">>
(* ... and of one rule, with the rules after it. *)
RuleEnd       == <<"}", "moreRules", "settings">>
RuleMember    == <<"member", "members", "moreRules", "settings">>
RulePort      == <<":", "number", "members", "moreRules", "settings">>
RuleAddr      == <<":", "string", "members", "moreRules", "settings">>
RuleNumber    == <<"number", "members", "moreRules", "settings">>
RuleString    == <<"string", "members", "moreRules", "settings">>
RuleSep       == <<"members", "moreRules", "settings">>

LEMMA Terminals ==
  /\ \A h \in {"}", "]", ":", "string", "number"} : h \notin DOMAIN Productions
  /\ \A h \in {"}", "]", ":", "number"}, t \in Tokens \cup {EOF} : Fits(h, t) <=> t = h
  /\ \A t \in Tokens \cup {EOF} : Fits("string", t) <=> t \in Strings
<1>1. "string" \notin Tokens \cup {EOF}
  BY DEF Tokens, Strings, ConfigKeys, PortKeys, EOF
<1>. QED BY <1>1, Words DEF Fits

LEMMA AfterConfigs ==
  ASSUME NEW t \in Tokens \cup {EOF}
  PROVE  /\ After(ConfigOpen, t) = IF t = "{" THEN {ConfigEnd, ConfigSetting} ELSE {}
         /\ After(ConfigEnd, t) = IF t = "}" THEN {<<>>} ELSE {}
         /\ After(ConfigSetting, t) =
              IF t \in {"UrlRewrites", "PatchAddress"} THEN {ConfigTexts}
              ELSE IF t = "PortRewrites" THEN {ConfigRules}
              ELSE IF t = "BypassSelfSignedCertificate" THEN {ConfigFlag} ELSE {}
         /\ After(ConfigTexts, t) = IF t = ":" THEN {TextsOpen} ELSE {}
         /\ After(ConfigRules, t) = IF t = ":" THEN {RulesOpen} ELSE {}
         /\ After(ConfigFlag, t) = IF t = ":" THEN {ConfigString} ELSE {}
         /\ After(ConfigString, t) = IF t \in Strings THEN {ConfigSep} ELSE {}
         /\ After(ConfigSep, t) = IF t = "}" THEN {<<>>}
                                  ELSE IF t = "," THEN {ConfigSetting} ELSE {}
<1>1. After(ConfigOpen, t) = IF t = "{" THEN {ConfigEnd, ConfigSetting} ELSE {}
  BY AfterConfig DEF ConfigOpen, ConfigEnd, ConfigSetting
<1>2. After(ConfigEnd, t) = IF t = "}" THEN {<<>>} ELSE {}
  <2>1. After(<<"}">>, t) = IF Fits("}", t) THEN {<<>>} ELSE {}
    BY Terminals, AfterTerminals
  <2>. QED BY <2>1, Terminals DEF ConfigEnd
<1>3. After(ConfigSetting, t) =
        IF t \in {"UrlRewrites", "PatchAddress"} THEN {ConfigTexts}
        ELSE IF t = "PortRewrites" THEN {ConfigRules}
        ELSE IF t = "BypassSelfSignedCertificate" THEN {ConfigFlag} ELSE {}
  BY AfterSetting DEF ConfigSetting, ConfigTexts, ConfigRules, ConfigFlag
<1>4. After(ConfigTexts, t) = IF t = ":" THEN {TextsOpen} ELSE {}
  <2>1. After(<<":", "texts", "settings">>, t)
          = IF Fits(":", t) THEN {<<"texts", "settings">>} ELSE {}
    BY Terminals, AfterTerminals
  <2>. QED BY <2>1, Terminals DEF ConfigTexts, TextsOpen
<1>5. After(ConfigRules, t) = IF t = ":" THEN {RulesOpen} ELSE {}
  <2>1. After(<<":", "rules", "settings">>, t)
          = IF Fits(":", t) THEN {<<"rules", "settings">>} ELSE {}
    BY Terminals, AfterTerminals
  <2>. QED BY <2>1, Terminals DEF ConfigRules, RulesOpen
<1>6. After(ConfigFlag, t) = IF t = ":" THEN {ConfigString} ELSE {}
  <2>1. After(<<":", "string", "settings">>, t)
          = IF Fits(":", t) THEN {<<"string", "settings">>} ELSE {}
    BY Terminals, AfterTerminals
  <2>. QED BY <2>1, Terminals DEF ConfigFlag, ConfigString
<1>7. After(ConfigString, t) = IF t \in Strings THEN {ConfigSep} ELSE {}
  <2>1. After(<<"string", "settings">>, t) = IF Fits("string", t) THEN {<<"settings">>} ELSE {}
    BY Terminals, AfterTerminals
  <2>. QED BY <2>1, Terminals DEF ConfigString, ConfigSep
<1>8. After(ConfigSep, t) = IF t = "}" THEN {<<>>} ELSE IF t = "," THEN {ConfigSetting} ELSE {}
  BY AfterSettings DEF ConfigSep, ConfigSetting
<1>. QED BY <1>1, <1>2, <1>3, <1>4, <1>5, <1>6, <1>7, <1>8

LEMMA AfterTextsOf ==
  ASSUME NEW t \in Tokens \cup {EOF}
  PROVE  /\ After(TextsOpen, t) = IF t = "{" THEN {TextsEnd, TextsKey} ELSE {}
         /\ After(TextsEnd, t) = IF t = "}" THEN {ConfigSep} ELSE {}
         /\ After(TextsKey, t) = IF t \in Strings THEN {TextsColon} ELSE {}
         /\ After(TextsColon, t) = IF t = ":" THEN {TextsString} ELSE {}
         /\ After(TextsString, t) = IF t \in Strings THEN {TextsSep} ELSE {}
         /\ After(TextsSep, t) = IF t = "}" THEN {ConfigSep} ELSE IF t = "," THEN {TextsKey} ELSE {}
<1>1. After(TextsOpen, t) = IF t = "{" THEN {TextsEnd, TextsKey} ELSE {}
  BY AfterTexts DEF TextsOpen, TextsEnd, TextsKey
<1>2. After(TextsEnd, t) = IF t = "}" THEN {ConfigSep} ELSE {}
  <2>1. After(<<"}", "settings">>, t)
          = IF Fits("}", t) THEN {<<"settings">>} ELSE {}
    BY Terminals, AfterTerminals
  <2>. QED BY <2>1, Terminals DEF TextsEnd, ConfigSep
<1>3. After(TextsKey, t) = IF t \in Strings THEN {TextsColon} ELSE {}
  <2>1. After(<<"string", ":", "string", "moreTexts", "settings">>, t)
          = IF Fits("string", t) THEN {<<":", "string", "moreTexts", "settings">>} ELSE {}
    BY Terminals, AfterTerminals
  <2>. QED BY <2>1, Terminals DEF TextsKey, TextsColon
<1>4. After(TextsColon, t) = IF t = ":" THEN {TextsString} ELSE {}
  <2>1. After(<<":", "string", "moreTexts", "settings">>, t)
          = IF Fits(":", t) THEN {<<"string", "moreTexts", "settings">>} ELSE {}
    BY Terminals, AfterTerminals
  <2>. QED BY <2>1, Terminals DEF TextsColon, TextsString
<1>5. After(TextsString, t) = IF t \in Strings THEN {TextsSep} ELSE {}
  <2>1. After(<<"string", "moreTexts", "settings">>, t)
          = IF Fits("string", t) THEN {<<"moreTexts", "settings">>} ELSE {}
    BY Terminals, AfterTerminals
  <2>. QED BY <2>1, Terminals DEF TextsString, TextsSep
<1>6. After(TextsSep, t) = IF t = "}" THEN {ConfigSep} ELSE IF t = "," THEN {TextsKey} ELSE {}
  BY AfterMoreTexts DEF TextsSep, ConfigSep, TextsKey
<1>. QED BY <1>1, <1>2, <1>3, <1>4, <1>5, <1>6

LEMMA AfterRulesOf ==
  ASSUME NEW t \in Tokens \cup {EOF}
  PROVE  /\ After(RulesOpen, t) = IF t = "[" THEN {RulesEnd, RulesRule} ELSE {}
         /\ After(RulesEnd, t) = IF t = "]" THEN {ConfigSep} ELSE {}
         /\ After(RulesRule, t) = IF t = "{" THEN {RuleEnd, RuleMember} ELSE {}
         /\ After(RulesSep, t) =
              IF t = "]" THEN {ConfigSep}
              ELSE IF t = "," THEN {RulesRule} ELSE {}
<1>1. After(RulesOpen, t) = IF t = "[" THEN {RulesEnd, RulesRule} ELSE {}
  BY AfterRules DEF RulesOpen, RulesEnd, RulesRule
<1>2. After(RulesEnd, t) = IF t = "]" THEN {ConfigSep} ELSE {}
  <2>1. After(<<"]", "settings">>, t)
          = IF Fits("]", t) THEN {<<"settings">>} ELSE {}
    BY Terminals, AfterTerminals
  <2>. QED BY <2>1, Terminals DEF RulesEnd, ConfigSep
<1>3. After(RulesRule, t) = IF t = "{" THEN {RuleEnd, RuleMember} ELSE {}
  BY AfterRule DEF RulesRule, RuleEnd, RuleMember
<1>4. After(RulesSep, t) = IF t = "]" THEN {ConfigSep} ELSE IF t = "," THEN {RulesRule} ELSE {}
  BY AfterMoreRules DEF RulesSep, ConfigSep, RulesRule
<1>. QED BY <1>1, <1>2, <1>3, <1>4

LEMMA AfterRuleOf ==
  ASSUME NEW t \in Tokens \cup {EOF}
  PROVE  /\ After(RuleEnd, t) = IF t = "}" THEN {RulesSep} ELSE {}
         /\ After(RuleMember, t) =
              IF t \in {"FromPort", "ToPort"} THEN {RulePort}
              ELSE IF t = "ToAddr" THEN {RuleAddr} ELSE {}
         /\ After(RulePort, t) = IF t = ":" THEN {RuleNumber} ELSE {}
         /\ After(RuleAddr, t) = IF t = ":" THEN {RuleString} ELSE {}
         /\ After(RuleNumber, t) = IF t = "number" THEN {RuleSep} ELSE {}
         /\ After(RuleString, t) = IF t \in Strings THEN {RuleSep} ELSE {}
         /\ After(RuleSep, t) = IF t = "}" THEN {RulesSep} ELSE IF t = "," THEN {RuleMember} ELSE {}
<1>1. After(RuleEnd, t) = IF t = "}" THEN {RulesSep} ELSE {}
  <2>1. After(<<"}", "moreRules", "settings">>, t)
          = IF Fits("}", t) THEN {<<"moreRules", "settings">>} ELSE {}
    BY Terminals, AfterTerminals
  <2>. QED BY <2>1, Terminals DEF RuleEnd, RulesSep
<1>2. After(RuleMember, t) =
        IF t \in {"FromPort", "ToPort"} THEN {RulePort}
        ELSE IF t = "ToAddr" THEN {RuleAddr} ELSE {}
  BY AfterMember DEF RuleMember, RulePort, RuleAddr
<1>3. After(RulePort, t) = IF t = ":" THEN {RuleNumber} ELSE {}
  <2>1. After(<<":", "number", "members", "moreRules", "settings">>, t)
          = IF Fits(":", t) THEN {<<"number", "members", "moreRules", "settings">>} ELSE {}
    BY Terminals, AfterTerminals
  <2>. QED BY <2>1, Terminals DEF RulePort, RuleNumber
<1>4. After(RuleAddr, t) = IF t = ":" THEN {RuleString} ELSE {}
  <2>1. After(<<":", "string", "members", "moreRules", "settings">>, t)
          = IF Fits(":", t) THEN {<<"string", "members", "moreRules", "settings">>} ELSE {}
    BY Terminals, AfterTerminals
  <2>. QED BY <2>1, Terminals DEF RuleAddr, RuleString
<1>5. After(RuleNumber, t) = IF t = "number" THEN {RuleSep} ELSE {}
  <2>1. After(<<"number", "members", "moreRules", "settings">>, t)
          = IF Fits("number", t) THEN {<<"members", "moreRules", "settings">>} ELSE {}
    BY Terminals, AfterTerminals
  <2>. QED BY <2>1, Terminals DEF RuleNumber, RuleSep
<1>6. After(RuleString, t) = IF t \in Strings THEN {RuleSep} ELSE {}
  <2>1. After(<<"string", "members", "moreRules", "settings">>, t)
          = IF Fits("string", t) THEN {<<"members", "moreRules", "settings">>} ELSE {}
    BY Terminals, AfterTerminals
  <2>. QED BY <2>1, Terminals DEF RuleString, RuleSep
<1>7. After(RuleSep, t) = IF t = "}" THEN {RulesSep} ELSE IF t = "," THEN {RuleMember} ELSE {}
  BY AfterMembers DEF RuleSep, RulesSep, RuleMember
<1>. QED BY <1>1, <1>2, <1>3, <1>4, <1>5, <1>6, <1>7

-----------------------------------------------------------------------------
(* A call of the parser and what is left of the file *)

Keys == Strings \cup {"none"}
FrameOK(f) ==
  /\ f \in [of : {"config", "url", "patch", "ports", "port"},
            want : {"open", "rule", "key", "colon", "string", "number", "sep"}, key : Keys]
  /\ f.want = "rule" => f.of = "ports"
  /\ f.of = "ports" => f.want \in {"open", "rule", "sep"}
  /\ f.want = "number" => f.of = "port"

Takes(f, t) ==
  \/ f.want = "open" /\ t = Opener(f.of)
  \/ f.want \in {"key", "string"} /\ t \in Strings
  \/ f.want = "colon" /\ t = ":"
  \/ f.want = "number" /\ t = "number"
  \/ f.want = "sep" /\ t \in {",", Closer(f.of)}

(* The list in which the list of a call is. *)
Around(list) == IF list = "port" THEN "ports" ELSE "config"

(* A call that wants f takes t, and g is what is wanted next. *)
SameList(f, t, g) ==
  /\ g.of = f.of
  /\ \/ f.want = "open" /\ t = Opener(f.of) /\ g.want = IF f.of = "ports" THEN "rule" ELSE "key"
     \/ f.want = "key" /\ t \in Strings /\ g.want = "colon" /\ g.key = t
     \/ f.want = "colon" /\ t = ":" /\ f.of \in {"url", "patch"} /\ g.want = "string"
     \/ /\ f.want = "colon" /\ t = ":" /\ f.of = "config" /\ g.want = "string"
        /\ f.key = "BypassSelfSignedCertificate"
     \/ /\ f.want = "colon" /\ t = ":" /\ f.of = "port" /\ g.want = "number"
        /\ f.key \in {"FromPort", "ToPort"}
     \/ f.want = "colon" /\ t = ":" /\ f.of = "port" /\ g.want = "string" /\ f.key = "ToAddr"
     \/ f.want = "string" /\ t \in Strings /\ g.want = "sep"
     \/ f.want = "number" /\ t = "number" /\ f.of = "port" /\ g.want = "sep"
     \/ f.want = "sep" /\ t = "," /\ g.want = IF f.of = "ports" THEN "rule" ELSE "key"
ListOpens(f, t, g) ==
  /\ f.want = "colon" /\ t = ":" /\ f.of = "config" /\ g.want = "open"
  /\ \/ f.key = "UrlRewrites" /\ g.of = "url"
     \/ f.key = "PatchAddress" /\ g.of = "patch"
     \/ f.key = "PortRewrites" /\ g.of = "ports"
ListCloses(f, t, g) ==
  f.want = "sep" /\ t = Closer(f.of) /\ f.of # "config" /\ g.of = Around(f.of) /\ g.want = "sep"
Moved(f, t, g) == SameList(f, t, g) \/ ListOpens(f, t, g) \/ ListCloses(f, t, g)

(* What the grammar allows, by what the innermost call wants. *)
ConfigExpects(f, e) ==
  /\ f.want = "open" => e = {ConfigOpen}
  /\ f.want = "key" => e = {ConfigSetting} \/ e = {ConfigEnd, ConfigSetting}
  /\ f.want = "colon" =>
       e = IF f.key \in {"UrlRewrites", "PatchAddress"} THEN {ConfigTexts}
           ELSE IF f.key = "PortRewrites" THEN {ConfigRules}
           ELSE IF f.key = "BypassSelfSignedCertificate" THEN {ConfigFlag} ELSE {}
  /\ f.want = "string" => e = {ConfigString}
  /\ f.want = "sep" => e = {ConfigSep}
TextsExpect(f, e) ==
  /\ f.want = "open" => e = {TextsOpen}
  /\ f.want = "key" => e = {TextsKey} \/ e = {TextsEnd, TextsKey}
  /\ f.want = "colon" => e = {TextsColon}
  /\ f.want = "string" => e = {TextsString}
  /\ f.want = "sep" => e = {TextsSep}
RulesExpect(f, e) ==
  /\ f.want = "open" => e = {RulesOpen}
  /\ f.want = "rule" => e = {RulesRule} \/ e = {RulesEnd, RulesRule}
  /\ f.want = "sep" => e = {RulesSep}
RuleExpects(f, e) ==
  /\ f.want = "open" => e = {RulesRule} \/ e = {RulesEnd, RulesRule}
  /\ f.want = "key" => e = {RuleMember} \/ e = {RuleEnd, RuleMember}
  /\ f.want = "colon" =>
       e = IF f.key \in {"FromPort", "ToPort"} THEN {RulePort}
           ELSE IF f.key = "ToAddr" THEN {RuleAddr} ELSE {}
  /\ f.want = "number" => e = {RuleNumber}
  /\ f.want = "string" => e = {RuleString}
  /\ f.want = "sep" => e = {RuleSep}
Expects(f, e) ==
  /\ f.of = "config" => ConfigExpects(f, e)
  /\ f.of \in {"url", "patch"} => TextsExpect(f, e)
  /\ f.of = "ports" => RulesExpect(f, e)
  /\ f.of = "port" => RuleExpects(f, e)

LEMMA Marks ==
  /\ {"{", "}", "[", "]", ",", ":", "number", EOF} \cap Strings = {}
  /\ ConfigKeys \subseteq Strings /\ PortKeys \subseteq Strings
BY DEF Strings, ConfigKeys, PortKeys, EOF

LEMMA DeriveNothing == \A e, t : (\A form \in e : After(form, t) = {}) => Derive(e, t) = {}
BY DEF Derive

LEMMA DeriveOnly == \A e, s, t : s \in e /\ (\A form \in e : form = s \/ After(form, t) = {})
                                   => Derive(e, t) = After(s, t)
BY DEF Derive

(* A token that is not taken is one no documented file goes on with, unless *)
(* it ends a list at its first element.                                     *)
LEMMA RefusalRight ==
  ASSUME NEW f, FrameOK(f), NEW e, Expects(f, e), NEW t \in Tokens \cup {EOF},
         ~Takes(f, t), f.want # "rule", ~(f.want \in {"key", "open"} /\ t \in {"}", "]"})
  PROVE  Derive(e, t) = {}
<1>. SUFFICES ASSUME NEW form \in e PROVE After(form, t) = {}
  BY DeriveNothing
<1>1. f.of \in {"config", "url", "patch", "ports", "port"}
  BY DEF FrameOK
<1>2. f.want \in {"open", "key", "colon", "string", "number", "sep"}
  BY DEF FrameOK
<1>3. CASE f.of = "config"
  <2>1. CASE f.want = "open"
    BY <1>3, <2>1, AfterConfigs DEF Expects, ConfigExpects, Takes, Opener
  <2>2. CASE f.want = "key"
    <3>1. form \in {ConfigSetting, ConfigEnd}
      <4>1. e = {ConfigSetting} \/ e = {ConfigEnd, ConfigSetting}
        BY <1>3, <2>2 DEF Expects, ConfigExpects
      <4>2. CASE e = {ConfigSetting}
        BY <4>2
      <4>3. CASE e = {ConfigEnd, ConfigSetting}
        BY <4>3
      <4>. QED BY <4>1, <4>2, <4>3
    <3>2. t # "}" /\ t \notin ConfigKeys
      BY <2>2, Marks DEF Takes
    <3>. QED BY <3>1, <3>2, AfterConfigs DEF ConfigKeys
  <2>3. CASE f.want = "colon"
    <3>1. form \in {ConfigTexts, ConfigRules, ConfigFlag}
      BY <1>3, <2>3 DEF Expects, ConfigExpects
    <3>. QED BY <2>3, <3>1, AfterConfigs DEF Takes
  <2>4. CASE f.want = "string"
    <3>1. form = ConfigString /\ t \notin Strings
      BY <1>3, <2>4 DEF Expects, ConfigExpects, Takes
    <3>. QED BY <3>1, AfterConfigs
  <2>5. CASE f.want = "sep"
    <3>1. form = ConfigSep /\ t \notin {",", "}"}
      BY <1>3, <2>5 DEF Expects, ConfigExpects, Takes, Closer
    <3>. QED BY <3>1, AfterConfigs
  <2>. QED BY <1>2, <1>3, <2>1, <2>2, <2>3, <2>4, <2>5 DEF FrameOK
<1>4. CASE f.of \in {"url", "patch"}
  <2>1. CASE f.want = "open"
    BY <1>4, <2>1, AfterTextsOf DEF Expects, TextsExpect, Takes, Opener
  <2>2. CASE f.want = "key"
    BY <1>4, <2>2, AfterTextsOf DEF Expects, TextsExpect, Takes
  <2>3. CASE f.want = "colon"
    BY <1>4, <2>3, AfterTextsOf DEF Expects, TextsExpect, Takes
  <2>4. CASE f.want = "string"
    BY <1>4, <2>4, AfterTextsOf DEF Expects, TextsExpect, Takes
  <2>5. CASE f.want = "sep"
    BY <1>4, <2>5, AfterTextsOf DEF Expects, TextsExpect, Takes, Closer
  <2>. QED BY <1>2, <1>4, <2>1, <2>2, <2>3, <2>4, <2>5 DEF FrameOK
<1>5. CASE f.of = "ports"
  <2>1. CASE f.want = "open"
    BY <1>5, <2>1, AfterRulesOf DEF Expects, RulesExpect, Takes, Opener
  <2>2. CASE f.want = "sep"
    BY <1>5, <2>2, AfterRulesOf DEF Expects, RulesExpect, Takes, Closer
  <2>. QED BY <1>2, <1>5, <2>1, <2>2 DEF FrameOK
<1>6. CASE f.of = "port"
  <2>1. CASE f.want = "open"
    BY <1>6, <2>1, AfterRulesOf DEF Expects, RuleExpects, Takes, Opener
  <2>2. CASE f.want = "key"
    <3>1. form \in {RuleMember, RuleEnd}
      <4>1. e = {RuleMember} \/ e = {RuleEnd, RuleMember}
        BY <1>6, <2>2 DEF Expects, RuleExpects
      <4>2. CASE e = {RuleMember}
        BY <4>2
      <4>3. CASE e = {RuleEnd, RuleMember}
        BY <4>3
      <4>. QED BY <4>1, <4>2, <4>3
    <3>2. t # "}" /\ t \notin PortKeys
      BY <2>2, Marks DEF Takes
    <3>. QED BY <3>1, <3>2, AfterRuleOf DEF PortKeys
  <2>3. CASE f.want = "colon"
    <3>1. form \in {RulePort, RuleAddr} /\ t # ":"
      BY <1>6, <2>3 DEF Expects, RuleExpects, Takes
    <3>. QED BY <3>1, AfterRuleOf
  <2>4. CASE f.want = "string"
    BY <1>6, <2>4, AfterRuleOf DEF Expects, RuleExpects, Takes
  <2>5. CASE f.want = "number"
    BY <1>6, <2>5, AfterRuleOf DEF Expects, RuleExpects, Takes
  <2>6. CASE f.want = "sep"
    <3>1. form = RuleSep /\ t \notin {",", "}"}
      BY <1>6, <2>6 DEF Expects, RuleExpects, Takes, Closer
    <3>. QED BY <3>1, AfterRuleOf
  <2>. QED BY <1>2, <1>6, <2>1, <2>2, <2>3, <2>4, <2>5, <2>6
<1>. QED BY <1>1, <1>3, <1>4, <1>5, <1>6

(* What is allowed after a token that is taken is what the next call wants. *)
LEMMA ConfigMoves ==
  ASSUME NEW f, NEW e, ConfigExpects(f, e), NEW t \in Tokens \cup {EOF}, NEW g,
         f.of = "config", SameList(f, t, g)
  PROVE  ConfigExpects(g, Derive(e, t))
<1>1. CASE f.want = "open"
  <2>1. Derive(e, t) = After(ConfigOpen, t)
    BY <1>1, DeriveOne DEF ConfigExpects
  <2>2. t = "{" /\ g.want = "key"
    BY <1>1 DEF SameList, Opener
  <2>. QED BY <2>1, <2>2, AfterConfigs DEF ConfigExpects
<1>2. CASE f.want = "key"
  <2>1. t \in Strings /\ t # "}" /\ g.want = "colon" /\ g.key = t
    BY <1>2, Marks DEF SameList
  <2>2. ConfigSetting \in e /\ \A form \in e : form = ConfigSetting \/ After(form, t) = {}
    BY <1>2, <2>1, AfterConfigs DEF ConfigExpects
  <2>3. Derive(e, t) = After(ConfigSetting, t)
    BY <2>2, DeriveOnly
  <2>. QED BY <2>1, <2>3, AfterConfigs DEF ConfigExpects
<1>3. CASE f.want = "colon"
  <2>1. t = ":" /\ g.want = "string" /\ f.key = "BypassSelfSignedCertificate"
    BY <1>3 DEF SameList
  <2>2. Derive(e, t) = After(ConfigFlag, t)
    BY <1>3, <2>1, DeriveOne DEF ConfigExpects
  <2>. QED BY <2>1, <2>2, AfterConfigs DEF ConfigExpects
<1>4. CASE f.want = "string"
  <2>1. t \in Strings /\ g.want = "sep"
    BY <1>4 DEF SameList
  <2>2. Derive(e, t) = After(ConfigString, t)
    BY <1>4, DeriveOne DEF ConfigExpects
  <2>. QED BY <2>1, <2>2, AfterConfigs DEF ConfigExpects
<1>5. CASE f.want = "sep"
  <2>1. t = "," /\ g.want = "key"
    BY <1>5 DEF SameList
  <2>2. Derive(e, t) = After(ConfigSep, t)
    BY <1>5, DeriveOne DEF ConfigExpects
  <2>. QED BY <2>1, <2>2, AfterConfigs DEF ConfigExpects
<1>. QED BY <1>1, <1>2, <1>3, <1>4, <1>5 DEF SameList

LEMMA TextsMove ==
  ASSUME NEW f, NEW e, TextsExpect(f, e), NEW t \in Tokens \cup {EOF}, NEW g,
         f.of \in {"url", "patch"}, SameList(f, t, g)
  PROVE  TextsExpect(g, Derive(e, t))
<1>1. CASE f.want = "open"
  <2>1. Derive(e, t) = After(TextsOpen, t)
    BY <1>1, DeriveOne DEF TextsExpect
  <2>2. t = "{" /\ g.want = "key"
    BY <1>1 DEF SameList, Opener
  <2>. QED BY <2>1, <2>2, AfterTextsOf DEF TextsExpect
<1>2. CASE f.want = "key"
  <2>1. t \in Strings /\ t # "}" /\ g.want = "colon"
    BY <1>2, Marks DEF SameList
  <2>2. TextsKey \in e /\ \A form \in e : form = TextsKey \/ After(form, t) = {}
    BY <1>2, <2>1, AfterTextsOf DEF TextsExpect
  <2>3. Derive(e, t) = After(TextsKey, t)
    BY <2>2, DeriveOnly
  <2>. QED BY <2>1, <2>3, AfterTextsOf DEF TextsExpect
<1>3. CASE f.want = "colon"
  <2>1. t = ":" /\ g.want = "string"
    BY <1>3 DEF SameList
  <2>2. Derive(e, t) = After(TextsColon, t)
    BY <1>3, DeriveOne DEF TextsExpect
  <2>. QED BY <2>1, <2>2, AfterTextsOf DEF TextsExpect
<1>4. CASE f.want = "string"
  <2>1. t \in Strings /\ g.want = "sep"
    BY <1>4 DEF SameList
  <2>2. Derive(e, t) = After(TextsString, t)
    BY <1>4, DeriveOne DEF TextsExpect
  <2>. QED BY <2>1, <2>2, AfterTextsOf DEF TextsExpect
<1>5. CASE f.want = "sep"
  <2>1. t = "," /\ g.want = "key"
    BY <1>5 DEF SameList
  <2>2. Derive(e, t) = After(TextsSep, t)
    BY <1>5, DeriveOne DEF TextsExpect
  <2>. QED BY <2>1, <2>2, AfterTextsOf DEF TextsExpect
<1>. QED BY <1>1, <1>2, <1>3, <1>4, <1>5 DEF SameList

LEMMA RulesMove ==
  ASSUME NEW f, NEW e, RulesExpect(f, e), NEW t \in Tokens \cup {EOF}, NEW g,
         f.of = "ports", f.want \in {"open", "sep"}, SameList(f, t, g)
  PROVE  RulesExpect(g, Derive(e, t))
<1>1. CASE f.want = "open"
  <2>1. Derive(e, t) = After(RulesOpen, t)
    BY <1>1, DeriveOne DEF RulesExpect
  <2>2. t = "[" /\ g.want = "rule"
    BY <1>1 DEF SameList, Opener
  <2>. QED BY <2>1, <2>2, AfterRulesOf DEF RulesExpect
<1>2. CASE f.want = "sep"
  <2>1. t = "," /\ g.want = "rule"
    BY <1>2 DEF SameList
  <2>2. Derive(e, t) = After(RulesSep, t)
    BY <1>2, DeriveOne DEF RulesExpect
  <2>. QED BY <2>1, <2>2, AfterRulesOf DEF RulesExpect
<1>. QED BY <1>1, <1>2

LEMMA RuleMoves ==
  ASSUME NEW f, NEW e, RuleExpects(f, e), NEW t \in Tokens \cup {EOF}, NEW g,
         f.of = "port", SameList(f, t, g)
  PROVE  RuleExpects(g, Derive(e, t))
<1>1. CASE f.want = "open"
  <2>1. t = "{" /\ g.want = "key"
    BY <1>1 DEF SameList, Opener
  <2>2. RulesRule \in e /\ \A form \in e : form = RulesRule \/ After(form, t) = {}
    BY <1>1, <2>1, AfterRulesOf DEF RuleExpects
  <2>3. Derive(e, t) = After(RulesRule, t)
    BY <2>2, DeriveOnly
  <2>. QED BY <2>1, <2>3, AfterRulesOf DEF RuleExpects
<1>2. CASE f.want = "key"
  <2>1. t \in Strings /\ t # "}" /\ g.want = "colon" /\ g.key = t
    BY <1>2, Marks DEF SameList
  <2>2. RuleMember \in e /\ \A form \in e : form = RuleMember \/ After(form, t) = {}
    BY <1>2, <2>1, AfterRuleOf DEF RuleExpects
  <2>3. Derive(e, t) = After(RuleMember, t)
    BY <2>2, DeriveOnly
  <2>. QED BY <2>1, <2>3, AfterRuleOf DEF RuleExpects
<1>3. CASE f.want = "colon" /\ f.key \in {"FromPort", "ToPort"}
  <2>1. t = ":" /\ g.want = "number"
    BY <1>3 DEF SameList
  <2>2. Derive(e, t) = After(RulePort, t)
    BY <1>3, DeriveOne DEF RuleExpects
  <2>. QED BY <2>1, <2>2, AfterRuleOf DEF RuleExpects
<1>4. CASE f.want = "colon" /\ f.key \notin {"FromPort", "ToPort"}
  <2>1. t = ":" /\ g.want = "string" /\ f.key = "ToAddr"
    BY <1>4 DEF SameList
  <2>2. Derive(e, t) = After(RuleAddr, t)
    BY <1>4, <2>1, DeriveOne DEF RuleExpects
  <2>. QED BY <2>1, <2>2, AfterRuleOf DEF RuleExpects
<1>5. CASE f.want = "number"
  <2>1. t = "number" /\ g.want = "sep"
    BY <1>5 DEF SameList
  <2>2. Derive(e, t) = After(RuleNumber, t)
    BY <1>5, DeriveOne DEF RuleExpects
  <2>. QED BY <2>1, <2>2, AfterRuleOf DEF RuleExpects
<1>6. CASE f.want = "string"
  <2>1. t \in Strings /\ g.want = "sep"
    BY <1>6 DEF SameList
  <2>2. Derive(e, t) = After(RuleString, t)
    BY <1>6, DeriveOne DEF RuleExpects
  <2>. QED BY <2>1, <2>2, AfterRuleOf DEF RuleExpects
<1>7. CASE f.want = "sep"
  <2>1. t = "," /\ g.want = "key"
    BY <1>7 DEF SameList
  <2>2. Derive(e, t) = After(RuleSep, t)
    BY <1>7, DeriveOne DEF RuleExpects
  <2>. QED BY <2>1, <2>2, AfterRuleOf DEF RuleExpects
<1>. QED BY <1>1, <1>2, <1>3, <1>4, <1>5, <1>6, <1>7 DEF SameList

LEMMA MovedExpects ==
  ASSUME NEW f, FrameOK(f), NEW e, Expects(f, e), NEW t \in Tokens \cup {EOF}, NEW g,
         f.want # "rule", Moved(f, t, g)
  PROVE  Expects(g, Derive(e, t))
<1>1. f.of \in {"config", "url", "patch", "ports", "port"}
  BY DEF FrameOK
<1>2. CASE SameList(f, t, g)
  <2>1. CASE f.of = "config"
    BY <1>2, <2>1, ConfigMoves DEF Expects, SameList
  <2>2. CASE f.of \in {"url", "patch"}
    <3>1. TextsExpect(f, e) /\ g.of \in {"url", "patch"}
      BY <1>2, <2>2 DEF Expects, SameList
    <3>2. TextsExpect(g, Derive(e, t))
      BY <1>2, <2>2, <3>1, TextsMove
    <3>. QED BY <3>1, <3>2 DEF Expects
  <2>3. CASE f.of = "ports"
    <3>1. f.want \in {"open", "sep"}
      BY <2>3 DEF FrameOK
    <3>. QED BY <1>2, <2>3, <3>1, RulesMove DEF Expects, SameList
  <2>4. CASE f.of = "port"
    BY <1>2, <2>4, RuleMoves DEF Expects, SameList
  <2>. QED BY <1>1, <2>1, <2>2, <2>3, <2>4
<1>3. CASE ListOpens(f, t, g)
  <2>1. t = ":" /\ f.want = "colon" /\ g.want = "open" /\ ConfigExpects(f, e)
    BY <1>3 DEF ListOpens, Expects
  <2>2. CASE f.key \in {"UrlRewrites", "PatchAddress"}
    <3>1. g.of \in {"url", "patch"}
      BY <1>3, <2>2 DEF ListOpens
    <3>2. Derive(e, t) = After(ConfigTexts, t)
      BY <2>1, <2>2, DeriveOne DEF ConfigExpects
    <3>3. Derive(e, t) = {TextsOpen}
      BY <2>1, <3>2, AfterConfigs
    <3>. QED BY <2>1, <3>1, <3>3 DEF Expects, TextsExpect
  <2>3. CASE f.key = "PortRewrites"
    <3>1. g.of = "ports"
      BY <1>3, <2>3 DEF ListOpens
    <3>2. Derive(e, t) = After(ConfigRules, t)
      BY <2>1, <2>3, DeriveOne DEF ConfigExpects
    <3>3. Derive(e, t) = {RulesOpen}
      BY <2>1, <3>2, AfterConfigs
    <3>. QED BY <2>1, <3>1, <3>3 DEF Expects, RulesExpect
  <2>. QED BY <1>3, <2>2, <2>3 DEF ListOpens
<1>4. CASE ListCloses(f, t, g)
  <2>1. f.want = "sep" /\ g.want = "sep" /\ f.of # "config" /\ t = Closer(f.of)
    BY <1>4 DEF ListCloses
  <2>2. CASE f.of \in {"url", "patch"}
    <3>1. t = "}" /\ g.of = "config"
      BY <1>4, <2>2 DEF ListCloses, Closer, Around
    <3>2. Derive(e, t) = After(TextsSep, t)
      BY <2>1, <2>2, DeriveOne DEF Expects, TextsExpect
    <3>3. Derive(e, t) = {ConfigSep}
      BY <3>1, <3>2, AfterTextsOf
    <3>. QED BY <2>1, <3>1, <3>3 DEF Expects, ConfigExpects
  <2>3. CASE f.of = "ports"
    <3>1. t = "]" /\ g.of = "config"
      BY <1>4, <2>3 DEF ListCloses, Closer, Around
    <3>2. Derive(e, t) = After(RulesSep, t)
      BY <2>1, <2>3, DeriveOne DEF Expects, RulesExpect
    <3>3. Derive(e, t) = {ConfigSep}
      BY <3>1, <3>2, AfterRulesOf
    <3>. QED BY <2>1, <3>1, <3>3 DEF Expects, ConfigExpects
  <2>4. CASE f.of = "port"
    <3>1. t = "}" /\ g.of = "ports"
      BY <1>4, <2>4 DEF ListCloses, Closer, Around
    <3>2. Derive(e, t) = After(RuleSep, t)
      BY <2>1, <2>4, DeriveOne DEF Expects, RuleExpects
    <3>3. Derive(e, t) = {RulesSep}
      BY <3>1, <3>2, AfterRuleOf
    <3>. QED BY <2>1, <3>1, <3>3 DEF Expects, RulesExpect
  <2>. QED BY <1>1, <2>1, <2>2, <2>3, <2>4
<1>. QED BY <1>2, <1>3, <1>4 DEF Moved

(* A key that is unknown, a text past the last rule, and the last brace. *)
LEMMA UnknownKeyDerives ==
  ASSUME NEW f, NEW e, Expects(f, e), NEW t, f.want = "colon",
         \/ f.of = "config" /\ f.key \notin ConfigKeys
         \/ f.of = "port" /\ f.key \notin PortKeys
  PROVE  Derive(e, t) = {}
<1>1. e = {}
  BY DEF Expects, ConfigExpects, RuleExpects, ConfigKeys, PortKeys
<1>. QED BY <1>1, DeriveNone

LEMMA TextDerives ==
  ASSUME NEW f, NEW e, Expects(f, e), NEW t \in Strings, f.want = "string",
         f.of \in {"url", "patch"}
  PROVE  Derive(e, t) # {}
<1>1. Derive(e, t) = After(TextsString, t)
  BY DeriveOne DEF Expects, TextsExpect
<1>2. t \in Tokens \cup {EOF}
  BY DEF Tokens
<1>3. After(TextsString, t) = {TextsSep}
  BY <1>2, AfterTextsOf
<1>. QED BY <1>1, <1>3

LEMMA LastBraceDerives ==
  ASSUME NEW f, NEW e, Expects(f, e), f.of = "config", f.want = "sep"
  PROVE  Derive(e, "}") = {<<>>}
<1>1. Derive(e, "}") = After(ConfigSep, "}")
  BY DeriveOne DEF Expects, ConfigExpects
<1>. QED BY <1>1, AfterConfigs DEF Tokens

-----------------------------------------------------------------------------
(* The calls under way *)

(* Each call is in a list of the one below it, which waits for a separator; *)
(* the outermost reads the settings.                                        *)
Frames == {f \in [of : {"config", "url", "patch", "ports", "port"},
                  want : {"open", "rule", "key", "colon", "string", "number", "sep"},
                  key : Keys] : FrameOK(f)}
Nested(s) ==
  /\ s \in Seq(Frames)
  /\ \A i \in 1 .. Len(s) :
       /\ s[i].of = "config" <=> i = Len(s)
       /\ i < Len(s) => s[i + 1].of = Around(s[i].of) /\ s[i + 1].want = "sep"

LEMMA FrameSet == \A f : f \in Frames <=> FrameOK(f)
BY DEF Frames, FrameOK

LEMMA TopFrame ==
  ASSUME NEW s, Nested(s), s # <<>>
  PROVE  s[1] \in Frames /\ Len(s) \in Nat /\ Len(s) >= 1 /\ Tail(s) \in Seq(Frames)
         /\ Len(Tail(s)) = Len(s) - 1 /\ \A i \in 1 .. Len(s) - 1 : Tail(s)[i] = s[i + 1]
BY DEF Nested

LEMMA TopReplaced ==
  ASSUME NEW s, Nested(s), s # <<>>, NEW g \in Frames, g.of = s[1].of
  PROVE  LET n == <<g>> \o Tail(s)
         IN  Nested(n) /\ n # <<>> /\ n[1] = g
<1>1. /\ s[1] \in Frames /\ Len(s) \in Nat /\ Len(s) >= 1 /\ Tail(s) \in Seq(Frames)
      /\ Len(Tail(s)) = Len(s) - 1 /\ \A i \in 1 .. Len(s) - 1 : Tail(s)[i] = s[i + 1]
  BY TopFrame
<1>2. PICK n : n = <<g>> \o Tail(s)
  OBVIOUS
<1>3. /\ n \in Seq(Frames) /\ Len(n) = Len(s) /\ n[1] = g
      /\ \A i \in 1 .. Len(s) : i # 1 => n[i] = s[i]
  BY <1>1, <1>2, ConcatProperties
<1>4. \A i \in 1 .. Len(s) : n[i].of = s[i].of /\ (i # 1 => n[i].want = s[i].want)
  BY <1>3
<1>5. Nested(n)
  <2>1. ASSUME NEW i \in 1 .. Len(s)
        PROVE  /\ n[i].of = "config" <=> i = Len(s)
               /\ i < Len(s) => n[i + 1].of = Around(n[i].of) /\ n[i + 1].want = "sep"
    <3>1. /\ s[i].of = "config" <=> i = Len(s)
          /\ i < Len(s) => s[i + 1].of = Around(s[i].of) /\ s[i + 1].want = "sep"
      BY DEF Nested
    <3>2. n[i].of = s[i].of
      BY <1>4
    <3>3. i < Len(s) => n[i + 1].of = s[i + 1].of /\ n[i + 1].want = s[i + 1].want
      <4>1. i < Len(s) => i + 1 \in 1 .. Len(s) /\ i + 1 # 1
        BY <1>1
      <4>. QED BY <1>4, <4>1
    <3>. QED BY <3>1, <3>2, <3>3
  <2>. QED BY <1>3, <2>1 DEF Nested
<1>6. n # <<>>
  BY <1>1, <1>3
<1>. QED BY <1>2, <1>3, <1>5, <1>6

LEMMA TopCalls ==
  ASSUME NEW s, Nested(s), s # <<>>, NEW h \in Frames, NEW g \in Frames,
         h.of # "config", Around(h.of) = s[1].of, g.of = s[1].of, g.want = "sep"
  PROVE  LET n == <<h, g>> \o Tail(s)
         IN  Nested(n) /\ n # <<>> /\ n[1] = h
<1>1. /\ s[1] \in Frames /\ Len(s) \in Nat /\ Len(s) >= 1 /\ Tail(s) \in Seq(Frames)
      /\ Len(Tail(s)) = Len(s) - 1 /\ \A i \in 1 .. Len(s) - 1 : Tail(s)[i] = s[i + 1]
  BY TopFrame
<1>2. PICK n : n = <<h, g>> \o Tail(s)
  OBVIOUS
<1>3. /\ n \in Seq(Frames) /\ Len(n) = Len(s) + 1 /\ n[1] = h /\ n[2] = g
      /\ \A i \in 1 .. Len(s) : i # 1 => n[i + 1] = s[i]
  BY <1>1, <1>2, ConcatProperties
<1>4. \A i \in 1 .. Len(s) : n[i + 1].of = s[i].of /\ (i # 1 => n[i + 1].want = s[i].want)
  BY <1>3
<1>5. Nested(n)
  <2>1. ASSUME NEW i \in 1 .. Len(n)
        PROVE  /\ n[i].of = "config" <=> i = Len(n)
               /\ i < Len(n) => n[i + 1].of = Around(n[i].of) /\ n[i + 1].want = "sep"
    <3>1. CASE i = 1
      BY <1>1, <1>3, <3>1
    <3>2. CASE i # 1
      <4>1. PICK j \in 1 .. Len(s) : i = j + 1
        <5>1. Len(s) \in Nat /\ i \in 1 .. Len(s) + 1
          BY <1>1, <1>3
        <5>2. i - 1 \in 1 .. Len(s) /\ i = (i - 1) + 1
          BY <3>2, <5>1
        <5>. QED BY <5>2
      <4>2. /\ s[j].of = "config" <=> j = Len(s)
            /\ j < Len(s) => s[j + 1].of = Around(s[j].of) /\ s[j + 1].want = "sep"
        BY DEF Nested
      <4>3. n[i].of = s[j].of
        <5>1. CASE j = 1
          BY <1>3, <4>1, <5>1
        <5>2. CASE j # 1
          BY <1>4, <4>1, <5>2
        <5>. QED BY <5>1, <5>2
      <4>4. j < Len(s) => n[i + 1].of = s[j + 1].of /\ n[i + 1].want = s[j + 1].want
        <5>1. j < Len(s) => j + 1 \in 1 .. Len(s) /\ j + 1 # 1
          BY <1>1
        <5>. QED BY <1>4, <4>1, <5>1
      <4>5. (i = Len(n) <=> j = Len(s)) /\ (i < Len(n) <=> j < Len(s))
        <5>1. i = j + 1 /\ Len(n) = Len(s) + 1 /\ j \in Int /\ Len(s) \in Int
          BY <1>1, <1>3, <4>1
        <5>. QED BY <5>1
      <4>. QED BY <4>2, <4>3, <4>4, <4>5
    <3>. QED BY <3>1, <3>2
  <2>. QED BY <1>3, <2>1 DEF Nested
<1>6. n # <<>>
  BY <1>1, <1>3
<1>. QED BY <1>2, <1>3, <1>5, <1>6

LEMMA TopEnds ==
  ASSUME NEW s, Nested(s), s # <<>>
  PROVE  /\ Nested(Tail(s))
         /\ Tail(s) = <<>> <=> s[1].of = "config"
         /\ Tail(s) # <<>> => Tail(s)[1].of = Around(s[1].of) /\ Tail(s)[1].want = "sep"
<1>1. /\ s[1] \in Frames /\ Len(s) \in Nat /\ Len(s) >= 1 /\ Tail(s) \in Seq(Frames)
      /\ Len(Tail(s)) = Len(s) - 1 /\ \A i \in 1 .. Len(s) - 1 : Tail(s)[i] = s[i + 1]
  BY TopFrame
<1>2. PICK n : n = Tail(s)
  OBVIOUS
<1>3. Nested(n)
  <2>1. ASSUME NEW i \in 1 .. Len(n)
        PROVE  /\ n[i].of = "config" <=> i = Len(n)
               /\ i < Len(n) => n[i + 1].of = Around(n[i].of) /\ n[i + 1].want = "sep"
    <3>1. PICK j \in 1 .. Len(s) : j = i + 1
      BY <1>1, <1>2
    <3>2. /\ s[j].of = "config" <=> j = Len(s)
          /\ j < Len(s) => s[j + 1].of = Around(s[j].of) /\ s[j + 1].want = "sep"
      BY DEF Nested
    <3>3. n[i] = s[j]
      BY <1>1, <1>2, <3>1
    <3>4. i < Len(n) => n[i + 1] = s[j + 1]
      BY <1>1, <1>2, <3>1
    <3>5. (i = Len(n) <=> j = Len(s)) /\ (i < Len(n) <=> j < Len(s))
      BY <1>1, <1>2, <3>1
    <3>. QED BY <3>2, <3>3, <3>4, <3>5
  <2>. QED BY <1>1, <1>2, <2>1 DEF Nested
<1>4. (n = <<>>) <=> Len(s) = 1
  <2>1. \A q \in Seq(Frames) : q = <<>> <=> Len(q) = 0
    BY EmptySeq
  <2>2. n \in Seq(Frames) /\ (Len(n) = 0 <=> Len(s) = 1)
    BY <1>1, <1>2
  <2>. QED BY <2>1, <2>2
<1>5. s[1].of = "config" <=> Len(s) = 1
  <2>1. 1 \in 1 .. Len(s)
    BY <1>1
  <2>. QED BY <2>1 DEF Nested
<1>6. Len(s) # 1 => n[1] = s[2] /\ s[2].of = Around(s[1].of) /\ s[2].want = "sep"
  <2>1. SUFFICES ASSUME Len(s) # 1
                 PROVE  n[1] = s[2] /\ s[2].of = Around(s[1].of) /\ s[2].want = "sep"
    OBVIOUS
  <2>2. 1 \in 1 .. Len(s) - 1 /\ 1 \in 1 .. Len(s) /\ 1 < Len(s)
    BY <1>1, <2>1
  <2>3. s[1 + 1].of = Around(s[1].of) /\ s[1 + 1].want = "sep"
    BY <2>2 DEF Nested
  <2>. QED BY <1>1, <1>2, <2>2, <2>3
<1>. QED BY <1>2, <1>3, <1>4, <1>5, <1>6

-----------------------------------------------------------------------------
(* Types *)

(* The counts keep to their arrays until a member of a port rule is written *)
(* past its own.                                                            *)
CountsOK ==
  /\ numUrl \in Int /\ numPort \in Int /\ numPatch \in Int /\ stray \in BOOLEAN
  /\ ~stray => /\ numUrl \in 0 .. MAXURLREWRITES /\ numPatch \in 0 .. MAXPATCHADDRESS
               /\ numPort \in 0 .. MAXPORTREWRITES

(* A port rule that has a member, and none past the array, is in the array. *)
RuleRoom ==
  pc = "parse" /\ Top.of = "port" /\ Top.want = "sep" /\ ~stray => numPort < MAXPORTREWRITES

TypeInv ==
  /\ file \in {"missing", "player", "saved"}
  /\ written \in 0 .. Whole
  /\ pc \in {"off", "create", "write", "open", "parse", "running", "failed"}
  /\ source \in [from : {"none", "player", "saved", "memory"}, length : 0 .. Whole]
  /\ Nested(stack) /\ (pc = "parse" => stack # <<>>)
  /\ CountsOK /\ RuleRoom
  /\ error \in {"none", "file", "token", "key", "limit"}
  /\ pos \in Nat /\ token \in Tokens \cup {EOF, "none"}

LEMMA TypeInvTyped == TypeInv => TypeOK
<1>. SUFFICES ASSUME TypeInv PROVE TypeOK
  OBVIOUS
<1>1. ASSUME NEW i \in DOMAIN stack
      PROVE  /\ stack[i].of \in {"config", "url", "ports", "port", "patch"}
             /\ stack[i].want \in {"open", "rule", "key", "colon", "string", "number", "sep"}
             /\ stack[i].key \in Strings \cup {"none"}
  <2>1. stack[i] \in Frames
    BY DEF TypeInv, Nested
  <2>. QED BY <2>1 DEF Frames, Keys
<1>2. source.from \in {"none", "player", "saved", "memory"} /\ source.length \in 0 .. Whole
  BY DEF TypeInv
<1>. QED BY <1>1, <1>2 DEF TypeInv, CountsOK, TypeOK

(* A token and the innermost call. *)
LEMMA WantedTaken ==
  ASSUME FrameOK(Top), NEW t
  PROVE  t \in Wanted <=> Takes(Top, t)
BY DEF Wanted, Takes, FrameOK

(* The steps of the parser: a token is refused, or a key, or an element no  *)
(* room is left for; or the next call wants something.                      *)
Refuses ==
  /\ pc' = "failed" /\ error' = "token" /\ UNCHANGED <<stack, counts>>
  /\ ~Takes(Top, token')
RefusesKey ==
  /\ pc' = "failed" /\ error' = "key" /\ UNCHANGED <<stack, counts>>
  /\ Top.want = "colon"
  /\ \/ Top.of = "config" /\ Top.key \notin ConfigKeys
     \/ Top.of = "port" /\ Top.key \notin PortKeys
RefusesText ==
  /\ pc' = "failed" /\ error' = "limit" /\ UNCHANGED <<stack, counts>>
  /\ Top.want = "string" /\ token' \in Strings
  /\ \/ Top.of = "url" /\ numUrl = MAXURLREWRITES
     \/ Top.of = "patch" /\ numPatch = MAXPATCHADDRESS
GoesOn ==
  /\ pc' = "parse" /\ error' = error
  /\ stack' # <<>> /\ Moved(Top, token', Top')
  /\ Top.of = "url" /\ Top.want = "string" => numUrl' = numUrl + 1
  /\ Top.of # "port" => numPort' = numPort
  /\ numPort \in 0 .. MAXPORTREWRITES - 1 =>
       /\ Top.of # "url" \/ Top.want # "string" => numUrl' = numUrl
       /\ Top.want # "sep" \/ token' = "," => numPort' = numPort
Finishes ==
  /\ pc' = "running" /\ error' = error /\ stack' = <<>>
  /\ Top.of = "config" /\ Top.want = "sep" /\ token' = "}"
BeginsRule ==
  /\ pc' = "parse" /\ error' = error /\ UNCHANGED <<counts, lexer>>
  /\ Top.want = "rule" /\ stack' # <<>> /\ Top' = Frame("port", "open")
  /\ numPort # MAXURLREWRITES
RefusesRule ==
  /\ pc' = "failed" /\ error' = "limit" /\ UNCHANGED <<stack, counts, lexer>>
  /\ Top.want = "rule" /\ numPort = MAXURLREWRITES

LEMMA WantsSteps ==
  ASSUME TypeInv, pc = "parse", NEW want, Wants(want), FrameOK([Top EXCEPT !.want = want])
  PROVE  Nested(stack') /\ stack' # <<>> /\ Top' = [Top EXCEPT !.want = want]
<1>1. Top \in Frames
  BY TopFrame DEF TypeInv, Top
<1>2. PICK g : g = [Top EXCEPT !.want = want]
  OBVIOUS
<1>3. g \in Frames /\ g.of = stack[1].of
  BY <1>1, <1>2, FrameSet DEF Frames, Top
<1>4. stack' = <<g>> \o Tail(stack)
  BY <1>2 DEF Wants
<1>. QED BY <1>2, <1>3, <1>4, TopReplaced DEF TypeInv, Top

LEMMA CallsSteps ==
  ASSUME TypeInv, pc = "parse", NEW list \in {"url", "patch", "ports", "port"},
         Around(list) = Top.of, Calls(list)
  PROVE  Nested(stack') /\ stack' # <<>> /\ Top' = Frame(list, "open")
<1>1. Top \in Frames
  BY TopFrame DEF TypeInv, Top
<1>2. PICK g : g = [Top EXCEPT !.want = "sep"]
  OBVIOUS
<1>3. PICK h : h = Frame(list, "open")
  OBVIOUS
<1>4. g \in Frames /\ g.of = stack[1].of /\ g.want = "sep"
  BY <1>1, <1>2 DEF Frames, FrameOK, Top
<1>5. h \in Frames /\ h.of = list
  BY <1>3 DEF Frames, FrameOK, Frame, Keys
<1>6. stack' = <<h, g>> \o Tail(stack)
  BY <1>2, <1>3 DEF Calls
<1>7. h.of # "config" /\ Around(h.of) = stack[1].of
  BY <1>5 DEF Top
<1>. QED BY <1>3, <1>4, <1>5, <1>6, <1>7, TopCalls DEF TypeInv, Top

LEMMA EndsSteps ==
  ASSUME TypeInv, pc = "parse", stack' = Tail(stack)
  PROVE  /\ Nested(stack')
         /\ stack' = <<>> <=> Top.of = "config"
         /\ stack' # <<>> => Top'.of = Around(Top.of) /\ Top'.want = "sep"
BY TopEnds DEF TypeInv, Top

(* What each call of the parser does with a token that it takes. *)
LEMMA MapSteps ==
  ASSUME TypeInv, pc = "parse", FrameOK(Top), NEW t \in Tokens \cup {EOF}, token' = t,
         JsonReadMap(t)
  PROVE  Nested(stack') /\ GoesOn
<1>1. PICK want : want = IF Top.of = "ports" THEN "rule" ELSE "key"
  OBVIOUS
<1>2. Wants(want) /\ Top.want = "open" /\ UNCHANGED <<pc, counts, error>>
  BY <1>1 DEF JsonReadMap
<1>3. Takes(Top, t)
  BY WantedTaken DEF JsonReadMap
<1>4. FrameOK([Top EXCEPT !.want = want])
  BY <1>1 DEF FrameOK
<1>5. Nested(stack') /\ stack' # <<>> /\ Top' = [Top EXCEPT !.want = want]
  BY <1>2, <1>4, WantsSteps
<1>6. Top'.of = Top.of /\ Top'.want = want
  BY <1>5 DEF FrameOK
<1>7. SameList(Top, t, Top')
  BY <1>1, <1>2, <1>3, <1>6 DEF SameList, Takes
<1>. QED BY <1>2, <1>5, <1>7 DEF GoesOn, Moved, counts

LEMMA KeySteps ==
  ASSUME TypeInv, pc = "parse", FrameOK(Top), NEW t \in Tokens \cup {EOF}, token' = t,
         ReadKey(t)
  PROVE  Nested(stack') /\ GoesOn
<1>1. Top \in Frames
  BY FrameSet
<1>2. t \in Strings
  BY DEF ReadKey, Wanted
<1>3. PICK g : g = [Top EXCEPT !.want = "colon", !.key = t]
  OBVIOUS
<1>4. g \in Frames /\ g.of = Top.of /\ g.want = "colon" /\ g.key = t
  BY <1>1, <1>2, <1>3 DEF Frames, FrameOK, Keys, ReadKey
<1>5. stack' = <<g>> \o Tail(stack) /\ Top.want = "key" /\ UNCHANGED <<pc, counts, error>>
  BY <1>3 DEF ReadKey
<1>6. Nested(stack') /\ stack' # <<>> /\ Top' = g
  BY <1>4, <1>5, TopReplaced DEF TypeInv, Top
<1>7. SameList(Top, t, Top')
  BY <1>2, <1>4, <1>5, <1>6 DEF SameList
<1>. QED BY <1>5, <1>6, <1>7 DEF GoesOn, Moved, counts

LEMMA ValueFnSteps ==
  ASSUME TypeInv, pc = "parse", FrameOK(Top), NEW t \in Tokens \cup {EOF}, token' = t,
         CallsValueFn(t)
  PROVE  Nested(stack') /\ (GoesOn \/ RefusesKey)
<1>1. Top.want = "colon" /\ t = ":" /\ UNCHANGED counts
  BY DEF CallsValueFn, Wanted
<1>2. UNCHANGED counts /\ numUrl' = numUrl /\ numPort' = numPort
  BY <1>1 DEF counts
<1>3. ASSUME NEW want \in {"string", "number"}, Wants(want), UNCHANGED <<pc, error>>,
             \/ Top.of \in {"url", "patch"} /\ want = "string"
             \/ /\ Top.of = "config" /\ want = "string"
                /\ Top.key = "BypassSelfSignedCertificate"
             \/ Top.of = "port" /\ want = "number" /\ Top.key \in {"FromPort", "ToPort"}
             \/ Top.of = "port" /\ want = "string" /\ Top.key = "ToAddr"
      PROVE  Nested(stack') /\ GoesOn
  <2>1. FrameOK([Top EXCEPT !.want = want])
    BY <1>1, <1>3 DEF FrameOK
  <2>2. Nested(stack') /\ stack' # <<>> /\ Top' = [Top EXCEPT !.want = want]
    BY <1>3, <2>1, WantsSteps
  <2>3. Top'.of = Top.of /\ Top'.want = want
    BY <2>2 DEF FrameOK
  <2>4. SameList(Top, t, Top')
    BY <1>1, <1>3, <2>3 DEF SameList
  <2>. QED BY <1>1, <1>2, <1>3, <2>2, <2>4 DEF GoesOn, Moved
<1>4. ASSUME NEW list \in {"url", "patch", "ports"}, Calls(list), UNCHANGED <<pc, error>>,
             Top.of = "config",
             \/ Top.key = "UrlRewrites" /\ list = "url"
             \/ Top.key = "PatchAddress" /\ list = "patch"
             \/ Top.key = "PortRewrites" /\ list = "ports"
      PROVE  Nested(stack') /\ GoesOn
  <2>1. Around(list) = Top.of
    BY <1>4 DEF Around
  <2>2. Nested(stack') /\ stack' # <<>> /\ Top' = Frame(list, "open")
    BY <1>4, <2>1, CallsSteps
  <2>3. Top'.of = list /\ Top'.want = "open"
    BY <2>2 DEF Frame
  <2>4. ListOpens(Top, t, Top')
    BY <1>1, <1>4, <2>3 DEF ListOpens
  <2>. QED BY <1>1, <1>2, <1>4, <2>2, <2>4 DEF GoesOn, Moved
<1>5. CASE Top.of = "config"
  <2>1. ReadJsonConfigMap(Top.key)
    BY <1>5 DEF CallsValueFn
  <2>2. CASE Top.key \notin ConfigKeys /\ Fatal("key")
    BY <1>1, <1>2, <1>5, <2>2 DEF RefusesKey, Fatal, TypeInv
  <2>. QED BY <1>3, <1>4, <1>5, <2>1, <2>2 DEF ReadJsonConfigMap
<1>6. CASE Top.of = "port"
  <2>1. ReadJsonPortRewriteRuleMap(Top.key)
    BY <1>6 DEF CallsValueFn
  <2>2. CASE Top.key \notin PortKeys /\ Fatal("key")
    BY <1>1, <1>2, <1>6, <2>2 DEF RefusesKey, Fatal, TypeInv
  <2>. QED BY <1>3, <1>6, <2>1, <2>2 DEF ReadJsonPortRewriteRuleMap
<1>7. CASE Top.of \in {"url", "patch"}
  <2>1. Wants("string") /\ UNCHANGED <<pc, error>>
    BY <1>7 DEF CallsValueFn
  <2>. QED BY <1>3, <1>7, <2>1
<1>. QED BY <1>5, <1>6, <1>7 DEF CallsValueFn

LEMMA ValueSteps ==
  ASSUME TypeInv, pc = "parse", FrameOK(Top), NEW t \in Tokens \cup {EOF}, token' = t,
         ReadValue(t)
  PROVE  Nested(stack') /\ (GoesOn \/ RefusesText)
<1>1. Top.want \in {"string", "number"} /\ Takes(Top, t)
  BY WantedTaken DEF ReadValue
<1>2. ASSUME Wants("sep"), UNCHANGED <<pc, error>>,
             Top.of = "url" /\ Top.want = "string" => numUrl' = numUrl + 1,
             Top.of # "port" => numPort' = numPort,
             numPort \in 0 .. MAXPORTREWRITES - 1 =>
               (Top.of # "url" => numUrl' = numUrl) /\ numPort' = numPort
      PROVE  Nested(stack') /\ GoesOn
  <2>1. FrameOK([Top EXCEPT !.want = "sep"])
    BY <1>1 DEF FrameOK
  <2>2. Nested(stack') /\ stack' # <<>> /\ Top' = [Top EXCEPT !.want = "sep"]
    BY <1>2, <2>1, WantsSteps
  <2>3. Top'.of = Top.of /\ Top'.want = "sep"
    BY <2>2 DEF FrameOK
  <2>4. SameList(Top, t, Top')
    BY <1>1, <2>3 DEF SameList, Takes, FrameOK
  <2>5. Top.want # "string" => Top.of # "url"
    BY <1>1 DEF FrameOK
  <2>. QED BY <1>2, <2>2, <2>4, <2>5 DEF GoesOn, Moved
<1>3. CASE ReadJsonUrlRewriteRuleMap
  <2>1. Top.of = "url" /\ Top.want = "string"
    BY <1>1, <1>3 DEF ReadJsonUrlRewriteRuleMap, FrameOK
  <2>2. CASE numUrl = MAXURLREWRITES
    BY <1>1, <1>3, <2>1, <2>2
       DEF ReadJsonUrlRewriteRuleMap, Fatal, RefusesText, Takes, TypeInv
  <2>3. CASE numUrl # MAXURLREWRITES
    BY <1>2, <1>3, <2>1, <2>3 DEF ReadJsonUrlRewriteRuleMap
  <2>. QED BY <2>2, <2>3
<1>4. CASE ReadJsonPatchAddressMap
  <2>1. Top.of = "patch" /\ Top.want = "string"
    BY <1>1, <1>4 DEF ReadJsonPatchAddressMap, FrameOK
  <2>2. CASE numPatch = MAXPATCHADDRESS
    BY <1>1, <1>4, <2>1, <2>2
       DEF ReadJsonPatchAddressMap, Fatal, RefusesText, Takes, TypeInv
  <2>3. CASE numPatch # MAXPATCHADDRESS
    BY <1>2, <1>4, <2>1, <2>3 DEF ReadJsonPatchAddressMap
  <2>. QED BY <2>2, <2>3
<1>5. CASE ReadRuleMember
  <2>1. Top.of = "port"
    BY <1>5 DEF ReadRuleMember
  <2>2. ASSUME numPort \in 0 .. MAXPORTREWRITES - 1
        PROVE  ~OnTheCount /\ ~OffTheMap
    BY <2>2, LimitsAssumption DEF OnTheCount, OffTheMap
  <2>3. numPort \in 0 .. MAXPORTREWRITES - 1 => numUrl' = numUrl /\ numPort' = numPort
    BY <1>5, <2>2 DEF ReadRuleMember
  <2>. QED BY <1>2, <1>5, <2>1, <2>3 DEF ReadRuleMember
<1>6. CASE ReadSetting
  BY <1>2, <1>6 DEF ReadSetting, counts
<1>. QED BY <1>3, <1>4, <1>5, <1>6 DEF ReadValue

LEMMA SeparatorSteps ==
  ASSUME TypeInv, pc = "parse", FrameOK(Top), NEW t \in Tokens \cup {EOF}, token' = t,
         JsonReadSeparator(t)
  PROVE  Nested(stack') /\ (GoesOn \/ Finishes)
<1>1. Top.want = "sep" /\ t \in {",", Closer(Top.of)}
  BY DEF JsonReadSeparator, Wanted
<1>2. CASE t # "," /\ ListEnds
  <2>1. stack' = Tail(stack) /\ error' = error /\ numUrl' = numUrl /\ t = Closer(Top.of)
        /\ pc' = (IF stack' = <<>> THEN "running" ELSE pc)
        /\ (Top.of # "port" => numPort' = numPort)
    BY <1>1, <1>2 DEF ListEnds
  <2>2. /\ Nested(stack')
        /\ stack' = <<>> <=> Top.of = "config"
        /\ stack' # <<>> => Top'.of = Around(Top.of) /\ Top'.want = "sep"
    BY <2>1, EndsSteps
  <2>3. CASE Top.of = "config"
    BY <1>1, <2>1, <2>2, <2>3 DEF Finishes, Closer
  <2>4. CASE Top.of # "config"
    <3>1. ListCloses(Top, t, Top')
      BY <1>1, <2>1, <2>2, <2>4 DEF ListCloses
    <3>. QED BY <1>1, <1>2, <2>1, <2>2, <2>4, <3>1 DEF GoesOn, Moved
  <2>. QED BY <2>3, <2>4
<1>3. CASE t = ","
  <2>1. PICK want : want = IF Top.of = "ports" THEN "rule" ELSE "key"
    OBVIOUS
  <2>2. Wants(want) /\ UNCHANGED <<pc, error, counts>>
    BY <1>3, <2>1 DEF JsonReadSeparator
  <2>3. FrameOK([Top EXCEPT !.want = want])
    BY <2>1 DEF FrameOK
  <2>4. Nested(stack') /\ stack' # <<>> /\ Top' = [Top EXCEPT !.want = want]
    BY <2>2, <2>3, WantsSteps
  <2>5. Top'.of = Top.of /\ Top'.want = want
    BY <2>4 DEF FrameOK
  <2>6. SameList(Top, t, Top')
    BY <1>1, <1>3, <2>1, <2>5 DEF SameList
  <2>. QED BY <1>1, <2>2, <2>4, <2>6 DEF GoesOn, Moved, counts
<1>. QED BY <1>2, <1>3 DEF JsonReadSeparator

LEMMA RuleSteps ==
  ASSUME TypeInv, pc = "parse", FrameOK(Top), ReadJsonPortRewriteRuleArray, UNCHANGED lexer
  PROVE  Nested(stack') /\ (BeginsRule \/ RefusesRule)
<1>1. Top.want = "rule" /\ Top.of = "ports"
  BY DEF ReadJsonPortRewriteRuleArray, FrameOK
<1>2. CASE numPort = MAXURLREWRITES
  BY <1>1, <1>2 DEF ReadJsonPortRewriteRuleArray, Fatal, RefusesRule, TypeInv
<1>3. CASE numPort # MAXURLREWRITES
  <2>1. Calls("port") /\ UNCHANGED <<pc, error, counts>>
    BY <1>3 DEF ReadJsonPortRewriteRuleArray
  <2>2. Around("port") = Top.of
    BY <1>1 DEF Around
  <2>3. Nested(stack') /\ stack' # <<>> /\ Top' = Frame("port", "open")
    BY <2>1, <2>2, CallsSteps
  <2>. QED BY <1>1, <1>3, <2>1, <2>3 DEF BeginsRule
<1>. QED BY <1>2, <1>3

ReadsToken ==
  /\ token' \in NextTokens /\ token' \in Tokens \cup {EOF} /\ pos' = pos + 1
  /\ expect' = Derive(expect, token') /\ Top.want # "rule"

LEMMA ReaderSteps ==
  ASSUME TypeInv, Reader
  PROVE  /\ FrameOK(Top) /\ Nested(stack')
         /\ \/ ReadsToken /\ (Refuses \/ RefusesKey \/ RefusesText \/ GoesOn \/ Finishes)
            \/ BeginsRule \/ RefusesRule
<1>1. pc = "parse"
  BY DEF Reader
<1>2. FrameOK(Top)
  BY <1>1, TopFrame, FrameSet DEF TypeInv, Top
<1>3. CASE ReadJsonPortRewriteRuleArray /\ UNCHANGED lexer
  BY <1>1, <1>2, <1>3, RuleSteps
<1>4. CASE ReadToken
  <2>1. PICK t \in Tokens \cup {EOF} :
          /\ JsonNextToken(t) /\ Top.want # "rule"
          /\ \/ Rejected(t) \/ JsonReadMap(t) \/ ReadKey(t) \/ CallsValueFn(t)
             \/ ReadValue(t) \/ JsonReadSeparator(t)
    BY <1>4 DEF ReadToken
  <2>2. token' = t /\ ReadsToken
    BY <2>1 DEF JsonNextToken, ReadsToken, Derive
  <2>3. CASE Rejected(t)
    <3>1. ~Takes(Top, t)
      BY <1>2, <2>3, WantedTaken DEF Rejected
    <3>2. Nested(stack') /\ Refuses
      BY <2>2, <2>3, <3>1 DEF Rejected, Fatal, Refuses, TypeInv
    <3>. QED BY <1>2, <2>2, <3>2
  <2>4. CASE JsonReadMap(t)
    BY <1>1, <1>2, <2>2, <2>4, MapSteps
  <2>5. CASE ReadKey(t)
    BY <1>1, <1>2, <2>2, <2>5, KeySteps
  <2>6. CASE CallsValueFn(t)
    BY <1>1, <1>2, <2>2, <2>6, ValueFnSteps
  <2>7. CASE ReadValue(t)
    BY <1>1, <1>2, <2>2, <2>7, ValueSteps
  <2>8. CASE JsonReadSeparator(t)
    BY <1>1, <1>2, <2>2, <2>8, SeparatorSteps
  <2>. QED BY <2>1, <2>3, <2>4, <2>5, <2>6, <2>7, <2>8
<1>. QED BY <1>3, <1>4 DEF Reader

-----------------------------------------------------------------------------
(* Type correctness *)

(* A call that reads a list's next separator was reading a value before, or *)
(* called a list that has ended: a rule's has none.                         *)
LEMMA RuleGoesOn ==
  ASSUME NEW f, FrameOK(f), NEW t, NEW g, Moved(f, t, g), g.of = "port", g.want = "sep"
  PROVE  f.of = "port" /\ f.want \in {"string", "number"}
BY DEF Moved, SameList, ListOpens, ListCloses, Around, FrameOK, Frame

LEMMA ReaderCounts ==
  ASSUME TypeInv, Reader
  PROVE  CountsOK' /\ RuleRoom'
<1>. DEFINE Kept == CountsOK' /\ RuleRoom'
<1>1. /\ pc = "parse" /\ CountsOK /\ RuleRoom
      /\ MAXURLREWRITES \in Nat \ {0} /\ MAXPATCHADDRESS \in Nat \ {0}
      /\ MAXPORTREWRITES \in Nat \ {0} /\ MAXPORTREWRITES <= MAXURLREWRITES
  BY LimitsAssumption DEF Reader, TypeInv
<1>2. /\ FrameOK(Top)
      /\ \/ ReadsToken /\ (Refuses \/ RefusesKey \/ RefusesText \/ GoesOn \/ Finishes)
         \/ BeginsRule \/ RefusesRule
  BY ReaderSteps
<1>3. pc' = "parse" /\ Top'.of = "port" /\ Top'.want = "sep" =>
        Top.of = "port" /\ Top.want \in {"string", "number"}
  <2>1. GoesOn /\ Top'.of = "port" /\ Top'.want = "sep" =>
          Top.of = "port" /\ Top.want \in {"string", "number"}
    BY <1>2, RuleGoesOn DEF GoesOn
  <2>2. BeginsRule => Top'.want # "sep"
    BY DEF BeginsRule, Frame
  <2>. QED BY <1>2, <2>1, <2>2 DEF Refuses, RefusesKey, RefusesText, Finishes, RefusesRule
<1>4. Top.of # "port" \/ Top.want \notin {"string", "number"} \/ pc' # "parse" => RuleRoom'
  BY <1>3 DEF RuleRoom
<1>5. UNCHANGED counts /\ RuleRoom' => Kept
  BY <1>1 DEF CountsOK, counts
<1>6. ASSUME NEW t, ReadValue(t)
      PROVE  Kept
  <2>1. CASE ReadJsonUrlRewriteRuleMap
    <3>1. CASE numUrl = MAXURLREWRITES
      BY <1>4, <1>5, <2>1, <3>1 DEF ReadJsonUrlRewriteRuleMap, Fatal
    <3>2. CASE numUrl # MAXURLREWRITES
      <4>1. RuleRoom' /\ numUrl' = numUrl + 1 /\ UNCHANGED <<numPort, numPatch, stray>>
        BY <1>4, <2>1, <3>2 DEF ReadJsonUrlRewriteRuleMap
      <4>2. CountsOK'
        BY <1>1, <3>2, <4>1 DEF CountsOK
      <4>. QED BY <4>1, <4>2
    <3>. QED BY <3>1, <3>2
  <2>2. CASE ReadJsonPatchAddressMap
    <3>1. CASE numPatch = MAXPATCHADDRESS
      BY <1>4, <1>5, <2>2, <3>1 DEF ReadJsonPatchAddressMap, Fatal
    <3>2. CASE numPatch # MAXPATCHADDRESS
      <4>1. RuleRoom' /\ numPatch' = numPatch + 1 /\ UNCHANGED <<numPort, numUrl, stray>>
        BY <1>4, <2>2, <3>2 DEF ReadJsonPatchAddressMap
      <4>2. CountsOK'
        BY <1>1, <3>2, <4>1 DEF CountsOK
      <4>. QED BY <4>1, <4>2
    <3>. QED BY <3>1, <3>2
  <2>3. CASE ReadRuleMember
    <3>1. /\ numUrl' \in Int /\ numPort' \in Int /\ numPatch' \in Int
          /\ stray' = (stray \/ numPort >= MAXPORTREWRITES)
      BY <1>1, <2>3, LimitsAssumption DEF ReadRuleMember, CountsOK
    <3>2. ASSUME ~stray'
          PROVE  /\ ~stray /\ UNCHANGED <<numUrl, numPort, numPatch>>
                 /\ numPort < MAXPORTREWRITES
      <4>1. ~stray /\ numPort \in 0 .. MAXPORTREWRITES - 1
        <5>1. ~stray /\ ~(numPort >= MAXPORTREWRITES)
          BY <3>1, <3>2, Zenon
        <5>2. numPort \in 0 .. MAXPORTREWRITES
          BY <1>1, <5>1, Zenon DEF CountsOK
        <5>3. numPort \in 0 .. MAXPORTREWRITES - 1
          BY <5>1, <5>2, LimitsAssumption
        <5>. QED BY <5>1, <5>3
      <4>2. ~OnTheCount /\ ~OffTheMap
        BY <1>1, <4>1 DEF OnTheCount, OffTheMap
      <4>. QED BY <1>1, <2>3, <4>1, <4>2 DEF ReadRuleMember
    <3>3. CountsOK'
      BY <1>1, <3>1, <3>2 DEF CountsOK
    <3>4. RuleRoom'
      BY <3>2 DEF RuleRoom
    <3>. QED BY <3>3, <3>4
  <2>4. CASE ReadSetting
    BY <1>4, <1>5, <2>4 DEF ReadSetting
  <2>. QED BY <1>6, <2>1, <2>2, <2>3, <2>4 DEF ReadValue
<1>7. ASSUME NEW t, JsonReadSeparator(t)
      PROVE  Kept
  <2>1. Top.want = "sep" /\ RuleRoom'
    BY <1>4, <1>7 DEF JsonReadSeparator
  <2>2. CASE UNCHANGED counts
    BY <1>5, <2>1, <2>2
  <2>3. CASE ListEnds /\ Top.of = "port"
    <3>1. /\ numPort' = numPort + 1 /\ UNCHANGED <<numUrl, numPatch, stray>>
          /\ ~stray => numPort < MAXPORTREWRITES
      BY <1>1, <2>1, <2>3 DEF ListEnds, RuleRoom
    <3>2. CountsOK'
      BY <1>1, <3>1 DEF CountsOK
    <3>. QED BY <2>1, <3>2
  <2>4. CASE ListEnds /\ Top.of # "port"
    BY <1>5, <2>1, <2>4 DEF ListEnds, counts
  <2>. QED BY <1>7, <2>2, <2>3, <2>4 DEF JsonReadSeparator
<1>8. CASE ReadJsonPortRewriteRuleArray
  <2>1. Top.want = "rule" /\ UNCHANGED counts
    BY <1>8 DEF ReadJsonPortRewriteRuleArray, Fatal
  <2>. QED BY <1>4, <1>5, <2>1
<1>9. CASE ReadToken
  <2>1. PICK t \in Tokens \cup {EOF} :
          \/ Rejected(t) \/ JsonReadMap(t) \/ ReadKey(t) \/ CallsValueFn(t)
          \/ ReadValue(t) \/ JsonReadSeparator(t)
    BY <1>9 DEF ReadToken
  <2>2. CASE Rejected(t)
    BY <1>4, <1>5, <2>2 DEF Rejected, Fatal
  <2>3. CASE JsonReadMap(t) \/ ReadKey(t) \/ CallsValueFn(t)
    <3>1. Top.want \notin {"string", "number"} /\ UNCHANGED counts
      BY <2>3 DEF JsonReadMap, ReadKey, CallsValueFn
    <3>. QED BY <1>4, <1>5, <3>1
  <2>. QED BY <1>6, <1>7, <2>1, <2>2, <2>3
<1>. QED BY <1>8, <1>9 DEF Reader

LEMMA ExampleLength == Whole = 27
BY DEF Whole, ExampleRugburnConfig

LEMMA NestedNow ==
  /\ Nested(<<>>)
  /\ Nested(<<Frame("config", "open")>>) /\ <<Frame("config", "open")>> # <<>>
  /\ <<Frame("config", "open")>>[1] = Frame("config", "open")
<1>1. PICK f : f = Frame("config", "open")
  OBVIOUS
<1>2. f \in Frames /\ f.of = "config"
  BY <1>1 DEF Frames, FrameOK, Frame, Keys
<1>3. Nested(<<f>>) /\ <<f>> # <<>> /\ <<f>>[1] = f
  BY <1>2 DEF Nested
<1>4. Nested(<<>>)
  BY DEF Nested
<1>. QED BY <1>1, <1>3, <1>4

(* No rules: the counts a process starts with. *)
LEMMA NoCounts ==
  /\ 0 \in Int /\ 0 \in 0 .. MAXURLREWRITES /\ 0 \in 0 .. MAXPATCHADDRESS
  /\ 0 \in 0 .. MAXPORTREWRITES /\ 0 < MAXPORTREWRITES
  /\ FALSE \in BOOLEAN /\ {0, 0, 0} \subseteq Int
BY LimitsAssumption

LEMMA TypeInit == Init => TypeInv
<1>1. 0 \in 0 .. Whole
  BY ExampleLength
<1>2. Init => Nested(stack)
  BY NestedNow DEF Init
<1>3. Init => CountsOK /\ RuleRoom
  BY NoCounts, Zenon DEF Init, CountsOK, RuleRoom
<1>. QED BY <1>1, <1>2, <1>3 DEF Init, TypeInv, NoSource

LEMMA TypeStep == TypeInv /\ [Next]_vars => TypeInv'
<1>. SUFFICES ASSUME TypeInv, [Next]_vars PROVE TypeInv'
  OBVIOUS
<1>0. Whole \in Nat /\ 0 \in 0 .. Whole /\ MAXURLREWRITES \in Nat \ {0} /\ MAXPATCHADDRESS \in Nat
  BY ExampleLength, LimitsAssumption
<1>1. ASSUME NEW from \in {"player", "saved", "memory"}, NEW length \in 0 .. Whole,
             Parse(from, length), UNCHANGED <<error, lexer, counts>>,
             file' \in {"missing", "player", "saved"}, written' \in 0 .. Whole
      PROVE  TypeInv'
  <2>1. source' \in [from : {"none", "player", "saved", "memory"}, length : 0 .. Whole]
    BY <1>1 DEF Parse
  <2>2. Nested(stack') /\ stack' # <<>> /\ Top' = Frame("config", "open") /\ pc' = "parse"
    BY <1>1, NestedNow DEF Parse, Top
  <2>3. Top'.of = "config"
    BY <2>2 DEF Frame
  <2>4. CountsOK' /\ RuleRoom'
    BY <1>1, <2>3 DEF TypeInv, CountsOK, RuleRoom, counts
  <2>. QED BY <1>1, <2>1, <2>2, <2>4 DEF TypeInv, lexer
<1>11. UNCHANGED counts => CountsOK'
  BY DEF TypeInv, CountsOK, counts
<1>12. UNCHANGED counts /\ (pc' # "parse" \/ UNCHANGED <<pc, stack>>) => RuleRoom'
  BY DEF TypeInv, RuleRoom, counts, Top
<1>2. CASE LoadJsonRugburnConfig
  BY <1>2, <1>11, <1>12 DEF LoadJsonRugburnConfig, TypeInv, disk, lexer
<1>3. CASE CannotOpen
  BY <1>3, <1>11, <1>12 DEF CannotOpen, Fatal, TypeInv, disk, lexer
<1>4. CASE ReadEntireFile
  <2>1. Parse(file, written) /\ file \in {"player", "saved"}
       /\ UNCHANGED <<disk, error, lexer, counts>>
    BY <1>4 DEF ReadEntireFile, FileExists, TypeInv
  <2>. QED BY <1>1, <2>1 DEF TypeInv, disk
<1>5. CASE CreateFile
  BY <1>0, <1>5, <1>11, <1>12 DEF CreateFile, TypeInv, lexer
<1>6. CASE WriteEntireFile
  <2>1. CASE written' \in written + 1 .. Whole /\ written' = Whole
    <3>1. Parse("memory", Whole) /\ UNCHANGED <<file, error, lexer, counts>>
      BY <1>6, <2>1, <1>0 DEF WriteEntireFile, TypeInv, Fatal
    <3>. QED BY <1>0, <1>1, <2>1, <3>1 DEF TypeInv
  <2>2. CASE written' \in written + 1 .. Whole /\ written' # Whole
    <3>1. written' \in 0 .. Whole
      BY <1>0, <2>2 DEF TypeInv
    <3>2. UNCHANGED <<file, pc, source, stack, error, lexer, counts>>
      BY <1>6, <2>2, <1>0 DEF WriteEntireFile, TypeInv, Fatal
    <3>. QED BY <1>11, <1>12, <3>1, <3>2 DEF TypeInv, lexer
  <2>3. CASE written' = written /\ Fatal("file") /\ source' = source
    <3>1. pc' = "failed" /\ UNCHANGED <<file, counts, stack, lexer>> /\ error' = "file"
      BY <1>6, <2>3 DEF WriteEntireFile, Fatal
    <3>. QED BY <1>11, <1>12, <2>3, <3>1 DEF TypeInv, lexer
  <2>. QED BY <1>6, <2>1, <2>2, <2>3 DEF WriteEntireFile
<1>7. CASE Reader
  <2>1. CountsOK' /\ RuleRoom'
    BY <1>7, ReaderCounts
  <2>2. /\ Nested(stack')
        /\ \/ ReadsToken /\ (Refuses \/ RefusesKey \/ RefusesText \/ GoesOn \/ Finishes)
           \/ BeginsRule \/ RefusesRule
    BY <1>7, ReaderSteps
  <2>3. UNCHANGED <<disk, source>>
    BY <1>7 DEF Reader
  <2>4. /\ pc' \in {"parse", "running", "failed"}
        /\ pc' = "parse" => stack' # <<>>
        /\ error' \in {"none", "file", "token", "key", "limit"}
    BY <2>2 DEF Refuses, RefusesKey, RefusesText, GoesOn, Finishes, BeginsRule, RefusesRule,
                TypeInv
  <2>5. pos' \in Nat /\ token' \in Tokens \cup {EOF, "none"}
    BY <2>2 DEF ReadsToken, BeginsRule, RefusesRule, TypeInv, lexer
  <2>. QED BY <2>1, <2>2, <2>3, <2>4, <2>5 DEF TypeInv, disk
<1>8. CASE Exit
  <2>1. CountsOK' /\ RuleRoom'
    BY <1>8, NoCounts, Zenon DEF Exit, CountsOK, RuleRoom
  <2>. QED BY <1>0, <1>8, <2>1, NestedNow DEF Exit, NoSource, TypeInv, disk
<1>9. CASE PlayerEdits
  BY <1>0, <1>9, <1>11, <1>12 DEF PlayerEdits, TypeInv, lexer
<1>10. CASE UNCHANGED vars
  BY <1>10, <1>11, <1>12 DEF vars, TypeInv, disk, lexer
<1>. QED BY <1>2, <1>3, <1>4, <1>5, <1>6, <1>7, <1>8, <1>9, <1>10 DEF Next

LEMMA Typing == Spec => []TypeInv
BY TypeInit, TypeStep, PTL DEF Spec

(* The parser's calls nest as its readers allow, and the counts keep to     *)
(* their arrays until a port rule's member is written past its own,         *)
(* whatever the file holds.                                                 *)
THEOREM ReadersTyped == Spec => []TypeOK
BY Typing, TypeInvTyped, PTL

-----------------------------------------------------------------------------
(* The grammar and the parser *)

(* What the grammar allows is what the innermost call makes of it.          *)
ReadInv ==
  /\ pc \in {"off", "create", "write", "open"} => expect = {ConfigOpen}
  /\ pc = "parse" => Expects(Top, expect)
  /\ pc = "running" => <<>> \in expect
  /\ RefusesOnlyBadFiles

LEMMA ReadInit == Init => ReadInv
BY DEF Init, ReadInv, RefusesOnlyBadFiles, ConfigOpen

LEMMA RuleBegins ==
  ASSUME NEW f, FrameOK(f), NEW e, Expects(f, e), f.want = "rule"
  PROVE  e # {} /\ Expects(Frame("port", "open"), e)
<1>1. f.of = "ports"
  BY DEF FrameOK
<1>2. e = {RulesRule} \/ e = {RulesEnd, RulesRule}
  BY <1>1 DEF Expects, RulesExpect
<1>3. PICK g : g = Frame("port", "open")
  OBVIOUS
<1>4. g.of = "port" /\ g.want = "open"
  BY <1>3 DEF Frame
<1>5. RuleExpects(g, e)
  BY <1>2, <1>4 DEF RuleExpects
<1>. QED BY <1>2, <1>3, <1>4, <1>5 DEF Expects

LEMMA ReaderReads ==
  ASSUME TypeInv, ReadInv, Reader
  PROVE  ReadInv'
<1>1. pc = "parse" /\ Expects(Top, expect)
  BY DEF Reader, ReadInv
<1>2. /\ FrameOK(Top)
      /\ \/ ReadsToken /\ (Refuses \/ RefusesKey \/ RefusesText \/ GoesOn \/ Finishes)
         \/ BeginsRule \/ RefusesRule
  BY ReaderSteps
<1>3. CASE ReadsToken /\ Refuses
  <2>1. pc' = "failed" /\ error' = "token" /\ Top' = Top
    BY <1>3 DEF Refuses, Top
  <2>2. expect' = {} \/ (Top'.want \in {"key", "open"} /\ token' \in {"}", "]"})
    BY <1>1, <1>2, <1>3, <2>1, RefusalRight DEF ReadsToken, Refuses
  <2>. QED BY <2>1, <2>2 DEF ReadInv, RefusesOnlyBadFiles, EmptyList
<1>4. CASE ReadsToken /\ RefusesKey
  <2>1. pc' = "failed" /\ error' = "key"
    BY <1>4 DEF RefusesKey
  <2>2. expect' = {}
    BY <1>1, <1>4, UnknownKeyDerives DEF ReadsToken, RefusesKey
  <2>. QED BY <2>1, <2>2 DEF ReadInv, RefusesOnlyBadFiles
<1>5. CASE ReadsToken /\ RefusesText
  <2>1. pc' = "failed" /\ error' = "limit" /\ UNCHANGED <<stack, counts>>
    BY <1>5 DEF RefusesText
  <2>2. expect' # {}
    BY <1>1, <1>5, TextDerives DEF ReadsToken, RefusesText
  <2>3. CASE Top.of = "url" /\ numUrl = MAXURLREWRITES
    BY <2>1, <2>2, <2>3 DEF ReadInv, RefusesOnlyBadFiles, Top, counts
  <2>4. CASE Top.of = "patch" /\ numPatch = MAXPATCHADDRESS
    BY <2>1, <2>2, <2>4 DEF ReadInv, RefusesOnlyBadFiles, Top, counts
  <2>. QED BY <1>5, <2>3, <2>4 DEF RefusesText
<1>6. CASE ReadsToken /\ GoesOn
  <2>1. Expects(Top', expect')
    BY <1>1, <1>2, <1>6, MovedExpects DEF ReadsToken, GoesOn
  <2>. QED BY <1>6, <2>1 DEF GoesOn, ReadInv, RefusesOnlyBadFiles
<1>7. CASE ReadsToken /\ Finishes
  <2>1. expect' = {<<>>}
    BY <1>1, <1>7, LastBraceDerives DEF ReadsToken, Finishes
  <2>. QED BY <1>7, <2>1 DEF Finishes, ReadInv, RefusesOnlyBadFiles
<1>8. CASE BeginsRule
  <2>1. pc' = "parse" /\ Top' = Frame("port", "open") /\ expect' = expect
    BY <1>8 DEF BeginsRule, lexer
  <2>2. Expects(Frame("port", "open"), expect)
    BY <1>1, <1>2, <1>8, RuleBegins DEF BeginsRule
  <2>3. Expects(Top', expect')
    BY <2>1, <2>2
  <2>. QED BY <2>1, <2>3 DEF ReadInv, RefusesOnlyBadFiles
<1>9. CASE RefusesRule
  <2>1. /\ pc' = "failed" /\ error' = "limit" /\ expect' = expect /\ Top' = Top
        /\ numPort' = numPort /\ numPort = MAXURLREWRITES /\ Top.of = "ports"
    BY <1>2, <1>9 DEF RefusesRule, Top, counts, lexer, FrameOK
  <2>2. expect # {}
    BY <1>1, <1>2, <1>9, RuleBegins DEF RefusesRule
  <2>3. MAXPORTREWRITES < MAXURLREWRITES => stray'
    <3>1. CountsOK /\ stray' = stray
      BY <1>9 DEF RefusesRule, counts, TypeInv
    <3>. QED BY <2>1, <3>1, LimitsAssumption DEF CountsOK
  <2>. QED BY <2>1, <2>2, <2>3 DEF ReadInv, RefusesOnlyBadFiles
<1>. QED BY <1>2, <1>3, <1>4, <1>5, <1>6, <1>7, <1>8, <1>9

LEMMA ReadStep == TypeInv /\ ReadInv /\ [Next]_vars => ReadInv'
<1>. SUFFICES ASSUME TypeInv, ReadInv, [Next]_vars PROVE ReadInv'
  OBVIOUS
<1>1. ASSUME NEW from, NEW length, Parse(from, length), expect' = expect, expect = {ConfigOpen}
      PROVE  ReadInv'
  <2>1. pc' = "parse" /\ Top' = Frame("config", "open")
    BY <1>1, NestedNow DEF Parse, Top
  <2>2. Top'.of = "config" /\ Top'.want = "open"
    BY <2>1 DEF Frame
  <2>3. Expects(Top', expect')
    BY <1>1, <2>2 DEF Expects, ConfigExpects
  <2>. QED BY <2>1, <2>3 DEF ReadInv, RefusesOnlyBadFiles
<1>2. CASE LoadJsonRugburnConfig
  BY <1>2 DEF LoadJsonRugburnConfig, ReadInv, RefusesOnlyBadFiles, lexer
<1>3. CASE CannotOpen
  BY <1>3 DEF CannotOpen, Fatal, ReadInv, RefusesOnlyBadFiles
<1>4. CASE ReadEntireFile
  BY <1>1, <1>4 DEF ReadEntireFile, ReadInv, lexer
<1>5. CASE CreateFile
  BY <1>5 DEF CreateFile, ReadInv, RefusesOnlyBadFiles, lexer
<1>6. CASE WriteEntireFile
  <2>1. pc = "write" /\ expect' = expect /\ expect = {ConfigOpen}
    BY <1>6 DEF WriteEntireFile, lexer, ReadInv
  <2>2. CASE Parse("memory", Whole)
    BY <1>1, <2>1, <2>2
  <2>3. CASE UNCHANGED pc
    BY <2>1, <2>3 DEF ReadInv, RefusesOnlyBadFiles
  <2>4. CASE Fatal("file")
    BY <2>1, <2>4 DEF Fatal, ReadInv, RefusesOnlyBadFiles
  <2>. QED BY <1>6, <2>2, <2>3, <2>4 DEF WriteEntireFile
<1>7. CASE Reader
  BY <1>7, ReaderReads
<1>8. CASE Exit
  BY <1>8 DEF Exit, ReadInv, RefusesOnlyBadFiles, ConfigOpen
<1>9. CASE PlayerEdits \/ UNCHANGED vars
  <2>1. UNCHANGED <<pc, stack, counts, error, lexer>>
    BY <1>9 DEF PlayerEdits, vars
  <2>. QED BY <2>1 DEF ReadInv, RefusesOnlyBadFiles, EmptyList, Top, counts, lexer
<1>. QED BY <1>2, <1>3, <1>4, <1>5, <1>6, <1>7, <1>8, <1>9 DEF Next

LEMMA Reading == Spec => []ReadInv
BY TypeInit, ReadInit, TypeStep, ReadStep, PTL DEF Spec

(* A process refuses a file only if no documented file begins as it does,   *)
(* or one of its lists is empty, or is full: json.c and config.c ask for    *)
(* exactly the tokens with which such a file may go on.                     *)
THEOREM RefusalsAreRight == Spec => []RefusesOnlyBadFiles
<1>1. ReadInv => RefusesOnlyBadFiles
  BY DEF ReadInv
<1>. QED BY <1>1, Reading, PTL

-----------------------------------------------------------------------------
(* The example *)

(* What the innermost call wants when p tokens of the example are read.     *)
ExampleCall(p, f) ==
  \/ /\ f.of = "config"
     /\ \/ p = 0 /\ f.want = "open"
        \/ p \in {1, 9} /\ f.want = "key"
        \/ p = 2 /\ f.want = "colon" /\ f.key = "UrlRewrites"
        \/ p = 10 /\ f.want = "colon" /\ f.key = "PortRewrites"
        \/ p \in {8, 26} /\ f.want = "sep"
  \/ /\ f.of = "url"
     /\ \/ p = 3 /\ f.want = "open"
        \/ p = 4 /\ f.want = "key"
        \/ p = 5 /\ f.want = "colon"
        \/ p = 6 /\ f.want = "string"
        \/ p = 7 /\ f.want = "sep"
  \/ /\ f.of = "ports"
     /\ \/ p = 11 /\ f.want = "open"
        \/ p = 12 /\ f.want = "rule"
        \/ p = 25 /\ f.want = "sep"
  \/ /\ f.of = "port"
     /\ \/ p = 12 /\ f.want = "open"
        \/ p \in {13, 17, 21} /\ f.want = "key"
        \/ p = 14 /\ f.want = "colon" /\ f.key = "FromPort"
        \/ p = 18 /\ f.want = "colon" /\ f.key = "ToPort"
        \/ p = 22 /\ f.want = "colon" /\ f.key = "ToAddr"
        \/ p \in {15, 19} /\ f.want = "number"
        \/ p = 23 /\ f.want = "string"
        \/ p \in {16, 20, 24} /\ f.want = "sep"

(* The token read next, by its place. *)
ExampleNext(p, t) ==
  /\ p \in {0, 3, 12} => t = "{"
  /\ p \in {7, 24, 26} => t = "}"
  /\ p = 11 => t = "["
  /\ p = 25 => t = "]"
  /\ p \in {2, 5, 10, 14, 18, 22} => t = ":"
  /\ p \in {8, 16, 20} => t = ","
  /\ p \in {4, 6, 23} => t = "text"
  /\ p \in {15, 19} => t = "number"
  /\ p = 1 => t = "UrlRewrites"
  /\ p = 9 => t = "PortRewrites"
  /\ p = 13 => t = "FromPort"
  /\ p = 17 => t = "ToPort"
  /\ p = 21 => t = "ToAddr"

LEMMA ExampleTokens ==
  ASSUME NEW p \in 0 .. 26
  PROVE  ExampleNext(p, ExampleRugburnConfig[p + 1])
<1>1. PICK e : e = ExampleRugburnConfig
  OBVIOUS
<1>2. /\ e[1] = "{" /\ e[2] = "UrlRewrites" /\ e[3] = ":" /\ e[4] = "{" /\ e[5] = "text"
      /\ e[6] = ":" /\ e[7] = "text" /\ e[8] = "}" /\ e[9] = ","
      /\ e[10] = "PortRewrites" /\ e[11] = ":" /\ e[12] = "[" /\ e[13] = "{"
      /\ e[14] = "FromPort" /\ e[15] = ":" /\ e[16] = "number" /\ e[17] = ","
      /\ e[18] = "ToPort" /\ e[19] = ":" /\ e[20] = "number" /\ e[21] = ","
      /\ e[22] = "ToAddr" /\ e[23] = ":" /\ e[24] = "text" /\ e[25] = "}"
      /\ e[26] = "]" /\ e[27] = "}"
  BY <1>1 DEF ExampleRugburnConfig
<1>3. PICK t : t = e[p + 1]
  OBVIOUS
<1>4. p \in {0, 3, 12} => t = "{"
  <2>1. (p = 0 => t = e[1]) /\ (p = 3 => t = e[4]) /\ (p = 12 => t = e[13])
    BY <1>3
  <2>. QED BY <1>2, <2>1, Zenon
<1>5. p \in {7, 24, 26} => t = "}"
  <2>1. (p = 7 => t = e[8]) /\ (p = 24 => t = e[25]) /\ (p = 26 => t = e[27])
    BY <1>3
  <2>. QED BY <1>2, <2>1, Zenon
<1>6. p = 11 => t = "["
  <2>1. p = 11 => t = e[12]
    BY <1>3
  <2>. QED BY <1>2, <2>1, Zenon
<1>7. p = 25 => t = "]"
  <2>1. p = 25 => t = e[26]
    BY <1>3
  <2>. QED BY <1>2, <2>1, Zenon
<1>8. p \in {2, 5, 10, 14, 18, 22} => t = ":"
  <2>1. /\ (p = 2 => t = e[3]) /\ (p = 5 => t = e[6]) /\ (p = 10 => t = e[11])
        /\ (p = 14 => t = e[15]) /\ (p = 18 => t = e[19]) /\ (p = 22 => t = e[23])
    BY <1>3
  <2>2. /\ e[3] = ":" /\ e[6] = ":" /\ e[11] = ":"
        /\ e[15] = ":" /\ e[19] = ":" /\ e[23] = ":"
    BY <1>2, Zenon
  <2>. QED BY <2>1, <2>2, Zenon
<1>9. p \in {8, 16, 20} => t = ","
  <2>1. (p = 8 => t = e[9]) /\ (p = 16 => t = e[17]) /\ (p = 20 => t = e[21])
    BY <1>3
  <2>. QED BY <1>2, <2>1, Zenon
<1>10. p \in {4, 6, 23} => t = "text"
  <2>1. (p = 4 => t = e[5]) /\ (p = 6 => t = e[7]) /\ (p = 23 => t = e[24])
    BY <1>3
  <2>. QED BY <1>2, <2>1, Zenon
<1>11. p \in {15, 19} => t = "number"
  <2>1. (p = 15 => t = e[16]) /\ (p = 19 => t = e[20])
    BY <1>3
  <2>. QED BY <1>2, <2>1, Zenon
<1>12. p = 1 => t = "UrlRewrites"
  <2>1. p = 1 => t = e[2]
    BY <1>3
  <2>. QED BY <1>2, <2>1, Zenon
<1>13. p = 9 => t = "PortRewrites"
  <2>1. p = 9 => t = e[10]
    BY <1>3
  <2>. QED BY <1>2, <2>1, Zenon
<1>14. p = 13 => t = "FromPort"
  <2>1. p = 13 => t = e[14]
    BY <1>3
  <2>. QED BY <1>2, <2>1, Zenon
<1>15. p = 17 => t = "ToPort"
  <2>1. p = 17 => t = e[18]
    BY <1>3
  <2>. QED BY <1>2, <2>1, Zenon
<1>16. p = 21 => t = "ToAddr"
  <2>1. p = 21 => t = e[22]
    BY <1>3
  <2>. QED BY <1>2, <2>1, Zenon
<1>17. ExampleNext(p, t)
  BY <1>4, <1>5, <1>6, <1>7, <1>8, <1>9, <1>10,
     <1>11, <1>12, <1>13, <1>14, <1>15, <1>16, Zenon
     DEF ExampleNext
<1>. QED BY <1>1, <1>3, <1>17

LEMMA ExampleStrings ==
  {"text", "UrlRewrites", "PortRewrites", "FromPort", "ToPort", "ToAddr"} \subseteq Strings
BY DEF Strings, ConfigKeys, PortKeys

LEMMA MovedTakes ==
  ASSUME NEW f, NEW t, NEW g, Moved(f, t, g)
  PROVE  Takes(f, t)
BY DEF Moved, SameList, ListOpens, ListCloses, Takes

LEMMA EndTaken ==
  ASSUME NEW f
  PROVE  ~Takes(f, EOF)
BY Marks DEF Takes, EOF, Opener, Closer

(* The example is what the parser asks for.                                 *)
LEMMA ExampleTaken ==
  ASSUME NEW p \in 0 .. 26, NEW t, ExampleNext(p, t), NEW f, f.want # "rule", ExampleCall(p, f)
  PROVE  Takes(f, t)
<1>1. CASE f.of = "config"
  BY <1>1, ExampleStrings DEF ExampleCall, ExampleNext, Takes, Opener, Closer
<1>2. CASE f.of = "url"
  BY <1>2, ExampleStrings DEF ExampleCall, ExampleNext, Takes, Opener, Closer
<1>3. CASE f.of = "ports"
  BY <1>3 DEF ExampleCall, ExampleNext, Takes, Opener, Closer
<1>4. CASE f.of = "port"
  BY <1>4, ExampleStrings DEF ExampleCall, ExampleNext, Takes, Opener, Closer
<1>. QED BY <1>1, <1>2, <1>3, <1>4 DEF ExampleCall, ExampleNext

LEMMA ExampleMoves ==
  ASSUME NEW p \in 0 .. 26, NEW t, ExampleNext(p, t), NEW f, f.want # "rule", ExampleCall(p, f),
         NEW g, Moved(f, t, g)
  PROVE  p < 26 /\ ExampleCall(p + 1, g)
<1>1. CASE SameList(f, t, g)
  <2>1. CASE f.of = "config"
    <3>1. CASE f.want = "open"
      BY <1>1, <2>1, <3>1 DEF ExampleCall, SameList
    <3>2. CASE f.want = "key"
      <4>1. g.of = "config" /\ g.want = "colon" /\ g.key = t
        BY <1>1, <2>1, <3>2 DEF SameList
      <4>2. p = 1 \/ p = 9
        BY <2>1, <3>2 DEF ExampleCall
      <4>3. (p = 1 => t = "UrlRewrites") /\ (p = 9 => t = "PortRewrites")
        BY DEF ExampleNext
      <4>. QED BY <4>1, <4>2, <4>3 DEF ExampleCall
    <3>3. CASE f.want = "colon"
      BY <1>1, <2>1, <3>3 DEF ExampleCall, SameList
    <3>4. CASE f.want = "sep"
      <4>1. g.of = "config" /\ g.want = "key" /\ t = ","
        BY <1>1, <2>1, <3>4 DEF SameList
      <4>2. p = 8
        BY <2>1, <3>4, <4>1 DEF ExampleCall, ExampleNext
      <4>3. ExampleCall(9, g)
        BY <4>1 DEF ExampleCall
      <4>. QED BY <4>2, <4>3
    <3>. QED BY <2>1, <3>1, <3>2, <3>3, <3>4 DEF ExampleCall
  <2>2. CASE f.of = "url"
    <3>1. CASE f.want = "open"
      BY <1>1, <2>2, <3>1 DEF ExampleCall, SameList
    <3>2. CASE f.want = "key"
      BY <1>1, <2>2, <3>2 DEF ExampleCall, SameList
    <3>3. CASE f.want = "colon"
      BY <1>1, <2>2, <3>3 DEF ExampleCall, SameList
    <3>4. CASE f.want = "string"
      BY <1>1, <2>2, <3>4 DEF ExampleCall, SameList
    <3>5. CASE f.want = "sep"
      BY <1>1, <2>2, <3>5 DEF ExampleCall, ExampleNext, SameList
    <3>. QED BY <2>2, <3>1, <3>2, <3>3, <3>4, <3>5 DEF ExampleCall
  <2>3. CASE f.of = "ports"
    <3>1. CASE f.want = "open"
      BY <1>1, <2>3, <3>1 DEF ExampleCall, SameList
    <3>2. CASE f.want = "sep"
      BY <1>1, <2>3, <3>2 DEF ExampleCall, ExampleNext, SameList
    <3>. QED BY <2>3, <3>1, <3>2 DEF ExampleCall
  <2>4. CASE f.of = "port"
    <3>1. CASE f.want = "open"
      BY <1>1, <2>4, <3>1 DEF ExampleCall, SameList
    <3>2. CASE f.want = "key"
      <4>1. g.of = "port" /\ g.want = "colon" /\ g.key = t
        BY <1>1, <2>4, <3>2 DEF SameList
      <4>2. p = 13 \/ p = 17 \/ p = 21
        BY <2>4, <3>2 DEF ExampleCall
      <4>3. (p = 13 => t = "FromPort") /\ (p = 17 => t = "ToPort") /\ (p = 21 => t = "ToAddr")
        BY DEF ExampleNext
      <4>. QED BY <4>1, <4>2, <4>3 DEF ExampleCall
    <3>3. CASE f.want = "colon"
      BY <1>1, <2>4, <3>3 DEF ExampleCall, SameList
    <3>4. CASE f.want = "number"
      BY <1>1, <2>4, <3>4 DEF ExampleCall, SameList
    <3>5. CASE f.want = "string"
      BY <1>1, <2>4, <3>5 DEF ExampleCall, SameList
    <3>6. CASE f.want = "sep"
      <4>1. g.of = "port" /\ g.want = "key" /\ t = ","
        BY <1>1, <2>4, <3>6 DEF SameList
      <4>2. p = 16 \/ p = 20
        BY <2>4, <3>6, <4>1 DEF ExampleCall, ExampleNext
      <4>3. ExampleCall(17, g) /\ ExampleCall(21, g)
        BY <4>1 DEF ExampleCall
      <4>. QED BY <4>2, <4>3
    <3>. QED BY <2>4, <3>1, <3>2, <3>3, <3>4, <3>5, <3>6 DEF ExampleCall
  <2>. QED BY <2>1, <2>2, <2>3, <2>4 DEF ExampleCall
<1>2. CASE ListOpens(f, t, g)
  BY <1>2 DEF ExampleCall, ListOpens
<1>3. CASE ListCloses(f, t, g)
  <2>1. g.of = Around(f.of) /\ g.want = "sep" /\ f.want = "sep" /\ f.of # "config"
    BY <1>3 DEF ListCloses
  <2>2. CASE f.of = "url"
    BY <2>1, <2>2 DEF ExampleCall, Around
  <2>3. CASE f.of = "ports"
    BY <2>1, <2>3 DEF ExampleCall, Around
  <2>4. CASE f.of = "port"
    <3>1. t = "}" /\ g.of = "ports"
      BY <1>3, <2>1, <2>4 DEF ListCloses, Closer, Around
    <3>2. p = 24
      BY <2>1, <2>4, <3>1 DEF ExampleCall, ExampleNext
    <3>3. ExampleCall(25, g)
      BY <2>1, <3>1 DEF ExampleCall
    <3>. QED BY <3>2, <3>3
  <2>. QED BY <2>1, <2>2, <2>3, <2>4 DEF ExampleCall
<1>. QED BY <1>1, <1>2, <1>3 DEF Moved

(* Until the parser starts nothing is read; then the example is read as far *)
(* as it goes, and found short only if it is.                               *)
ExampleInv ==
  /\ pc \in {"off", "create", "write", "open"} =>
       source.from = "none" /\ pos = 0 /\ numUrl = 0 /\ numPort = 0 /\ error = "none"
  /\ pc = "parse" => error = "none"
  /\ pc \in {"parse", "running"} => source.from # "none"
  /\ source.from \in {"saved", "memory"} =>
       /\ pc = "parse" =>
            /\ pos <= 26 /\ pos <= source.length /\ ExampleCall(pos, Top)
            /\ pos <= 6 => numUrl = 0
            /\ pos <= 24 => numPort = 0
       /\ pc = "running" => pos = Whole /\ error = "none"
       /\ source.length = Whole => error \in {"none", "file"}

LEMMA ExampleInit == Init => ExampleInv
BY DEF Init, ExampleInv, NoSource

LEMMA ExampleReads ==
  ASSUME TypeInv, ExampleInv, Reader
  PROVE  ExampleInv'
<1>1. pc = "parse" /\ source' = source /\ error = "none"
  BY DEF Reader, ExampleInv
<1>2. /\ FrameOK(Top)
      /\ \/ ReadsToken /\ (Refuses \/ RefusesKey \/ RefusesText \/ GoesOn \/ Finishes)
         \/ BeginsRule \/ RefusesRule
  BY ReaderSteps
<1>3. /\ pc' \in {"parse", "running", "failed"}
      /\ pc' = "parse" => error' = "none"
  BY <1>1, <1>2 DEF Refuses, RefusesKey, RefusesText, GoesOn, Finishes, BeginsRule, RefusesRule
<1>4. CASE source.from \notin {"saved", "memory"}
  BY <1>1, <1>3, <1>4 DEF ExampleInv
<1>5. CASE source.from \in {"saved", "memory"}
  <2>1. /\ pos \in 0 .. 26 /\ pos <= source.length /\ ExampleCall(pos, Top)
        /\ pos <= 6 => numUrl = 0
        /\ pos <= 24 => numPort = 0
    BY <1>1, <1>5 DEF ExampleInv, TypeInv
  <2>2. source.length \in 0 .. 27 /\ Whole = 27
    BY ExampleLength DEF TypeInv
  <2>3. MAXURLREWRITES \in Nat \ {0} /\ MAXPORTREWRITES \in Nat \ {0}
    BY LimitsAssumption
  <2>4. CASE BeginsRule
    <3>1. Top.of = "ports" /\ Top.want = "rule" /\ pos = 12
      BY <1>2, <2>1, <2>4 DEF BeginsRule, FrameOK, ExampleCall
    <3>2. pc' = "parse" /\ pos' = pos /\ numPort' = numPort /\ numUrl' = numUrl
          /\ Top' = Frame("port", "open")
      BY <2>4 DEF BeginsRule, counts, lexer
    <3>3. Top'.of = "port" /\ Top'.want = "open"
      BY <3>2 DEF Frame
    <3>4. ExampleCall(12, Top')
      BY <3>3 DEF ExampleCall
    <3>. QED BY <1>1, <1>3, <2>1, <3>1, <3>2, <3>4 DEF ExampleInv
  <2>5. CASE RefusesRule
    <3>1. pos = 12
      BY <1>2, <2>1, <2>5 DEF RefusesRule, FrameOK, ExampleCall
    <3>. QED BY <2>1, <2>3, <2>5, <3>1 DEF RefusesRule
  <2>6. CASE ReadsToken /\ pos = source.length
    <3>1. token' = EOF
      <4>1. ~(pos < source.length)
        BY <2>1, <2>2, <2>6
      <4>. QED BY <1>5, <2>6, <4>1 DEF ReadsToken, NextTokens
    <3>2. ~Takes(Top, token')
      BY <3>1, EndTaken
    <3>3. ~GoesOn
      BY <3>2, MovedTakes DEF GoesOn
    <3>4. ~Finishes
      BY <3>1 DEF Finishes, EOF
    <3>5. source'.length # Whole
      BY <1>1, <2>1, <2>2, <2>6
    <3>6. CASE Refuses \/ RefusesKey \/ RefusesText
      BY <3>5, <3>6 DEF Refuses, RefusesKey, RefusesText, ExampleInv
    <3>. QED BY <1>2, <2>4, <2>5, <3>3, <3>4, <3>6
  <2>7. CASE ReadsToken /\ pos # source.length
    <3>1. token' = ExampleRugburnConfig[pos + 1] /\ Top.want # "rule" /\ pos' = pos + 1
          /\ pos < source.length
      BY <1>5, <2>1, <2>2, <2>7 DEF ReadsToken, NextTokens
    <3>2. ExampleNext(pos, token')
      BY <2>1, <3>1, ExampleTokens
    <3>3. Takes(Top, token')
      BY <2>1, <3>1, <3>2, ExampleTaken
    <3>4. ~Refuses
      BY <3>3 DEF Refuses
    <3>5. ~RefusesKey
      BY <2>1 DEF RefusesKey, ExampleCall, ConfigKeys, PortKeys
    <3>6. ~RefusesText
      <4>1. Top.of = "url" /\ Top.want = "string" => pos = 6
        BY <2>1 DEF ExampleCall
      <4>2. Top.of # "patch"
        BY <2>1 DEF ExampleCall
      <4>. QED BY <2>1, <2>3, <4>1, <4>2 DEF RefusesText
    <3>7. CASE GoesOn
      <4>1. pos < 26 /\ ExampleCall(pos', Top')
        BY <2>1, <3>1, <3>2, <3>7, ExampleMoves DEF GoesOn
      <4>2. pos' <= 6 => numUrl' = 0
        <5>1. pos' <= 6 => pos < 6 /\ numUrl = 0
          BY <2>1, <3>1
        <5>2. Top.of = "url" /\ Top.want = "string" => pos = 6
          BY <2>1 DEF ExampleCall
        <5>3. pos' <= 6 => Top.of # "url" \/ Top.want # "string"
          BY <2>1, <5>1, <5>2
        <5>4. pos' <= 6 => numPort \in 0 .. MAXPORTREWRITES - 1
          BY <2>1, <2>3, <5>1
        <5>. QED BY <3>7, <5>1, <5>3, <5>4 DEF GoesOn
      <4>3. pos' <= 24 => numPort' = 0
        <5>1. pos' <= 24 => pos < 24 /\ numPort = 0
          BY <2>1, <3>1
        <5>2. numPort = 0 => numPort \in 0 .. MAXPORTREWRITES - 1
          BY <2>3
        <5>3. pos < 24 => Top.of # "port" \/ Top.want # "sep" \/ token' = ","
          <6>1. Top.of = "port" /\ Top.want = "sep" => pos = 16 \/ pos = 20 \/ pos = 24
            BY <2>1 DEF ExampleCall
          <6>2. pos = 16 \/ pos = 20 => token' = ","
            BY <3>2 DEF ExampleNext
          <6>3. pos = 24 => ~(pos < 24)
            OBVIOUS
          <6>. QED BY <6>1, <6>2, <6>3, Zenon
        <5>. QED BY <3>7, <5>1, <5>2, <5>3 DEF GoesOn
      <4>4. pos' <= 26 /\ pos' <= source'.length
        BY <1>1, <2>1, <2>2, <3>1, <4>1
      <4>. QED BY <1>1, <1>3, <3>7, <4>1, <4>2, <4>3, <4>4 DEF GoesOn, ExampleInv
    <3>8. CASE Finishes
      <4>1. Top.of = "config" /\ Top.want = "sep" /\ token' # ","
        BY <3>8 DEF Finishes
      <4>2. pos = 26
        BY <2>1, <3>2, <4>1 DEF ExampleCall, ExampleNext
      <4>3. pos' = Whole
        BY <2>2, <3>1, <4>2
      <4>. QED BY <1>1, <3>8, <4>3 DEF Finishes, ExampleInv
    <3>. QED BY <1>2, <2>4, <2>5, <3>4, <3>5, <3>6, <3>7, <3>8
  <2>. QED BY <1>2, <2>4, <2>5, <2>6, <2>7
<1>. QED BY <1>4, <1>5

LEMMA ExampleStep == TypeInv /\ ExampleInv /\ [Next]_vars => ExampleInv'
<1>. SUFFICES ASSUME TypeInv, ExampleInv, [Next]_vars PROVE ExampleInv'
  OBVIOUS
<1>1. ASSUME NEW from \in {"player", "saved", "memory"}, NEW length \in 0 .. Whole,
             Parse(from, length),
             pos' = 0, numUrl' = 0, numPort' = 0, error' = "none"
      PROVE  ExampleInv'
  <2>1. pc' = "parse" /\ source' = [from |-> from, length |-> length]
       /\ Top' = Frame("config", "open")
    BY <1>1, NestedNow DEF Parse, Top
  <2>2. Top'.of = "config" /\ Top'.want = "open"
    BY <2>1 DEF Frame
  <2>3. ExampleCall(0, Top')
    BY <2>2 DEF ExampleCall
  <2>4. 0 <= source'.length
    BY <2>1, ExampleLength
  <2>. QED BY <1>1, <2>1, <2>3, <2>4 DEF ExampleInv
<1>2. CASE LoadJsonRugburnConfig
  BY <1>2 DEF LoadJsonRugburnConfig, ExampleInv, counts, lexer
<1>3. CASE CannotOpen
  BY <1>3 DEF CannotOpen, Fatal, ExampleInv
<1>4. CASE ReadEntireFile
  BY <1>1, <1>4 DEF ReadEntireFile, FileExists, ExampleInv, TypeInv, counts, lexer
<1>5. CASE CreateFile
  BY <1>5 DEF CreateFile, ExampleInv, counts, lexer
<1>6. CASE WriteEntireFile
  <2>1. pc = "write" /\ pos' = 0 /\ source.from = "none"
       /\ numUrl = 0 /\ numPort = 0 /\ error = "none"
    BY <1>6 DEF WriteEntireFile, lexer, ExampleInv
  <2>2. CASE Parse("memory", Whole) /\ UNCHANGED <<counts, error>>
    BY <1>1, <2>1, <2>2, ExampleLength DEF counts
  <2>3. CASE UNCHANGED <<pc, source, stack>> /\ UNCHANGED <<counts, error>>
    BY <2>1, <2>3 DEF ExampleInv, counts
  <2>4. CASE Fatal("file") /\ source' = source
    BY <2>1, <2>4 DEF Fatal, ExampleInv
  <2>. QED BY <1>6, <2>2, <2>3, <2>4 DEF WriteEntireFile
<1>7. CASE Reader
  BY <1>7, ExampleReads
<1>8. CASE Exit
  BY <1>8 DEF Exit, ExampleInv, NoSource
<1>9. CASE PlayerEdits \/ UNCHANGED vars
  <2>1. UNCHANGED <<pc, source, stack, counts, error, lexer>>
    BY <1>9 DEF PlayerEdits, vars
  <2>. QED BY <2>1 DEF ExampleInv, Top, counts, lexer
<1>. QED BY <1>2, <1>3, <1>4, <1>5, <1>6, <1>7, <1>8, <1>9 DEF Next

(* The game runs only with a documented file read to its last brace; the    *)
(* example, cut short by a crash or an error while it was saved, is never   *)
(* taken for one, and saved whole it is accepted.                           *)
THEOREM StartsWhole == Spec => []StartsOnlyWithWholeFile
<1>1. TypeInv /\ ReadInv /\ ExampleInv => StartsOnlyWithWholeFile
  <2>. SUFFICES ASSUME TypeInv, ReadInv, ExampleInv PROVE StartsOnlyWithWholeFile
    OBVIOUS
  <2>1. pc = "running" => <<>> \in expect
    BY DEF ReadInv
  <2>. QED BY <2>1 DEF TypeInv, ExampleInv, StartsOnlyWithWholeFile
<1>2. Spec => []ExampleInv
  BY TypeInit, ExampleInit, TypeStep, ExampleStep, PTL DEF Spec
<1>. QED BY <1>1, <1>2, Typing, Reading, PTL
=============================================================================
