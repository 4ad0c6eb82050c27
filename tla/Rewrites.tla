------------------------------ MODULE Rewrites ------------------------------
(***************************************************************************)
(* The rewriting of addresses: RewriteURL and RewriteAddr of               *)
(* src/src/config.c, as the hooks of WinINet, of the web browser and of    *)
(* Winsock call them, each thread of the game on its own.                  *)
(*                                                                         *)
(* A compiled rule keeps the captures of its last match (struct _REGEX)    *)
(* and nothing locks them: ReMatch resets and fills them, the first pass   *)
(* of ReReplace measures them, the second copies them.  Two threads that   *)
(* rewrite at once share them rule by rule.  The matcher reads and writes  *)
(* them at every group: a match that another thread's overlaps comes to    *)
(* any of the Outcomes that may have.  Left out: that such an overlap may  *)
(* write beside the captures.  A resolver's answer is an address or a      *)
(* failure: RewriteAddr asks for AF_INET and uses the first result.        *)
(***************************************************************************)
EXTENDS Regex

CONSTANTS
  Thread, NULL,
  Ip,           \* addresses the resolver may answer with
  Setups        \* the configurations, and the calls threads make under each

(* A rule that a regular expression may be: every sign stands behind a     *)
(* token that takes characters, and a group holds at least one such token  *)
(* and no other group.  (A ")" closes the group opened last, and a sign    *)
(* behind one never matches.)  A port rule's host is whatever the resolver  *)
(* makes of it.                                                            *)
Parens(p) == Tokens(p, "(") \cup Tokens(p, ")")
Regular(p) ==
  /\ p \in Seq(Token)
  /\ \A i \in 1..Len(p) :
       /\ p[i].type \in Signs => i > 1 /\ Type(p, i - 1) = "one"
       /\ p[i].type = "(" => Type(p, i + 1) = "one"
       /\ p[i].type = "(" => \E j \in Tokens(p, ")") : i < j /\ i + 1..j - 1 \cap Parens(p) = {}
       /\ p[i].type = ")" => \E j \in Tokens(p, "(") : j < i /\ j + 1..i - 1 \cap Parens(p) = {}

ASSUME SetupAssumption ==
  /\ NULL \notin Seq(Char \cup {Beyond})
  /\ \A s \in Setups :
       /\ s.urls \in Seq([from : {p \in Seq(Token) : Regular(p)}, to : Seq(Item)])
       /\ s.ports \in Seq([from : Nat, to : Nat])
       /\ s.texts \subseteq Seq(Char)
       /\ s.callers \subseteq Thread

VARIABLES
  setup,        \* Config, and the calls the threads make
  caps,         \* REGEX.numCap and REGEX.cap of every URL rule
  call,         \* the RewriteURL each thread is in
  sock,         \* the ConnectHook each thread is in
  alone,        \* history: no other thread touched the captures a call uses
  dead          \* FatalError has ended the process

vars == <<setup, caps, call, sock, alone, dead>>

Rules == setup.urls
PortRules == setup.ports

(* missed is history: the rules that did not match while another thread     *)
(* used them.                                                              *)
Quiet == [pc |-> "idle", text |-> <<>>, rule |-> 0, room |-> 0, out |-> NULL, missed |-> {}]
NoSocket == [pc |-> "idle", addr |-> NULL, rule |-> 0, to |-> NULL, failed |-> {}]

Init ==
  /\ setup \in Setups
  /\ caps = [r \in 1..Len(Rules) |-> NoCaptures]
  /\ call = [t \in Thread |-> Quiet]
  /\ sock = [t \in Thread |-> NoSocket]
  /\ alone = [t \in Thread |-> TRUE]
  /\ dead = FALSE

-----------------------------------------------------------------------------
(* RewriteURL: the rules in order, until one matches. *)

(* The step of a call that takes up rule r, or returns NULL after the last. *)
AtRule(c, r) == [c EXCEPT !.rule = r, !.pc = IF r <= Len(Rules) THEN "reset" ELSE "done"]

RewriteURL(t, text) ==
  /\ call[t].pc = "idle"
  /\ call' = [call EXCEPT ![t] = AtRule([Quiet EXCEPT !.text = text], 1)]
  /\ UNCHANGED <<setup, caps, sock, alone, dead>>

(* Other calls that are between the reset and the copy of the same rule. *)
Sharing(t) ==
  {o \in Thread \ {t} : call[o].pc \in {"match", "measure", "copy"}
                        /\ call[o].rule = call[t].rule}

Bug_CapturesKept(t) ==   \* mutant: the captures of the last match are not forgotten
  /\ call[t].pc = "reset"
  /\ caps' = caps
  /\ alone' = [o \in Thread |->
                 IF o = t THEN \A p \in Sharing(t) : call[p].pc # "match"
                 ELSE alone[o] /\ o \notin Sharing(t)]
  /\ call' = [call EXCEPT ![t].pc = "match"]
  /\ UNCHANGED <<setup, sock, dead>>

(* ReMatch forgets the captures ... *)
ReMatch(t) ==
  /\ call[t].pc = "reset"
  /\ caps' = [caps EXCEPT ![call[t].rule] = NoCaptures]
  /\ alone' = [o \in Thread |->
                 IF o = t THEN \A p \in Sharing(t) : call[p].pc # "match"
                 ELSE alone[o] /\ o \notin Sharing(t)]
  /\ call' = [call EXCEPT ![t].pc = "match"]
  /\ UNCHANGED <<setup, sock, dead>>

(* Captures that another thread reset and filled meanwhile.  Of all the     *)
(* mixes: none of the groups, all of them, and lengths that come out        *)
(* negative because they are differences of pointers into two texts.        *)
Torn(c) ==
  {NoCaptures, c,
   [c EXCEPT !.cap = [g \in 1..MAXRECAPTURE |-> [c.cap[g] EXCEPT !.len = -1]]]}

(* What a match may come to.  When another thread uses the rule, numCap may *)
(* be 0 again at a ")", which is then not taken and fails the attempt, or   *)
(* may count the other's groups too.  The characters are compared all the   *)
(* same: no text outside the language is taken.                            *)
Outcomes(p, text, c, undisturbed) ==
  LET m == ReMatchPattern(p, text, c)
  IN IF undisturbed \/ Tokens(p, "(") = {} THEN {m}
     ELSE UNION {{Fails(k), RunsOut(k)} \cup {x \in {Matches(k)} : InLanguage(p, text)} :
                   k \in Torn(m.caps)}

(* ... and the matcher fills those it finds. *)
Match(t) ==
  LET r == call[t].rule
      p == Rules[r].from
      missed == IF alone[t] \/ Tokens(p, "(") = {} THEN call[t].missed
                                                  ELSE call[t].missed \cup {r}
  IN /\ call[t].pc = "match"
     /\ \E m \in Outcomes(p, call[t].text, caps[r], alone[t]) :
          /\ caps' = [caps EXCEPT ![r] = m.caps]
          /\ dead' = m.fatal
          /\ call' = [call EXCEPT ![t] = IF m.fatal THEN @
                                         ELSE IF m.ok THEN [@ EXCEPT !.pc = "measure"]
                                         ELSE AtRule([@ EXCEPT !.missed = missed], r + 1)]
     /\ UNCHANGED <<setup, sock, alone>>

Measure(t) ==
  LET r == call[t].rule IN
  /\ call[t].pc = "measure"
  /\ call' = [call EXCEPT ![t].pc = "copy",
                          ![t].room = MeasureReplacement(Rules[r].to, caps[r])]
  /\ UNCHANGED <<setup, caps, sock, alone, dead>>

(* The copy ends the process, or worse, if a length is negative. *)
Copy(t) ==
  LET r == call[t].rule IN
  /\ call[t].pc = "copy"
  /\ dead' = Overruns(Rules[r].to, caps[r])
  /\ call' = [call EXCEPT ![t].pc = "done",
                          ![t].out = CopyReplacement(Rules[r].to, caps[r])]
  /\ UNCHANGED <<setup, caps, sock, alone>>

-----------------------------------------------------------------------------
(* ConnectHook: RewriteAddr on a copy of the address, then connect. *)

(* RewriteAddr goes on with the next rule for the port after rule r. *)
NextPortRule(s, r) ==
  LET later == {i \in (r + 1)..Len(PortRules) : PortRules[i].from = s.addr.port}
  IN IF later = {} THEN [s EXCEPT !.pc = "done", !.to = s.addr]
                   ELSE [s EXCEPT !.pc = "resolve", !.rule = Min(later)]

ConnectHook(t, addr) ==
  /\ sock[t].pc = "idle"
  /\ sock' = [sock EXCEPT ![t] = NextPortRule([NoSocket EXCEPT !.addr = addr], 0)]
  /\ UNCHANGED <<setup, caps, call, alone, dead>>

Bug_GivesUp(t) ==   \* mutant: a failed resolution ends the search
  /\ sock[t].pc = "resolve"
  /\ sock' = [sock EXCEPT ![t].pc = "done", ![t].to = sock[t].addr,
                          ![t].failed = @ \cup {sock[t].rule}]
  /\ UNCHANGED <<setup, caps, call, alone, dead>>

ResolveFails(t) ==
  LET s == sock[t]
      past == [s EXCEPT !.failed = s.failed \cup {s.rule}]
  IN /\ s.pc = "resolve"
     /\ sock' = [sock EXCEPT ![t] = NextPortRule(past, s.rule)]
     /\ UNCHANGED <<setup, caps, call, alone, dead>>

Resolved(t, ip) ==
  /\ sock[t].pc = "resolve"
  /\ sock' = [sock EXCEPT ![t].pc = "done",
                          ![t].to = [ip |-> ip, port |-> PortRules[sock[t].rule].to]]
  /\ UNCHANGED <<setup, caps, call, alone, dead>>

-----------------------------------------------------------------------------
Next ==
  /\ ~dead
  /\ \E t \in setup.callers :
       \/ \E text \in setup.texts : RewriteURL(t, text)
       \/ ReMatch(t) \/ Match(t) \/ Measure(t) \/ Copy(t)
       \/ \E addr \in setup.addrs : ConnectHook(t, addr)
       \/ ResolveFails(t)
       \/ \E ip \in Ip : Resolved(t, ip)

Spec == Init /\ [][Next]_vars

-----------------------------------------------------------------------------
(* Every attempt of the matcher that fails behind a "(" leaves the group it *)
(* opened in the captures: the next attempt opens another one.  A pattern   *)
(* is settled if that cannot happen: every repeated token before a "(" is   *)
(* followed, in the same group or right behind it, by a token to be taken   *)
(* once that accepts none of its characters, so that one count is tried     *)
(* with success at most.                                                    *)
Repeated(p) == {i \in Atoms(p) : Type(p, i + 1) \in Signs}

Settled(p) ==
  \A i \in Repeated(p) : (\E j \in Tokens(p, "(") : i < j) =>
    LET next == IF Type(p, i + 2) = ")" THEN i + 3 ELSE i + 2
    IN /\ next \in Atoms(p) \ Repeated(p)
       /\ p[i].set \cap p[next].set = {}

(* The first rule whose language has a text, of those not missed, or the    *)
(* one after the last.                                                      *)
FirstRule(text, missed) ==
  Min(({r \in 1..Len(Rules) : InLanguage(Rules[r].from, text)} \ missed) \cup {Len(Rules) + 1})

(* RewriteURL answers by the first rule whose language has the text, but    *)
(* that a rule with groups may be missed while another thread uses it: such *)
(* an overlap never makes a rule match that should not.  With a settled     *)
(* rule no other thread used meanwhile the answer is the replacement with   *)
(* the groups of the match filled in (config.c RewriteURL, regex.c          *)
(* ReReplace).                                                              *)
RewritesByFirstRule ==
  \A t \in Thread : call[t].pc = "done" /\ ~dead =>
    LET text == call[t].text
        r == FirstRule(text, call[t].missed)
    IN /\ call[t].rule = r
       /\ (call[t].out = NULL) = (r > Len(Rules))
       /\ r \in 1..Len(Rules) /\ alone[t] /\ Settled(Rules[r].from) =>
            call[t].out = Replacement(Rules[r].from, Rules[r].to, text)

(* What the second pass of ReReplace writes, with its terminator, is what   *)
(* the first pass made room for, unless another thread used the rule.       *)
CopyFillsRoom ==
  \A t \in Thread : call[t].pc = "done" /\ call[t].out # NULL /\ alone[t] /\ ~dead =>
    Len(call[t].out) + 1 = call[t].room

(* Rewriting ends the process (too many groups opened, or a length below    *)
(* zero) only for a rule that is not settled, has more groups than there is *)
(* room for, or is used by two threads at once.                             *)
DiesOnlyOfBadRules ==
  dead => \E t \in Thread :
    \/ ~alone[t]
    \/ /\ call[t].rule \in 1..Len(Rules)
       /\ LET p == Rules[call[t].rule].from
          IN ~Settled(p) \/ Cardinality(Tokens(p, "(")) > MAXRECAPTURE

(* A connection goes to the resolved address and the port of one and the    *)
(* same rule, the first for its port that resolved; to where the game       *)
(* wanted only if none did (config.c RewriteAddr, redir.c ConnectHook).     *)
ConnectsByFirstResolved ==
  \A t \in Thread : sock[t].pc = "done" =>
    LET s == sock[t]
        mine == {i \in 1..Len(PortRules) : PortRules[i].from = s.addr.port}
        left == mine \ s.failed
    IN IF left = {} THEN s.to = s.addr
       ELSE /\ s.to.port = PortRules[Min(left)].to /\ s.to.ip \in Ip
            /\ \A i \in s.failed : i < Min(left)
=============================================================================
