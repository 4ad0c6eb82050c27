----------------------------- MODULE JsonConfig -----------------------------
(***************************************************************************)
(* How rugburn gets its configuration: LoadJsonRugburnConfig and the       *)
(* readers it hands to the JSON parser (config.c), the parser itself       *)
(* (json.c), and the file it reads or saves (common.c).                    *)
(*                                                                         *)
(* The parser is a recursive descent whose calls are the frames of stack:  *)
(* each is a list being read and what it wants next.  Tokens are read one  *)
(* per step; every token it does not want ends the process (FatalError).   *)
(* The same tokens drive expect, the derivative of a grammar of the        *)
(* documented files, which the code knows nothing about: expect = {} once  *)
(* no file begins with what was read, and <<>> is in it once a file ends.  *)
(*                                                                         *)
(* The process may be killed at any step, and the player may replace or    *)
(* remove the file whenever no handle is open on it.  The tokens of a      *)
(* player's file are chosen as they are read.  Left out: characters,       *)
(* escapes and whitespace; the regular expressions, addresses and bytes    *)
(* the strings hold; the flag of BypassSelfSignedCertificate; what a write *)
(* past the array of port rules destroys beside the counts of rules.       *)
(***************************************************************************)
EXTENDS Integers, Sequences

CONSTANTS
  MAXURLREWRITES, MAXPORTREWRITES, MAXPATCHADDRESS,
  StrayCounts,    \* bound: what a write past the port rules may leave in a count
  MaxTokens       \* bound: tokens of a player's file

ASSUME LimitsAssumption ==
  /\ {MAXURLREWRITES, MAXPORTREWRITES, MAXPATCHADDRESS} \subseteq Nat \ {0}
  /\ MAXPORTREWRITES <= MAXURLREWRITES /\ MaxTokens \in Nat
  /\ StrayCounts \subseteq Int

VARIABLES
  file,           \* rugburn.json: missing, the player's, or saved by rugburn
  written,        \* tokens of the example in a file saved by rugburn
  pc,
  source,         \* where json comes from, and for the example how much of it
  stack,          \* JsonReadMap and JsonReadArray under way, the innermost first
  numUrl, numPort, numPatch,
  stray,          \* history: a port rule's member was written past the array
  error,          \* which FatalError ended the process
  pos, token,     \* tokens read, and the last of them
  expect          \* what the grammar allows from here on

disk == <<file, written>>
counts == <<numUrl, numPort, numPatch, stray>>
lexer == <<pos, token, expect>>
vars == <<disk, pc, source, stack, counts, error, lexer>>

ConfigKeys ==
  {"UrlRewrites", "PortRewrites", "PatchAddress", "BypassSelfSignedCertificate"}
PortKeys == {"FromPort", "ToPort", "ToAddr"}
Strings == ConfigKeys \cup PortKeys \cup {"text"}
Tokens == Strings \cup {"{", "}", "[", "]", ",", ":", "number", "other"}
EOF == "EOF"

ExampleRugburnConfig ==
  << "{", "UrlRewrites", ":", "{", "text", ":", "text", "}", ",",
     "PortRewrites", ":", "[",
       "{", "FromPort", ":", "number", ",", "ToPort", ":", "number", ",",
            "ToAddr", ":", "text", "}",
     "]", "}" >>
Whole == Len(ExampleRugburnConfig)

-----------------------------------------------------------------------------
(* The grammar of a configuration file: JSON, with the documented keys.  A *)
(* terminal is a token, or "string" or "number".                           *)

Productions == [
  config    |-> {<<"{", "}">>, <<"{", "setting", "settings">>},
  settings  |-> {<<"}">>, <<",", "setting", "settings">>},
  setting   |-> {<<"UrlRewrites", ":", "texts">>, <<"PatchAddress", ":", "texts">>,
                 <<"PortRewrites", ":", "rules">>,
                 <<"BypassSelfSignedCertificate", ":", "string">>},
  texts     |-> {<<"{", "}">>, <<"{", "string", ":", "string", "moreTexts">>},
  moreTexts |-> {<<"}">>, <<",", "string", ":", "string", "moreTexts">>},
  rules     |-> {<<"[", "]">>, <<"[", "rule", "moreRules">>},
  moreRules |-> {<<"]">>, <<",", "rule", "moreRules">>},
  rule      |-> {<<"{", "}">>, <<"{", "member", "members">>},
  members   |-> {<<"}">>, <<",", "member", "members">>},
  member    |-> {<<"FromPort", ":", "number">>, <<"ToPort", ":", "number">>,
                 <<"ToAddr", ":", "string">>}]

(* Every production begins with a terminal. *)
Fits(terminal, t) == t = terminal \/ (terminal = "string" /\ t \in Strings)

After(form, t) ==
  IF form = <<>> THEN {}
  ELSE LET heads == IF Head(form) \in DOMAIN Productions THEN Productions[Head(form)]
                                                         ELSE {<<Head(form)>>}
       IN  {Tail(p) \o Tail(form) : p \in {q \in heads : Fits(Head(q), t)}}

-----------------------------------------------------------------------------
(* The calls of the parser under way. *)

Frame(list, want) == [of |-> list, want |-> want, key |-> "none"]
Top == stack[1]
Opener(list) == IF list = "ports" THEN "[" ELSE "{"
Closer(list) == IF list = "ports" THEN "]" ELSE "}"

(* The tokens the call that reads next accepts. *)
Wanted ==
  CASE Top.want = "open"   -> {Opener(Top.of)}
    [] Top.want \in {"key", "string"} -> Strings
    [] Top.want = "colon"  -> {":"}
    [] Top.want = "number" -> {"number"}
    [] Top.want = "sep"    -> {",", Closer(Top.of)}
    [] OTHER -> {}

Wants(want) == stack' = <<[Top EXCEPT !.want = want]>> \o Tail(stack)
Calls(list) == stack' = <<Frame(list, "open"), [Top EXCEPT !.want = "sep"]>> \o Tail(stack)

(* json.c and config.c call FatalError. *)
Fatal(why) == pc' = "failed" /\ error' = why /\ UNCHANGED <<stack, counts>>

(* Type correctness: no reader writes past an array of rules before a port *)
(* rule does.  The limit the code tests for those is not their array's; it *)
(* is the rule past the end, which has a member, that changes the count.   *)
TypeOK ==
  /\ file \in {"missing", "player", "saved"}
  /\ written \in 0 .. Whole
  /\ pc \in {"off", "create", "write", "open", "parse", "running", "failed"}
  /\ source.from \in {"none", "player", "saved", "memory"} /\ source.length \in 0 .. Whole
  /\ \A i \in DOMAIN stack :
       /\ stack[i].of \in {"config", "url", "ports", "port", "patch"}
       /\ stack[i].want \in {"open", "rule", "key", "colon", "string", "number", "sep"}
       /\ stack[i].key \in Strings \cup {"none"}
  /\ {numUrl, numPort, numPatch} \subseteq Int /\ stray \in BOOLEAN
  /\ ~stray => /\ numUrl \in 0 .. MAXURLREWRITES /\ numPatch \in 0 .. MAXPATCHADDRESS
               /\ numPort \in 0 .. MAXPORTREWRITES
  /\ error \in {"none", "file", "token", "key", "limit"}
  /\ pos \in Nat /\ token \in Tokens \cup {EOF, "none"}

NoSource == [from |-> "none", length |-> 0]

Init ==
  /\ file = "missing" /\ written = 0
  /\ pc = "off" /\ source = NoSource
  /\ stack = <<>> /\ numUrl = 0 /\ numPort = 0 /\ numPatch = 0 /\ stray = FALSE /\ error = "none"
  /\ pos = 0 /\ token = "none" /\ expect = {<<"config">>}

-----------------------------------------------------------------------------
(* The file.  A process starts in DllMain and may end at any step. *)

FileExists == file # "missing"

(* Without a file the example is to be saved, once the player has closed   *)
(* the warning that says so.                                               *)
LoadJsonRugburnConfig ==
  /\ pc = "off"
  /\ pc' = IF FileExists THEN "open" ELSE "create"
  /\ UNCHANGED <<disk, source, stack, counts, error, lexer>>

Parse(from, length) ==
  /\ pc' = "parse" /\ source' = [from |-> from, length |-> length]
  /\ stack' = <<Frame("config", "open")>>

CannotOpen ==   \* CreateFileA fails
  /\ pc \in {"create", "open"} /\ Fatal("file")
  /\ UNCHANGED <<disk, source, lexer>>

(* Some bytes are read; an error in between is CannotOpen's FatalError. *)
ReadEntireFile ==
  /\ pc = "open" /\ FileExists
  /\ Parse(file, written)
  /\ UNCHANGED <<disk, counts, error, lexer>>

(* CREATE_ALWAYS: whatever is there by now is gone. *)
CreateFile ==
  /\ pc = "create" /\ pc' = "write"
  /\ file' = "saved" /\ written' = 0
  /\ UNCHANGED <<source, stack, counts, error, lexer>>

(* A call of WriteFile writes something, or fails. *)
WriteEntireFile ==
  /\ pc = "write" /\ file' = file
  /\ \/ /\ written' \in written + 1 .. Whole
        /\ IF written' = Whole THEN Parse("memory", Whole) ELSE UNCHANGED <<pc, source, stack>>
        /\ UNCHANGED <<counts, error>>
     \/ written' = written /\ Fatal("file") /\ source' = source
  /\ UNCHANGED lexer

(* The process ends: killed, closed by the player, or by ExitProcess. *)
Exit ==
  /\ pc # "off" /\ pc' = "off" /\ source' = NoSource
  /\ stack' = <<>> /\ error' = "none"
  /\ numUrl' = 0 /\ numPort' = 0 /\ numPatch' = 0 /\ stray' = FALSE
  /\ pos' = 0 /\ token' = "none" /\ expect' = {<<"config">>}
  /\ UNCHANGED disk

PlayerEdits ==
  /\ pc # "write"
  /\ file' \in {"missing", "player"} /\ written' = 0
  /\ UNCHANGED <<pc, source, stack, counts, error, lexer>>

-----------------------------------------------------------------------------
(* The parser.  A player's file may hold anything, up to MaxTokens. *)

NextTokens ==
  IF source.from = "player"
  THEN {EOF} \cup IF pos < MaxTokens THEN Tokens ELSE {}
  ELSE {IF pos < source.length THEN ExampleRugburnConfig[pos + 1] ELSE EOF}

JsonNextToken(t) ==
  /\ t \in NextTokens
  /\ pos' = pos + 1 /\ token' = t
  /\ expect' = UNION {After(form, t) : form \in expect}

Bug_EofEndsLists(t) ==   \* mutant: the end of the file closes every open list
  IF t = EOF /\ Top.want = "sep"
  THEN pc' = "running" /\ stack' = <<>> /\ UNCHANGED <<counts, error>>
  ELSE t \notin Wanted /\ Fatal("token")
(* JsonExpectToken, JsonReadString, ...: a token that is not wanted. *)
Rejected(t) == t \notin Wanted /\ Fatal("token")

JsonReadMap(t) ==
  /\ Top.want = "open" /\ t \in Wanted
  /\ Wants(IF Top.of = "ports" THEN "rule" ELSE "key")
  /\ UNCHANGED <<pc, counts, error>>

ReadKey(t) ==
  /\ Top.want = "key" /\ t \in Wanted
  /\ stack' = <<[Top EXCEPT !.want = "colon", !.key = t]>> \o Tail(stack)
  /\ UNCHANGED <<pc, counts, error>>

ReadJsonConfigMap(key) ==
  \/ key = "UrlRewrites" /\ Calls("url") /\ UNCHANGED <<pc, error>>
  \/ key = "PortRewrites" /\ Calls("ports") /\ UNCHANGED <<pc, error>>
  \/ key = "PatchAddress" /\ Calls("patch") /\ UNCHANGED <<pc, error>>
  \/ key = "BypassSelfSignedCertificate" /\ Wants("string") /\ UNCHANGED <<pc, error>>
  \/ key \notin ConfigKeys /\ Fatal("key")

ReadJsonPortRewriteRuleMap(key) ==
  \/ key \in {"FromPort", "ToPort"} /\ Wants("number") /\ UNCHANGED <<pc, error>>
  \/ key = "ToAddr" /\ Wants("string") /\ UNCHANGED <<pc, error>>
  \/ key \notin PortKeys /\ Fatal("key")

(* valuefn is called once the colon is read. *)
CallsValueFn(t) ==
  /\ Top.want = "colon" /\ t \in Wanted
  /\ \/ Top.of = "config" /\ ReadJsonConfigMap(Top.key)
     \/ Top.of = "port" /\ ReadJsonPortRewriteRuleMap(Top.key)
     \/ Top.of \in {"url", "patch"} /\ Wants("string") /\ UNCHANGED <<pc, error>>
  /\ UNCHANGED counts

ReadJsonUrlRewriteRuleMap ==
  /\ Top.of = "url"
  /\ IF numUrl = MAXURLREWRITES THEN Fatal("limit")
     ELSE numUrl' = numUrl + 1 /\ Wants("sep")
          /\ UNCHANGED <<pc, error, numPort, numPatch, stray>>

Bug_TestedAfterwards ==   \* mutant: the limit lets one rule too many in
  /\ Top.of = "patch"
  /\ IF numPatch > MAXPATCHADDRESS THEN Fatal("limit")
     ELSE numPatch' = numPatch + 1 /\ Wants("sep")
          /\ UNCHANGED <<pc, error, numUrl, numPort, stray>>
ReadJsonPatchAddressMap ==
  /\ Top.of = "patch"
  /\ IF numPatch = MAXPATCHADDRESS THEN Fatal("limit")
     ELSE numPatch' = numPatch + 1 /\ Wants("sep")
          /\ UNCHANGED <<pc, error, numUrl, numPort, stray>>

(* Behind the array lie its count, NumPortRewriteRules, in the place of a  *)
(* rule's two ports, and then the patches, enough of them for a rule up to *)
(* the limit that is tested.  A rule further off or before the array may   *)
(* be written on anything, the other counts included.                      *)
OnTheCount == numPort = MAXPORTREWRITES /\ Top.key # "ToAddr"
OffTheMap == numPort \notin 0 .. MAXURLREWRITES - 1

ReadRuleMember ==
  /\ Top.of = "port" /\ Wants("sep") /\ UNCHANGED <<pc, error>>
  /\ stray' = (stray \/ numPort >= MAXPORTREWRITES)
  /\ numPort' \in IF OnTheCount \/ OffTheMap THEN StrayCounts ELSE {numPort}
  /\ numUrl' \in IF OffTheMap THEN StrayCounts ELSE {numUrl}
  /\ numPatch' \in IF OffTheMap THEN StrayCounts ELSE {numPatch}

ReadSetting ==   \* of BypassSelfSignedCertificate
  Top.of = "config" /\ Wants("sep") /\ UNCHANGED <<pc, error, counts>>

ReadValue(t) ==
  /\ Top.want \in {"string", "number"} /\ t \in Wanted
  /\ ReadJsonUrlRewriteRuleMap \/ ReadJsonPatchAddressMap \/ ReadRuleMember \/ ReadSetting

(* ReadJsonPortRewriteRuleArray tests the limit before it reads a rule, *)
(* and the limit is MAXURLREWRITES.                                     *)
ReadJsonPortRewriteRuleArray ==
  /\ Top.want = "rule"
  /\ IF numPort = MAXURLREWRITES THEN Fatal("limit")
     ELSE Calls("port") /\ UNCHANGED <<pc, error, counts>>

ListEnds ==
  /\ stack' = Tail(stack)
  /\ pc' = IF stack' = <<>> THEN "running" ELSE pc
  /\ numPort' = IF Top.of = "port" THEN numPort + 1 ELSE numPort
  /\ UNCHANGED <<error, numUrl, numPatch, stray>>

Bug_NoTrailingComma(t) ==   \* mutant: an array's next element is read as a map's key
  /\ Top.want = "sep" /\ t \in Wanted
  /\ \/ t # "," /\ ListEnds
     \/ t = "," /\ Wants("key") /\ UNCHANGED <<pc, error, counts>>
JsonReadSeparator(t) ==
  /\ Top.want = "sep" /\ t \in Wanted
  /\ \/ t # "," /\ ListEnds
     \/ /\ t = "," /\ Wants(IF Top.of = "ports" THEN "rule" ELSE "key")
        /\ UNCHANGED <<pc, error, counts>>

ReadToken ==
  /\ Top.want # "rule"
  /\ \E t \in Tokens \cup {EOF} :
       /\ JsonNextToken(t)
       /\ \/ Rejected(t) \/ JsonReadMap(t) \/ ReadKey(t) \/ CallsValueFn(t)
          \/ ReadValue(t) \/ JsonReadSeparator(t)

Reader ==
  /\ pc = "parse"
  /\ ReadToken \/ (ReadJsonPortRewriteRuleArray /\ UNCHANGED lexer)
  /\ UNCHANGED <<disk, source>>

-----------------------------------------------------------------------------
Next ==
  \/ LoadJsonRugburnConfig \/ CannotOpen \/ ReadEntireFile
  \/ CreateFile \/ WriteEntireFile \/ Reader
  \/ Exit \/ PlayerEdits

Spec == Init /\ [][Next]_vars

-----------------------------------------------------------------------------
(* A list that ends where its first element should begin. *)
EmptyList == Top.want \in {"key", "open"} /\ token \in {"}", "]"} /\ expect # {}

(* Why a process that has read its file may refuse it: the file ends early *)
(* or no documented file begins as it does, up to and including the token  *)
(* refused; a key was unknown; or one rule or address more was met than    *)
(* the code counts room for.  The ports' limit is met too late: only once  *)
(* rules were written past their array.  Empty lists are refused too.      *)
RefusesOnlyBadFiles ==
  pc = "failed" =>
    /\ error = "token" => token = EOF \/ expect = {} \/ EmptyList
    /\ error = "key" => expect = {}
    /\ error = "limit" =>
         /\ expect # {}
         /\ CASE Top.of = "url" -> numUrl = MAXURLREWRITES
              [] Top.of = "patch" -> numPatch = MAXPATCHADDRESS
              [] OTHER -> MAXPORTREWRITES < MAXURLREWRITES => stray

(* The game runs only with a whole file behind it: what was read up to the *)
(* last brace is a documented file, and a file whose saving was cut short  *)
(* by a crash or an error never starts the game with some of its rules.    *)
(* The example saved whole is accepted by every later start, as it was by  *)
(* the first one from memory.                                              *)
StartsOnlyWithWholeFile ==
  /\ pc = "running" => <<>> \in expect /\ (source.from # "player" => pos = Whole)
  /\ source.from \in {"saved", "memory"} /\ source.length = Whole => error \in {"none", "file"}

(* config.h gives the array of port rules MAXPORTREWRITES elements, and    *)
(* none past them is written (false: ReadJsonPortRewriteRuleArray compares *)
(* with MAXURLREWRITES).                                                   *)
PortRulesInBounds ==
  pc = "parse" /\ Top.of = "port" => numPort < MAXPORTREWRITES

(* The configurations shipped beside the program, in which lists of no     *)
(* rules are written {} and [], are accepted (false: each list is read as  *)
(* if it had an element).                                                  *)
EmptyListsAccepted ==
  pc = "failed" /\ error = "token" /\ Top.of # "config" => ~EmptyList
=============================================================================
