----------------------------- MODULE AntiCheat -----------------------------
(***************************************************************************)
(* The two threads of src/src/dll/rugburn/anticheat.c.                     *)
(*                                                                         *)
(* The monitor looks every 500 ms at a list of places in the game's        *)
(* memory: NCode patterns of code, then, if a chain of pointers leads to   *)
(* an object, values of that object.  A place found altered for the first  *)
(* time opens a message box, and the thread waits for it to be dismissed;  *)
(* at the end of a pass g_bCheatDetected tells whether some place is       *)
(* altered.  A memory fault ends the pass.                                 *)
(*                                                                         *)
(* The other thread keeps a TCP connection to a server and answers what it *)
(* receives with the flag, read without a lock, and what was received, as  *)
(* far as it is a string: up to a NUL.  The connection is a stream of      *)
(* pieces, one or more to a challenge, numbered as the server sends them;  *)
(* some are a NUL.                                                         *)
(*                                                                         *)
(* The chain's pointers, the values' tolerances and the encryption of a    *)
(* reply are left out.                                                     *)
(***************************************************************************)
EXTENDS Naturals, Sequences

CONSTANTS
  NCode,          \* places in the game's code
  NChecks,        \* all places, the code's first
  MaxPieces       \* bound: pieces the server sends on one connection

ASSUME ChecksAssumption ==
  NCode \in Nat \ {0} /\ NChecks \in Nat /\ NCode < NChecks /\ MaxPieces \in Nat

VARIABLES
  altered,        \* is the memory of a place off its pattern?
  chain,          \* does the chain of pointers end in NULL, at an object, or in a fault?
  at,             \* the monitor's next step: asleep, a check, the chain, the end of the pass
  box,            \* is the message box of that check open?
  warned,         \* warnedSemprePangya ... warnedShotType
  g_bCheatDetected,
  comm,           \* what the communication thread does next
  listening, hungUp,  \* does the server accept? has it closed this connection?
  pieces, nuls,   \* how many pieces the server sent on this connection, which are a NUL
  inbox, recvbuf, \* what is sent and not received; what the last recv returned
  echoed,         \* the pieces the replies of this connection brought back
  reply,          \* the status of the reply to the last recv, none before it or if it was lost
  excused         \* history: the pieces of this connection that stood behind a NUL in
                  \* what one recv returned, or whose reply was lost

game == <<altered, chain>>
monitor == <<at, box, warned, g_bCheatDetected>>
server == <<listening, hungUp, pieces, nuls>>
stream == <<inbox, recvbuf, echoed, reply, excused>>
vars == <<game, monitor, comm, server, stream>>

Check == 1 .. NChecks
Asleep == 0
Walk == NCode + 1         \* between the code's checks and the object's
EndOfPass == NChecks + 2
CheckAt == IF at < Walk THEN at ELSE at - 1

(* Type correctness; a pass has a fixed number of steps. *)
TypeOK ==
  /\ altered \in [Check -> BOOLEAN]
  /\ chain \in {"null", "object", "fault"}
  /\ at \in Asleep .. EndOfPass
  /\ warned \in [Check -> BOOLEAN]
  /\ {box, g_bCheatDetected, listening, hungUp} \subseteq BOOLEAN
  /\ comm \in {"open", "pause", "recv", "reply", "ended"}
  /\ pieces \in 0 .. MaxPieces
  /\ {nuls, excused} \subseteq SUBSET (1 .. MaxPieces)
  /\ {inbox, recvbuf, echoed} \subseteq Seq(1 .. MaxPieces)
  /\ reply \in {"none", "OK", "HACK_DETECTED"}

(* comm is "ended" if WSAStartup fails. *)
Init ==
  /\ altered = [c \in Check |-> FALSE] /\ chain = "null"
  /\ at = Asleep /\ box = FALSE
  /\ warned = [c \in Check |-> FALSE] /\ g_bCheatDetected = FALSE
  /\ comm \in {"open", "ended"}
  /\ listening = FALSE /\ hungUp = FALSE /\ pieces = 0 /\ nuls = {}
  /\ inbox = <<>> /\ recvbuf = <<>> /\ echoed = <<>> /\ reply = "none" /\ excused = {}

-----------------------------------------------------------------------------
(* AntiCheatMonitor *)

Wake ==
  /\ at = Asleep /\ at' = 1
  /\ UNCHANGED <<game, box, warned, g_bCheatDetected, comm, server, stream>>

Looking == at \in Check \cup {NChecks + 1} /\ at # Walk /\ ~ box

(* What the code can read at the place: once the chain was walked, the      *)
(* object it led to may be gone.                                            *)
Reading(c) == IF c <= NCode \/ chain = "object" THEN {altered[c]} ELSE BOOLEAN

(* Mutant: a place that is still altered counts as a new find every other pass. *)
Bug_WarnedToggles ==
  /\ Looking
  /\ \E bad \in Reading(CheckAt) :
       \/ bad /\ ~ warned[CheckAt] /\ box' = TRUE /\ UNCHANGED <<at, warned>>
       \/ /\ bad => warned[CheckAt]
          /\ warned' = [warned EXCEPT ![CheckAt] = FALSE]
          /\ at' = at + 1 /\ UNCHANGED box
  /\ UNCHANGED <<game, g_bCheatDetected, comm, server, stream>>

(* Mutant: a place that is as it should be again stays warned of. *)
Bug_NeverCleared ==
  /\ Looking
  /\ \E bad \in Reading(CheckAt) :
       \/ bad /\ ~ warned[CheckAt] /\ box' = TRUE /\ UNCHANGED <<at, warned>>
       \/ (bad => warned[CheckAt]) /\ at' = at + 1 /\ UNCHANGED <<box, warned>>
  /\ UNCHANGED <<game, g_bCheatDetected, comm, server, stream>>

(* Altered and new: the box opens.  Altered and known: nothing.  Not        *)
(* altered: the warning is forgotten.                                       *)
Look ==
  /\ Looking
  /\ \E bad \in Reading(CheckAt) :
       \/ bad /\ ~ warned[CheckAt] /\ box' = TRUE /\ UNCHANGED <<at, warned>>
       \/ bad /\ warned[CheckAt] /\ at' = at + 1 /\ UNCHANGED <<box, warned>>
       \/ /\ ~ bad
          /\ warned' = [warned EXCEPT ![CheckAt] = FALSE]
          /\ at' = at + 1 /\ UNCHANGED box
  /\ UNCHANGED <<game, g_bCheatDetected, comm, server, stream>>

(* MessageBoxA returns. *)
Dismissed ==
  /\ box /\ box' = FALSE
  /\ warned' = [warned EXCEPT ![CheckAt] = TRUE]
  /\ at' = at + 1
  /\ UNCHANGED <<game, g_bCheatDetected, comm, server, stream>>

(* The values are looked at only if no pointer of the chain is NULL. *)
WalkChain ==
  /\ at = Walk
  /\ \/ chain = "null" /\ at' = EndOfPass
     \/ chain = "object" /\ at' = at + 1
  /\ UNCHANGED <<game, box, warned, g_bCheatDetected, comm, server, stream>>

(* The handler keeps the warnings and publishes a status that is still 0. *)
Fault ==
  /\ ~ box
  /\ \/ at = Walk /\ chain = "fault"
     \/ at > Walk /\ at < EndOfPass /\ chain # "object"
  /\ at' = Asleep /\ g_bCheatDetected' = FALSE
  /\ UNCHANGED <<game, box, warned, comm, server, stream>>

(* Mutant: the next pass goes on where this one ended. *)
Bug_PublishRunsOn ==
  /\ at = EndOfPass /\ at' = at + 1
  /\ g_bCheatDetected' = \E c \in Check : warned[c]
  /\ UNCHANGED <<game, box, warned, comm, server, stream>>

Publish ==
  /\ at = EndOfPass /\ at' = Asleep
  /\ g_bCheatDetected' = \E c \in Check : warned[c]
  /\ UNCHANGED <<game, box, warned, comm, server, stream>>

-----------------------------------------------------------------------------
(* ServerCommunicationThread *)

(* socket or connect fails: a pause of five seconds. *)
OpenFails ==
  /\ comm = "open" /\ comm' = "pause"
  /\ UNCHANGED <<game, monitor, server, stream>>

Connects ==
  /\ comm = "open" /\ listening
  /\ comm' = "recv"
  /\ UNCHANGED <<game, monitor, server, stream>>

PauseOver ==
  /\ comm = "pause" /\ comm' = "open"
  /\ UNCHANGED <<game, monitor, server, stream>>

(* What stands behind a NUL in a buffer. *)
BehindNul(buf) ==
  {buf[j] : j \in {k \in DOMAIN buf : \E i \in 1 .. k - 1 : buf[i] \in nuls}}

(* Mutant: what was received is not terminated, and ends in what the buffer *)
(* held before.                                                             *)
Bug_ReceivesUnterminated ==
  /\ comm = "recv" /\ comm' = "reply"
  /\ \E n \in 1 .. Len(inbox) :
       /\ recvbuf' = SubSeq(inbox, 1, n) \o SubSeq(recvbuf, n + 1, Len(recvbuf))
       /\ inbox' = SubSeq(inbox, n + 1, Len(inbox))
  /\ excused' = excused \cup BehindNul(recvbuf') /\ reply' = "none"
  /\ UNCHANGED <<game, monitor, server, echoed>>

(* TCP keeps no boundaries: one recv may return several challenges, or the  *)
(* beginning of one.                                                        *)
Receives ==
  /\ comm = "recv" /\ comm' = "reply"
  /\ \E n \in 1 .. Len(inbox) :
       /\ recvbuf' = SubSeq(inbox, 1, n)
       /\ inbox' = SubSeq(inbox, n + 1, Len(inbox))
  /\ excused' = excused \cup BehindNul(recvbuf') /\ reply' = "none"
  /\ UNCHANGED <<game, monitor, server, echoed>>

(* wsprintfA copies the first n pieces, up to a NUL. *)
IsString(n) ==
  /\ \A i \in 1 .. n : recvbuf[i] \notin nuls
  /\ n < Len(recvbuf) => recvbuf[n + 1] \in nuls

(* Mutant: the flag is not looked at. *)
Bug_StatusIgnoresFlag == {"OK", "HACK_DETECTED"}

(* One reply in five says HACK_DETECTED whatever the flag. *)
Statuses == {"HACK_DETECTED"} \cup (IF g_bCheatDetected THEN {} ELSE {"OK"})

(* The flag as it is now and what is a string of the buffer.  A send that   *)
(* fails is not noticed.                                                    *)
Replies ==
  /\ comm = "reply" /\ comm' = "recv"
  /\ \/ /\ reply' \in Statuses
        /\ \E n \in 0 .. Len(recvbuf) :
             IsString(n) /\ echoed' = echoed \o SubSeq(recvbuf, 1, n)
        /\ UNCHANGED excused
     \/ /\ reply' = "none"
        /\ excused' = excused \cup {recvbuf[i] : i \in DOMAIN recvbuf}
        /\ UNCHANGED echoed
  /\ UNCHANGED <<game, monitor, server, inbox, recvbuf>>

(* Mutant: the thread ends with its first connection. *)
Bug_ConnectionEndsThread ==
  /\ comm = "recv" /\ (hungUp => inbox = <<>>)
  /\ comm' = "ended"
  /\ UNCHANGED <<game, monitor, server, stream>>

(* recv returns 0 after the server's close, or an error at any time; what   *)
(* was on its way is lost, and the buffer keeps what is in it.              *)
ConnectionEnds ==
  /\ comm = "recv" /\ (hungUp => inbox = <<>>)
  /\ comm' = "open"
  /\ hungUp' = FALSE /\ pieces' = 0 /\ nuls' = {}
  /\ inbox' = <<>> /\ echoed' = <<>> /\ reply' = "none" /\ excused' = {}
  /\ UNCHANGED <<game, monitor, listening, recvbuf>>

-----------------------------------------------------------------------------
(* The game, the server *)

GameMemory ==
  /\ \/ \E c \in Check : altered' = [altered EXCEPT ![c] = ~ @] /\ UNCHANGED chain
     \/ chain' \in {"null", "object", "fault"} \ {chain} /\ UNCHANGED altered
  /\ UNCHANGED <<monitor, comm, server, stream>>

ServerListens ==
  /\ listening' = ~ listening
  /\ UNCHANGED <<game, monitor, comm, hungUp, pieces, nuls, stream>>

ServerSends ==
  /\ comm \in {"recv", "reply"} /\ ~ hungUp /\ pieces < MaxPieces
  /\ pieces' = pieces + 1
  /\ nuls' \in {nuls, nuls \cup {pieces'}}
  /\ inbox' = Append(inbox, pieces')
  /\ UNCHANGED <<game, monitor, comm, listening, hungUp, recvbuf, echoed, reply, excused>>

ServerHangsUp ==
  /\ comm \in {"recv", "reply"} /\ ~ hungUp /\ hungUp' = TRUE
  /\ UNCHANGED <<game, monitor, comm, listening, pieces, nuls, stream>>

-----------------------------------------------------------------------------
Monitor == Wake \/ Look \/ Dismissed \/ WalkChain \/ Fault \/ Publish
Communication ==
  OpenFails \/ Connects \/ PauseOver \/ Receives \/ Replies \/ ConnectionEnds
Others == GameMemory \/ ServerListens \/ ServerSends \/ ServerHangsUp

Next == Monitor \/ Communication \/ Others

(* Both threads run, the player dismisses the boxes, a server that keeps     *)
(* listening is reached in the end, and what it sent is read before the     *)
(* connection breaks or after it was closed.                                *)
Fairness ==
  /\ WF_vars(Monitor)
  /\ WF_vars(OpenFails \/ Connects) /\ WF_vars(PauseOver) /\ SF_vars(Connects)
  /\ WF_vars(Receives) /\ WF_vars(Replies) /\ WF_vars(hungUp /\ ConnectionEnds)

Spec == Init /\ [][Next]_vars /\ Fairness

-----------------------------------------------------------------------------
(* Properties *)

(* The pattern stays altered, and the object stays or stays away: while it   *)
(* comes and goes, a pass may fault over it again and again.                 *)
StaysAltered(c) ==
  \/ <>[](altered[c] /\ chain = "null")
  \/ <>[](altered[c] /\ chain = "object")

(* A pattern of the code that stays altered is reported for good, whatever   *)
(* the object's values and the other patterns do, as long as the player      *)
(* dismisses the boxes and the passes do not fault.                          *)
CodeAlterationReported ==
  \A c \in 1 .. NCode : StaysAltered(c) => <>[]g_bCheatDetected

(* Once all is as it should be, nothing is reported, even if a pass was      *)
(* overtaken by changes in the middle.                                       *)
AllClearReported ==
  <>[](chain = "object" /\ \A c \in Check : ~ altered[c]) => <>[](~ g_bCheatDetected)

(* From some time on no reply that reaches the server is silent about an     *)
(* alteration of the code that stays, although the flag is read while the    *)
(* monitor writes it.                                                        *)
RepliesReport ==
  \A c \in 1 .. NCode :
    StaysAltered(c)
      => <>[][comm = "reply" /\ comm' = "recv" => reply' # "OK"]_vars

(* On one connection the replies bring back what the server sent in order   *)
(* and none of it twice, however the stream was cut, and nothing of an       *)
(* earlier connection.  A piece received is missing only if it stood behind  *)
(* a NUL in what one recv returned, where wsprintfA does not see it, or if   *)
(* its reply was lost.                                                       *)
EchoesInOrder ==
  comm \in {"recv", "reply"} =>
    /\ \A i, j \in 1 .. Len(echoed) : i < j => echoed[i] < echoed[j]
    /\ \A p \in (1 .. pieces) \ (nuls \cup excused) :
         \/ \E i \in 1 .. Len(echoed) : echoed[i] = p
         \/ \E i \in 1 .. Len(inbox) : inbox[i] = p
         \/ comm = "reply" /\ \E i \in 1 .. Len(recvbuf) : recvbuf[i] = p

(* If the thread could start, a server that stays up is connected to again   *)
(* and again, whatever breaks the connections.                               *)
Reconnects == comm = "open" /\ <>[]listening => []<>(comm = "recv")
=============================================================================
