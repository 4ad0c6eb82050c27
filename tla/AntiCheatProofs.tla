--------------------------- MODULE AntiCheatProofs ---------------------------
(***************************************************************************)
(* Proofs about AntiCheat for every number of places, of pieces sent and   *)
(* of connections: the two threads' state keeps its type, and the replies  *)
(* bring back what the server sent in order and once.                      *)
(***************************************************************************)
EXTENDS AntiCheat, Integers, TLAPS

-----------------------------------------------------------------------------
(* Type correctness *)

(* A message box is open only while a place is looked at: the pass waits     *)
(* where it is, and goes on to the place after it.                           *)
BoxAtPlace == box => at \in 1 .. NChecks + 1 /\ at # Walk

(* The strengthening of TypeOK. *)
MonitorInv == TypeOK /\ BoxAtPlace

(* Every step of a pass that is not over has a place to look at. *)
LEMMA PlaceType ==
  ASSUME at \in 1 .. NChecks + 1, at # Walk
  PROVE  CheckAt \in Check /\ at + 1 \in Asleep .. EndOfPass
BY ChecksAssumption DEF CheckAt, Check, Walk, Asleep, EndOfPass

(* The parts of the state which the monitor, the communication and the       *)
(* others write.                                                             *)
MonitorType ==
  /\ at \in Asleep .. EndOfPass
  /\ warned \in [Check -> BOOLEAN]
  /\ box \in BOOLEAN /\ g_bCheatDetected \in BOOLEAN

StreamType ==
  /\ comm \in {"open", "pause", "recv", "reply", "ended"}
  /\ listening \in BOOLEAN /\ hungUp \in BOOLEAN
  /\ pieces \in 0 .. MaxPieces
  /\ inbox \in Seq(1 .. MaxPieces)
  /\ recvbuf \in Seq(1 .. MaxPieces)
  /\ echoed \in Seq(1 .. MaxPieces)
  /\ reply \in {"none", "OK", "HACK_DETECTED"}
  /\ nuls \in SUBSET (1 .. MaxPieces) /\ excused \in SUBSET (1 .. MaxPieces)

GameType == altered \in [Check -> BOOLEAN] /\ chain \in {"null", "object", "fault"}

(* TypeOK is these three. *)
LEMMA TypeParts == TypeOK <=> GameType /\ MonitorType /\ StreamType
<1>1. {box, g_bCheatDetected, listening, hungUp} \subseteq BOOLEAN
        <=> /\ box \in BOOLEAN /\ g_bCheatDetected \in BOOLEAN
            /\ listening \in BOOLEAN /\ hungUp \in BOOLEAN
  BY Zenon
<1>2. {inbox, recvbuf, echoed} \subseteq Seq(1 .. MaxPieces)
        <=> /\ inbox \in Seq(1 .. MaxPieces) /\ recvbuf \in Seq(1 .. MaxPieces)
            /\ echoed \in Seq(1 .. MaxPieces)
  BY Zenon
<1>3. {nuls, excused} \subseteq SUBSET (1 .. MaxPieces)
        <=> nuls \in SUBSET (1 .. MaxPieces) /\ excused \in SUBSET (1 .. MaxPieces)
  BY Zenon
<1>. QED BY <1>1, <1>2, <1>3, Zenon DEF TypeOK, GameType, MonitorType, StreamType

(* The same of the next state. *)
LEMMA TypePartsNext == TypeOK' <=> GameType' /\ MonitorType' /\ StreamType'
<1>1. (TypeOK <=> GameType /\ MonitorType /\ StreamType)'
  BY TypeParts, PTL
<1>. QED BY <1>1

(* The monitor stays within a pass. *)
LEMMA MonitorTyped ==
  ASSUME MonitorInv, Monitor
  PROVE  GameType' /\ MonitorType' /\ StreamType' /\ BoxAtPlace'
<1>. USE ChecksAssumption
<1>. GameType /\ MonitorType /\ StreamType
  BY TypeParts DEF MonitorInv
<1>1. UNCHANGED <<game, comm, server, stream>> => GameType' /\ StreamType'
  BY DEF game, server, stream, GameType, StreamType
<1>2. UNCHANGED <<game, comm, server, stream>>
  BY DEF Monitor, Wake, Look, Dismissed, WalkChain, Fault, Publish
<1>3. CASE Wake
  <2>1. ~ box
    BY <1>3 DEF Wake, MonitorInv, BoxAtPlace, Asleep
  <2>2. MonitorType' /\ BoxAtPlace'
    BY <1>3, <2>1 DEF Wake, MonitorType, BoxAtPlace, Asleep, EndOfPass
  <2>. QED BY <1>1, <1>2, <2>2
<1>4. CASE Look
  <2>1. ~ box /\ at \in 1 .. NChecks + 1 /\ at # Walk
    BY <1>4 DEF Look, Looking, Check
  <2>2. CheckAt \in Check /\ at + 1 \in Asleep .. EndOfPass
    BY <2>1, PlaceType
  <2>3. g_bCheatDetected' = g_bCheatDetected
    BY <1>4 DEF Look
  <2>4. \/ box' = TRUE /\ at' = at /\ warned' = warned
        \/ at' = at + 1 /\ box' = box
             /\ (warned' = warned \/ warned' = [warned EXCEPT ![CheckAt] = FALSE])
    BY <1>4 DEF Look
  <2>5. MonitorType'
    BY <2>2, <2>3, <2>4 DEF MonitorType
  <2>6. BoxAtPlace'
    BY <2>1, <2>4 DEF BoxAtPlace, Walk
  <2>. QED BY <1>1, <1>2, <2>5, <2>6
<1>5. CASE Dismissed
  <2>1. CheckAt \in Check /\ at + 1 \in Asleep .. EndOfPass
    BY <1>5, PlaceType DEF Dismissed, MonitorInv, BoxAtPlace
  <2>2. MonitorType' /\ BoxAtPlace'
    BY <1>5, <2>1 DEF Dismissed, MonitorType, BoxAtPlace
  <2>. QED BY <1>1, <1>2, <2>2
<1>6. CASE WalkChain
  <2>1. ~ box
    BY <1>6 DEF WalkChain, MonitorInv, BoxAtPlace
  <2>2. MonitorType' /\ BoxAtPlace'
    BY <1>6, <2>1 DEF WalkChain, MonitorType, BoxAtPlace, Walk, Asleep, EndOfPass
  <2>. QED BY <1>1, <1>2, <2>2
<1>7. CASE Fault
  <2>1. at' = Asleep /\ g_bCheatDetected' \in BOOLEAN /\ box' = box /\ warned' = warned /\ ~ box
    BY <1>7 DEF Fault
  <2>. QED BY <1>1, <1>2, <2>1 DEF MonitorType, BoxAtPlace, Asleep, EndOfPass
<1>8. CASE Publish
  <2>1. ~ box
    BY <1>8 DEF Publish, MonitorInv, BoxAtPlace, EndOfPass
  <2>2. g_bCheatDetected' \in BOOLEAN
    BY <1>8 DEF Publish
  <2>3. at' = Asleep /\ warned' = warned /\ box' = box
    BY <1>8 DEF Publish
  <2>. QED BY <1>1, <1>2, <2>1, <2>2, <2>3 DEF MonitorType, BoxAtPlace, Asleep, EndOfPass
<1>. QED BY <1>1, <1>2, <1>3, <1>4, <1>5, <1>6, <1>7, <1>8 DEF Monitor

(* The elements of a sequence, all of them or some. *)
LEMMA ElementsType ==
  ASSUME NEW S, NEW s \in Seq(S), NEW D, D \subseteq DOMAIN s
  PROVE  {s[i] : i \in D} \subseteq S
OBVIOUS

(* A stream cut in two. *)
LEMMA CutType ==
  ASSUME NEW S, NEW s \in Seq(S), NEW n \in 1 .. Len(s)
  PROVE  SubSeq(s, 1, n) \in Seq(S) /\ SubSeq(s, n + 1, Len(s)) \in Seq(S)
OBVIOUS

(* The communication thread keeps the types. *)
LEMMA CommunicationTyped ==
  ASSUME MonitorInv, Communication
  PROVE  GameType' /\ MonitorType' /\ StreamType' /\ BoxAtPlace'
<1>. USE ChecksAssumption
<1>. GameType /\ MonitorType /\ StreamType
  BY TypeParts DEF MonitorInv
<1>1. GameType' /\ MonitorType' /\ BoxAtPlace'
  BY DEF Communication, OpenFails, Connects, PauseOver, Receives, Replies, ConnectionEnds,
         game, monitor, GameType, MonitorType, MonitorInv, BoxAtPlace, Walk
<1>2. CASE OpenFails \/ PauseOver \/ Connects
  BY <1>1, <1>2 DEF OpenFails, PauseOver, Connects, server, stream, StreamType
<1>3. CASE ConnectionEnds
  <2>1. <<>> \in Seq(1 .. MaxPieces)
    OBVIOUS
  <2>2. hungUp' \in BOOLEAN /\ listening' \in BOOLEAN
    BY <1>3 DEF ConnectionEnds, StreamType
  <2>. QED BY <1>1, <1>3, <2>1, <2>2 DEF ConnectionEnds, StreamType
<1>4. CASE Receives
  <2>1. recvbuf' \in Seq(1 .. MaxPieces) /\ inbox' \in Seq(1 .. MaxPieces)
    BY <1>4, CutType DEF Receives, StreamType
  <2>2. excused' \in SUBSET (1 .. MaxPieces)
    <3>. DEFINE D == {k \in DOMAIN recvbuf' : \E i \in 1 .. k - 1 : recvbuf'[i] \in nuls}
    <3>1. excused' = excused \cup {recvbuf'[j] : j \in D}
      BY <1>4 DEF Receives, BehindNul, server
    <3>2. {recvbuf'[j] : j \in D} \subseteq 1 .. MaxPieces
      BY <2>1, ElementsType
    <3>. HIDE DEF D
    <3>. QED BY <3>1, <3>2 DEF StreamType
  <2>. QED BY <1>1, <1>4, <2>1, <2>2 DEF Receives, server, StreamType
<1>5. CASE Replies
  <2>1. reply' \in {"none", "OK", "HACK_DETECTED"}
    BY <1>5 DEF Replies, Statuses
  <2>2. echoed' \in Seq(1 .. MaxPieces)
    <3>1. ASSUME NEW n \in 0 .. Len(recvbuf)
          PROVE  echoed \o SubSeq(recvbuf, 1, n) \in Seq(1 .. MaxPieces)
      BY DEF StreamType
    <3>2. echoed' = echoed
            \/ \E n \in 0 .. Len(recvbuf) : echoed' = echoed \o SubSeq(recvbuf, 1, n)
      BY <1>5 DEF Replies
    <3>. QED BY <3>1, <3>2 DEF StreamType
  <2>3. excused' \in SUBSET (1 .. MaxPieces)
    <3>1. {recvbuf[i] : i \in DOMAIN recvbuf} \subseteq 1 .. MaxPieces
      BY ElementsType DEF StreamType
    <3>2. excused' = excused \/ excused' = excused \cup {recvbuf[i] : i \in DOMAIN recvbuf}
      BY <1>5 DEF Replies
    <3>. QED BY <3>1, <3>2 DEF StreamType
  <2>. QED BY <1>1, <1>5, <2>1, <2>2, <2>3 DEF Replies, server, StreamType
<1>. QED BY <1>1, <1>2, <1>3, <1>4, <1>5 DEF Communication

(* So do the game and the server. *)
LEMMA OthersTyped ==
  ASSUME MonitorInv, Others
  PROVE  GameType' /\ MonitorType' /\ StreamType' /\ BoxAtPlace'
<1>. USE ChecksAssumption
<1>. GameType /\ MonitorType /\ StreamType
  BY TypeParts DEF MonitorInv
<1>1. MonitorType' /\ BoxAtPlace'
  BY DEF Others, GameMemory, ServerListens, ServerSends, ServerHangsUp,
         monitor, MonitorType, MonitorInv, BoxAtPlace, Walk
<1>2. CASE GameMemory
  <2>1. StreamType'
    BY <1>2 DEF GameMemory, server, stream, StreamType
  <2>2. ASSUME NEW c \in Check, altered' = [altered EXCEPT ![c] = ~ @]
        PROVE  altered' \in [Check -> BOOLEAN]
    <3>1. (~ altered[c]) \in BOOLEAN
      BY Zenon DEF GameType
    <3>. QED BY <2>2, <3>1, Zenon DEF GameType
  <2>3. GameType'
    BY <1>2, <2>2 DEF GameMemory, GameType
  <2>. QED BY <1>1, <2>1, <2>3
<1>3. CASE ServerListens
  <2>1. listening' \in BOOLEAN
    BY <1>3, Zenon DEF ServerListens
  <2>. QED BY <1>1, <1>3, <2>1 DEF ServerListens, game, stream, GameType, StreamType
<1>4. CASE ServerSends
  <2>1. pieces' \in 1 .. MaxPieces
    BY <1>4 DEF ServerSends, StreamType
  <2>2. inbox' \in Seq(1 .. MaxPieces)
    BY <1>4, <2>1 DEF ServerSends, StreamType
  <2>3. nuls' \in SUBSET (1 .. MaxPieces)
    BY <1>4, <2>1 DEF ServerSends, StreamType
  <2>. QED BY <1>1, <1>4, <2>1, <2>2, <2>3 DEF ServerSends, game, GameType, StreamType
<1>5. CASE ServerHangsUp
  BY <1>1, <1>5 DEF ServerHangsUp, game, stream, GameType, StreamType
<1>. QED BY <1>2, <1>3, <1>4, <1>5 DEF Others

(* The initial state is of the type, and every step keeps it. *)
LEMMA MonitorInductive ==
  /\ Init => MonitorInv
  /\ MonitorInv /\ [Next]_vars => MonitorInv'
<1>1. ASSUME Init
      PROVE  MonitorInv
  <2>1. GameType /\ BoxAtPlace
    BY <1>1 DEF Init, GameType, BoxAtPlace
  <2>2. MonitorType
    <3>1. at = Asleep /\ Asleep \in Asleep .. EndOfPass
      BY <1>1, ChecksAssumption DEF Init, Asleep, EndOfPass
    <3>2. warned \in [Check -> BOOLEAN] /\ box \in BOOLEAN /\ g_bCheatDetected \in BOOLEAN
      BY <1>1 DEF Init
    <3>. QED BY <3>1, <3>2 DEF MonitorType
  <2>3. StreamType
    <3>1. <<>> \in Seq(1 .. MaxPieces)
      OBVIOUS
    <3>2. pieces \in 0 .. MaxPieces
      BY <1>1, ChecksAssumption DEF Init
    <3>3. listening \in BOOLEAN /\ hungUp \in BOOLEAN
      BY <1>1, Zenon DEF Init
    <3>4. nuls = {} /\ excused = {}
      BY <1>1 DEF Init
    <3>. QED BY <1>1, <3>1, <3>2, <3>3, <3>4 DEF Init, StreamType
  <2>. QED BY <2>1, <2>2, <2>3, TypeParts DEF MonitorInv
<1>2. ASSUME MonitorInv, [Next]_vars
      PROVE  MonitorInv'
  <2>1. CASE UNCHANGED vars
    BY <1>2, <2>1 DEF vars, game, monitor, server, stream, MonitorInv, TypeOK, BoxAtPlace, Walk
  <2>2. CASE Next
    BY <1>2, <2>2, MonitorTyped, CommunicationTyped, OthersTyped, TypePartsNext
       DEF Next, MonitorInv
  <2>. QED BY <1>2, <2>1, <2>2
<1>. QED BY <1>1, <1>2

(* The state of both threads always has its type: a pass never leaves its   *)
(* table of places, whatever the memory does and however long a message box *)
(* stays open.                                                              *)
THEOREM ThreadsTyped == Spec => []TypeOK
<1>1. MonitorInv => TypeOK
  BY DEF MonitorInv
<1>. QED BY <1>1, MonitorInductive, PTL DEF Spec

-----------------------------------------------------------------------------
(* The pieces of a connection *)

Talking == comm \in {"recv", "reply"}

(* How many pieces are answered for: neither on their way nor in a buffer    *)
(* that waits for its reply.                                                 *)
Done == pieces - Len(inbox) - (IF comm = "reply" THEN Len(recvbuf) ELSE 0)

(* The pieces on their way, and before them those received, are consecutive. *)
Consecutive ==
  /\ Done >= 0
  /\ \A i \in 1 .. Len(inbox) : inbox[i] = pieces - Len(inbox) + i
  /\ comm = "reply" => \A i \in 1 .. Len(recvbuf) : recvbuf[i] = Done + i

(* What stands behind a NUL in the buffer is known to. *)
BehindExcused ==
  comm = "reply" =>
    \A j \in 1 .. Len(recvbuf) :
      (\E i \in 1 .. j - 1 : recvbuf[i] \in nuls) => recvbuf[j] \in excused

(* What the replies brought back is of the pieces done, in order, and all of *)
(* them that had to be.                                                      *)
InOrder ==
  /\ \A i \in 1 .. Len(echoed) : echoed[i] \in 1 .. Done
  /\ \A i, j \in 1 .. Len(echoed) : i < j => echoed[i] < echoed[j]

Answered ==
  \A p \in 1 .. Done :
    p \in nuls \/ p \in excused \/ \E i \in 1 .. Len(echoed) : echoed[i] = p

(* The strengthening of EchoesInOrder. *)
StreamInv == Talking => Consecutive /\ BehindExcused /\ InOrder /\ Answered

(* Between two connections nothing is left of the last one. *)
BetweenInv == ~ Talking => pieces = 0 /\ inbox = <<>> /\ echoed = <<>>

EchoInv == MonitorInv /\ StreamInv /\ BetweenInv

(* The invariant says what the property asks for: a piece not done is still  *)
(* under way, at the place its number gives it.                              *)
LEMMA StreamImplies ==
  ASSUME EchoInv
  PROVE  EchoesInOrder
<1>. SUFFICES ASSUME Talking PROVE EchoesInOrder
  BY DEF EchoesInOrder, Talking
<1>0. StreamType
  BY TypeParts DEF EchoInv, MonitorInv
<1>1. Consecutive /\ InOrder /\ Answered
  BY DEF EchoInv, StreamInv
<1>2. ASSUME NEW p \in (1 .. pieces) \ (nuls \cup excused)
      PROVE  \/ \E i \in 1 .. Len(echoed) : echoed[i] = p
             \/ \E i \in 1 .. Len(inbox) : inbox[i] = p
             \/ comm = "reply" /\ \E i \in 1 .. Len(recvbuf) : recvbuf[i] = p
  <2>0. pieces \in Nat /\ Len(inbox) \in Nat /\ Len(recvbuf) \in Nat /\ p \in Nat
    BY <1>0 DEF StreamType
  <2>1. CASE p > pieces - Len(inbox)
    <3>1. p - (pieces - Len(inbox)) \in 1 .. Len(inbox)
      BY <2>0, <2>1
    <3>2. inbox[p - (pieces - Len(inbox))] = p
      BY <1>1, <2>0, <3>1 DEF Consecutive
    <3>. QED BY <3>1, <3>2
  <2>2. CASE p <= Done
    BY <1>1, <2>0, <2>2 DEF Answered, Done
  <2>3. CASE p <= pieces - Len(inbox) /\ ~ (p <= Done)
    <3>1. comm = "reply" /\ Done \in Int
      BY <2>0, <2>3 DEF Done
    <3>2. p - Done \in 1 .. Len(recvbuf)
      BY <2>0, <2>3, <3>1 DEF Done
    <3>3. recvbuf[p - Done] = p
      BY <1>1, <2>0, <3>1, <3>2 DEF Consecutive
    <3>. QED BY <3>1, <3>2, <3>3
  <2>. QED BY <2>0, <2>1, <2>2, <2>3
<1>. QED BY <1>1, <1>2 DEF EchoesInOrder, InOrder

(* A step that does not touch the stream. *)
LEMMA StreamUntouched ==
  ASSUME EchoInv, UNCHANGED <<pieces, nuls, stream>>,
         comm' \in {comm, "open", "pause"}
  PROVE  StreamInv'
BY DEF EchoInv, StreamInv, Talking, Consecutive, BehindExcused, InOrder, Answered, Done, stream

(* recv takes the beginning of what is on its way. *)
LEMMA ReceivesKeeps ==
  ASSUME EchoInv, Receives
  PROVE  StreamInv'
<1>0. StreamType /\ comm = "recv" /\ comm' = "reply"
  BY TypeParts DEF EchoInv, MonitorInv, Receives
<1>1. Consecutive /\ InOrder /\ Answered
  BY <1>0 DEF EchoInv, StreamInv, Talking
<1>2. PICK n \in 1 .. Len(inbox) : /\ recvbuf' = SubSeq(inbox, 1, n)
                                   /\ inbox' = SubSeq(inbox, n + 1, Len(inbox))
  BY DEF Receives
<1>3. /\ UNCHANGED <<pieces, nuls, echoed>>
      /\ excused' = excused \cup {recvbuf'[j] : j \in {k \in DOMAIN recvbuf' :
                                    \E i \in 1 .. k - 1 : recvbuf'[i] \in nuls}}
  BY DEF Receives, server, BehindNul
<1>4. /\ Len(recvbuf') = n /\ Len(inbox') = Len(inbox) - n
      /\ DOMAIN recvbuf' = 1 .. n
      /\ \A i \in 1 .. n : recvbuf'[i] = inbox[i]
      /\ \A i \in 1 .. Len(inbox) - n : inbox'[i] = inbox[n + i]
  BY <1>0, <1>2 DEF StreamType
<1>5. pieces \in Nat /\ Len(inbox) \in Nat /\ n \in Nat /\ Len(echoed) \in Nat
  BY <1>0 DEF StreamType
<1>6. Done = pieces - Len(inbox) /\ Done' = Done
  BY <1>0, <1>3, <1>4, <1>5 DEF Done
<1>7. Consecutive'
  BY <1>0, <1>1, <1>3, <1>4, <1>5, <1>6 DEF Consecutive
<1>8. BehindExcused'
  BY <1>3, <1>4 DEF BehindExcused
<1>9. InOrder' /\ Answered'
  BY <1>1, <1>3, <1>6 DEF InOrder, Answered
<1>. QED BY <1>7, <1>8, <1>9 DEF StreamInv

(* A reply brings back the string of the buffer, or is lost. *)
LEMMA RepliesKeeps ==
  ASSUME EchoInv, Replies
  PROVE  StreamInv'
<1>0. StreamType /\ comm = "reply" /\ comm' = "recv"
  BY TypeParts DEF EchoInv, MonitorInv, Replies
<1>1. Consecutive /\ BehindExcused /\ InOrder /\ Answered
  BY <1>0 DEF EchoInv, StreamInv, Talking
<1>2. UNCHANGED <<pieces, nuls, inbox, recvbuf>>
  BY DEF Replies, server
<1>3. /\ pieces \in Nat /\ Len(inbox) \in Nat /\ Len(recvbuf) \in Nat /\ Len(echoed) \in Nat
      /\ DOMAIN recvbuf = 1 .. Len(recvbuf)
  BY <1>0 DEF StreamType
<1>4. Done \in Nat /\ Done' = Done + Len(recvbuf) /\ Done' = pieces - Len(inbox)
  BY <1>0, <1>1, <1>2, <1>3 DEF Done, Consecutive
<1>5. \A i \in 1 .. Len(recvbuf) : recvbuf[i] = Done + i
  BY <1>0, <1>1 DEF Consecutive
<1>6. Consecutive' /\ BehindExcused'
  BY <1>0, <1>1, <1>2, <1>3, <1>4 DEF Consecutive, BehindExcused
<1>7. ASSUME NEW p \in 1 .. Done', ~ (p \in 1 .. Done)
      PROVE  p - Done \in 1 .. Len(recvbuf) /\ recvbuf[p - Done] = p
  BY <1>3, <1>4, <1>5, <1>7
<1>8. CASE UNCHANGED echoed /\ excused' = excused \cup {recvbuf[i] : i \in DOMAIN recvbuf}
  <2>1. InOrder'
    BY <1>1, <1>3, <1>4, <1>8 DEF InOrder
  <2>2. Answered'
    <3>. SUFFICES ASSUME NEW p \in 1 .. Done'
                  PROVE  p \in nuls' \/ p \in excused' \/ \E i \in 1 .. Len(echoed') : echoed'[i] = p
      BY DEF Answered
    <3>1. CASE p \in 1 .. Done
      BY <1>1, <1>2, <1>8, <3>1 DEF Answered
    <3>2. CASE ~ (p \in 1 .. Done)
      BY <1>3, <1>7, <1>8, <3>2
    <3>. QED BY <3>1, <3>2
  <2>. QED BY <1>6, <2>1, <2>2 DEF StreamInv
<1>9. ASSUME NEW n \in 0 .. Len(recvbuf), IsString(n),
             echoed' = echoed \o SubSeq(recvbuf, 1, n), UNCHANGED excused
      PROVE  InOrder' /\ Answered'
  <2>1. /\ Len(echoed') = Len(echoed) + n
        /\ \A i \in 1 .. Len(echoed) : echoed'[i] = echoed[i]
        /\ \A i \in 1 .. n : echoed'[Len(echoed) + i] = recvbuf[i]
    BY <1>0, <1>9 DEF StreamType
  <2>2. \A i \in 1 .. n : echoed'[Len(echoed) + i] = Done + i
    BY <1>5, <2>1
  <2>3. \A i \in 1 .. Len(echoed') :
          i \in 1 .. Len(echoed) \/ (i - Len(echoed) \in 1 .. n /\ echoed'[i] = Done + (i - Len(echoed)))
    <3>1. ASSUME NEW i \in 1 .. Len(echoed'), ~ (i \in 1 .. Len(echoed))
          PROVE  i - Len(echoed) \in 1 .. n /\ Len(echoed) + (i - Len(echoed)) = i
      BY <1>3, <2>1, <3>1
    <3>. QED BY <2>2, <3>1
  <2>4. InOrder'
    <3>1. ASSUME NEW i \in 1 .. Len(echoed')
          PROVE  echoed'[i] \in 1 .. Done'
      BY <1>1, <1>3, <1>4, <2>1, <2>3 DEF InOrder
    <3>2. ASSUME NEW i \in 1 .. Len(echoed'), NEW j \in 1 .. Len(echoed'), i < j
          PROVE  echoed'[i] < echoed'[j]
      <4>1. CASE j \in 1 .. Len(echoed)
        <5>1. i \in 1 .. Len(echoed)
          BY <1>3, <3>2, <4>1
        <5>. QED BY <1>1, <2>1, <3>2, <4>1, <5>1 DEF InOrder
      <4>2. CASE ~ (j \in 1 .. Len(echoed)) /\ i \in 1 .. Len(echoed)
        <5>1. echoed'[i] \in 1 .. Done
          BY <1>1, <2>1, <4>2 DEF InOrder
        <5>. QED BY <1>3, <1>4, <2>3, <4>2, <5>1
      <4>3. CASE ~ (j \in 1 .. Len(echoed)) /\ ~ (i \in 1 .. Len(echoed))
        BY <1>3, <1>4, <2>3, <3>2, <4>3
      <4>. QED BY <4>1, <4>2, <4>3
    <3>. QED BY <3>1, <3>2 DEF InOrder
  <2>5. Answered'
    <3>. SUFFICES ASSUME NEW p \in 1 .. Done'
                  PROVE  p \in nuls' \/ p \in excused' \/ \E i \in 1 .. Len(echoed') : echoed'[i] = p
      BY DEF Answered
    <3>1. CASE p \in 1 .. Done
      <4>1. CASE \E i \in 1 .. Len(echoed) : echoed[i] = p
        <5>1. PICK i \in 1 .. Len(echoed) : echoed[i] = p
          BY <4>1
        <5>2. i \in 1 .. Len(echoed') /\ echoed'[i] = p
          BY <1>3, <2>1, <5>1
        <5>. QED BY <5>2
      <4>. QED BY <1>1, <1>2, <1>9, <3>1, <4>1 DEF Answered
    <3>2. CASE ~ (p \in 1 .. Done)
      <4>. DEFINE k == p - Done
      <4>1. k \in 1 .. Len(recvbuf) /\ recvbuf[k] = p
        BY <1>7, <3>2
      <4>2. CASE k <= n
        <5>1. Len(echoed) + k \in 1 .. Len(echoed') /\ echoed'[Len(echoed) + k] = p
          <6>1. k \in 1 .. n
            BY <4>1, <4>2
          <6>. HIDE DEF k
          <6>. QED BY <1>3, <2>1, <4>1, <6>1
        <5>. QED BY <5>1
      <4>3. CASE k = n + 1
        <5>1. recvbuf[n + 1] \in nuls
          BY <1>3, <1>9, <4>1, <4>3 DEF IsString
        <5>. QED BY <1>2, <4>1, <4>3, <5>1
      <4>4. CASE k > n + 1
        <5>1. recvbuf[n + 1] \in nuls /\ n + 1 \in 1 .. k - 1
          BY <1>3, <1>9, <4>1, <4>4 DEF IsString
        <5>2. recvbuf[k] \in excused
          BY <1>0, <1>1, <4>1, <5>1 DEF BehindExcused
        <5>. QED BY <1>9, <4>1, <5>2
      <4>. QED BY <1>3, <4>1, <4>2, <4>3, <4>4
    <3>. QED BY <3>1, <3>2
  <2>. QED BY <2>4, <2>5
<1>10. CASE /\ \E n \in 0 .. Len(recvbuf) :
                  IsString(n) /\ echoed' = echoed \o SubSeq(recvbuf, 1, n)
            /\ UNCHANGED excused
  BY <1>6, <1>9, <1>10 DEF StreamInv
<1>. QED BY <1>8, <1>10 DEF Replies

(* One more piece at the end of the stream. *)
LEMMA SendsKeeps ==
  ASSUME EchoInv, ServerSends
  PROVE  StreamInv'
<1>0. StreamType /\ Talking
  BY TypeParts DEF EchoInv, MonitorInv, ServerSends, Talking
<1>1. Consecutive /\ BehindExcused /\ InOrder /\ Answered
  BY <1>0 DEF EchoInv, StreamInv
<1>2. /\ UNCHANGED <<comm, recvbuf, echoed, excused>>
      /\ pieces' = pieces + 1
      /\ nuls' = nuls \/ nuls' = nuls \cup {pieces + 1}
      /\ inbox' = Append(inbox, pieces + 1)
  BY DEF ServerSends
<1>3. /\ pieces \in Nat /\ Len(inbox) \in Nat /\ Len(recvbuf) \in Nat
      /\ Len(inbox') = Len(inbox) + 1
      /\ \A i \in 1 .. Len(inbox) : inbox'[i] = inbox[i]
      /\ inbox'[Len(inbox) + 1] = pieces + 1
  BY <1>0, <1>2 DEF StreamType
<1>4. Done' = Done /\ Done \in Int
  BY <1>2, <1>3 DEF Done
<1>5. Consecutive'
  BY <1>1, <1>2, <1>3, <1>4 DEF Consecutive
<1>6. BehindExcused'
  <2>. SUFFICES ASSUME comm = "reply", NEW j \in 1 .. Len(recvbuf),
                       NEW i \in 1 .. j - 1, recvbuf[i] \in nuls'
                PROVE  recvbuf[j] \in excused
    BY <1>2 DEF BehindExcused
  <2>1. i \in 1 .. Len(recvbuf) /\ recvbuf[i] = Done + i /\ Done + i <= pieces
    BY <1>1, <1>3, <1>4 DEF Consecutive, Done
  <2>2. recvbuf[i] \in nuls
    BY <1>2, <1>3, <1>4, <2>1
  <2>. QED BY <1>1, <2>2 DEF BehindExcused
<1>7. InOrder' /\ Answered'
  BY <1>1, <1>2, <1>4 DEF InOrder, Answered
<1>. QED BY <1>5, <1>6, <1>7 DEF StreamInv

(* Every step keeps what is said of the stream. *)
LEMMA StreamKept ==
  ASSUME EchoInv, [Next]_vars
  PROVE  StreamInv'
<1>1. CASE UNCHANGED vars
  BY <1>1, StreamUntouched DEF vars, server
<1>2. CASE Monitor \/ GameMemory \/ OpenFails \/ PauseOver
             \/ ServerListens \/ ServerHangsUp
  <2>1. UNCHANGED <<pieces, nuls, stream>> /\ comm' \in {comm, "open", "pause"}
    BY <1>2 DEF Monitor, Wake, Look, Dismissed, WalkChain, Fault, Publish, GameMemory,
                OpenFails, PauseOver, ServerListens, ServerHangsUp, server
  <2>. QED BY <2>1, StreamUntouched
<1>3. CASE Connects
  <2>1. /\ comm' = "recv" /\ pieces' = 0 /\ inbox' = <<>> /\ echoed' = <<>>
    BY <1>3 DEF Connects, server, stream, EchoInv, BetweenInv, Talking
  <2>2. Done' = 0
    <3>1. Len(inbox') = 0
      BY <2>1
    <3>2. Done' = pieces' - Len(inbox') - 0
      BY <2>1 DEF Done
    <3>. QED BY <2>1, <3>1, <3>2
  <2>. QED BY <2>1, <2>2 DEF StreamInv, Consecutive, BehindExcused, InOrder, Answered
<1>4. CASE ConnectionEnds
  BY <1>4 DEF ConnectionEnds, StreamInv, Talking
<1>. QED
  BY <1>1, <1>2, <1>3, <1>4, ReceivesKeeps, RepliesKeeps, SendsKeeps
     DEF Next, Communication, Others

(* A connection ends with nothing left of it. *)
LEMMA BetweenKept ==
  ASSUME EchoInv, [Next]_vars
  PROVE  BetweenInv'
<1>1. CASE UNCHANGED <<comm, pieces, inbox, echoed>>
  BY <1>1 DEF EchoInv, BetweenInv, Talking
<1>2. CASE UNCHANGED vars \/ Monitor \/ GameMemory \/ ServerListens
  BY <1>1, <1>2 DEF vars, server, stream, Monitor, Wake, Look, Dismissed, WalkChain, Fault,
                    Publish, GameMemory, ServerListens
<1>3. CASE OpenFails \/ PauseOver
  BY <1>3 DEF OpenFails, PauseOver, server, stream, EchoInv, BetweenInv, Talking
<1>4. CASE Connects \/ Receives \/ Replies \/ ServerSends \/ ServerHangsUp
  BY <1>4 DEF Connects, Receives, Replies, ServerSends, ServerHangsUp, BetweenInv, Talking
<1>5. CASE ConnectionEnds
  BY <1>5 DEF ConnectionEnds, BetweenInv
<1>. QED BY <1>2, <1>3, <1>4, <1>5 DEF Next, Communication, Others

(* On one connection the replies bring back what the server sent in order    *)
(* and once, however much it is, however TCP cuts the stream and whatever    *)
(* the buffer held before; what was received and is missing stood behind a   *)
(* NUL in what one recv returned, or its reply was lost.                     *)
THEOREM AlwaysInOrder == Spec => []EchoesInOrder
<1>1. Init => EchoInv
  BY MonitorInductive DEF Init, EchoInv, StreamInv, BetweenInv, Talking
<1>2. EchoInv /\ [Next]_vars => EchoInv'
  BY MonitorInductive, StreamKept, BetweenKept DEF EchoInv
<1>. QED BY <1>1, <1>2, StreamImplies, PTL DEF Spec
=============================================================================
