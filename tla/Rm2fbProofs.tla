----------------------------- MODULE Rm2fbProofs -----------------------------
(***************************************************************************)
(* Theorems about the framebuffer server, for any threads, viewers and     *)
(* bounds.                                                                 *)
(***************************************************************************)
EXTENDS Rm2fb, SequenceTheorems, FiniteSetTheorems, TLAPS

(* The phases of a round after poll *)
Round == {"control", "update", "stream", "accept", "read"}

(* What TypeOK needs to be preserved: there is a message to read when the    *)
(* loop reads one, and every poll result has a connection.                   *)
TypeInv ==
  /\ TypeOK
  /\ phase = "control" => queue # <<>>
  /\ phase \in Round => Len(polled) <= Len(tcpClients)

------------------------------------------------------------------------------
(* What remove_if leaves is a sequence of the connections it keeps. *)
LEMMA KeptType ==
  ASSUME NEW S, NEW s \in Seq(S), NEW keep \in SUBSET S, NEW r \in Kept(s, keep)
  PROVE  r \in Seq(S)
<1>1. PICK n \in 0 .. Len(s) : r \in [1 .. n -> keep]
  BY DEF Kept
<1>2. n \in Nat
  <2>1. Len(s) \in Nat
    OBVIOUS
  <2> QED BY <2>1
<1>3. r \in [1 .. n -> S]
  BY <1>1
<1> QED BY <1>2, <1>3, IsASeq

(* A queued message that is read is a message, and the rest is a queue. *)
LEMMA HeadMessage ==
  ASSUME TypeInv, phase = "control"
  PROVE  /\ Head(queue) \in Message
         /\ Tail(queue) \in Seq(Message)
         /\ Head(queue).from \in Thread
<1>1. queue \in Seq(Message) /\ queue # <<>>
  BY DEF TypeInv, TypeOK
<1>2. Head(queue) \in Message /\ Tail(queue) \in Seq(Message)
  BY <1>1, HeadTailProperties
<1> QED BY <1>2 DEF Message

(* Answering a thread keeps the answers countable. *)
LEMMA AnsweredType ==
  ASSUME TypeOK, NEW t \in Thread
  PROVE  Answered(t) \in [Thread -> Nat]
BY SocketAssumption DEF TypeOK, Answered

(* Writing a frame keeps the types of the connection and its frames. *)
LEMMA FrameType ==
  ASSUME TypeOK, NEW v \in Viewer, DoTCPUpdate(v)
  PROVE  /\ conn' \in [Viewer -> {"away", "backlog", "open", "closed"}]
         /\ outbox' \in [Viewer -> Seq(0 .. MaxDraws)]
<1>1. CASE conn[v] = "closed" /\ UNCHANGED <<conn, outbox>>
  BY <1>1 DEF TypeOK
<1>2. CASE /\ \E c \in {"open", "closed"} : conn' = [conn EXCEPT ![v] = c]
           /\ UNCHANGED outbox
  BY <1>2 DEF TypeOK
<1>3. CASE /\ outbox' = [outbox EXCEPT ![v] = Append(@, fb)]
           /\ UNCHANGED conn
  <2>1. Append(outbox[v], fb) \in Seq(0 .. MaxDraws)
    BY AppendProperties DEF TypeOK
  <2> QED BY <1>3, <2>1 DEF TypeOK
<1> QED BY <1>1, <1>2, <1>3 DEF DoTCPUpdate

(* The connection at the cursor is a connection. *)
LEMMA CursorType ==
  ASSUME TypeInv,
         \/ phase = "stream" /\ cursor <= Len(tcpClients)
         \/ phase = "read" /\ cursor <= Len(polled)
  PROVE  tcpClients[cursor] \in Viewer /\ cursor \in DOMAIN tcpClients
<1>1. cursor \in Nat \ {0} /\ tcpClients \in Seq(Viewer) /\ polled \in Seq(BOOLEAN)
  BY DEF TypeInv, TypeOK
<1>2. cursor <= Len(tcpClients)
  BY <1>1 DEF TypeInv, Round
<1> QED BY <1>1, <1>2, ElementOfSeq

------------------------------------------------------------------------------
(* Type correctness, by the kind of the step *)

LEMMA TypeInit == Init => TypeInv
<1> SUFFICES ASSUME Init PROVE TypeInv
  OBVIOUS
<1> USE BoundAssumption
<1>1. <<>> \in Seq(Message) /\ <<>> \in Seq(Viewer) /\ <<>> \in Seq(BOOLEAN)
      /\ <<>> \in Seq({"GetUpdate", "Input"}) /\ <<>> \in Seq(0 .. MaxDraws)
  OBVIOUS
<1>2. 0 \in 0 .. MaxDraws /\ 0 \in 0 .. MaxCrashes
  OBVIOUS
<1>3. fb \in 0 .. MaxDraws /\ last \in 0 .. MaxDraws /\ safe \in 0 .. MaxDraws
      /\ panel \in 0 .. MaxDraws
      /\ backup \in 0 .. MaxDraws /\ crashes \in 0 .. MaxCrashes
  BY <1>2 DEF Init
<1>4. pc \in [Thread -> {"closed", "idle", "waiting", "ended"}]
      /\ want \in [Thread -> 0 .. MaxDraws] /\ replies \in [Thread -> Nat]
      /\ performed \subseteq Thread /\ handling \in Message
  BY <1>2 DEF Init
<1>5. conn \in [Viewer -> {"away", "backlog", "open", "closed"}]
      /\ gone \subseteq Viewer /\ asked \subseteq Viewer
      /\ seen \in [Viewer -> 0 .. MaxDraws]
  BY <1>2 DEF Init
<1>6. inbox \in [Viewer -> Seq({"GetUpdate", "Input"})]
      /\ outbox \in [Viewer -> Seq(0 .. MaxDraws)]
  BY <1>1 DEF Init
<1>7. queue \in Seq(Message) /\ tcpClients \in Seq(Viewer)
      /\ polled \in Seq(BOOLEAN) /\ acceptable \in BOOLEAN
  BY <1>1 DEF Init
<1>8. phase = "start" /\ cursor \in Nat \ {0}
  BY DEF Init
<1>9. phase \in Phases /\ phase # "control" /\ phase \notin Round
  BY <1>8 DEF Phases, Round
<1> QED BY <1>3, <1>4, <1>5, <1>6, <1>7, <1>8, <1>9 DEF TypeInv, TypeOK

LEMMA TypeThread ==
  ASSUME TypeInv, NEW t \in Thread,
         \/ Open(t) \/ Draw(t) \/ Receive(t) \/ Exit(t)
         \/ \E kind \in Kind \ {"check"} : SendUpdate(t, kind)
  PROVE  TypeInv'
<1> USE BoundAssumption, SocketAssumption
<1>1. ASSUME NEW kind \in Kind, NEW d \in 0 .. MaxDraws, Request(t, kind, d)
      PROVE  TypeInv'
  <2>1. /\ [from |-> t, kind |-> kind] \in Message
        /\ queue \in Seq(Message)
    BY DEF Message, TypeInv, TypeOK
  <2>2. queue' \in Seq(Message) /\ queue' # <<>>
    BY <1>1, <2>1, AppendProperties DEF Request
  <2> QED BY <1>1, <2>2 DEF Request, TypeInv, TypeOK, vars, screen, callers,
             control, loop, remote
<1>2. CASE Open(t)
  BY <1>1, <1>2 DEF Open, Kind
<1>3. CASE Draw(t)
  BY <1>3 DEF Draw, TypeInv, TypeOK, callers, control, loop, remote
<1>4. CASE Receive(t)
  BY <1>4 DEF Receive, HasAnswer, TypeInv, TypeOK, screen, loop, remote
<1>5. CASE Exit(t)
  BY <1>5 DEF Exit, TypeInv, TypeOK, screen, loop, remote
<1>6. CASE \E kind \in Kind \ {"check"} : SendUpdate(t, kind)
  <2>1. last \in 0 .. MaxDraws
    BY DEF TypeInv, TypeOK
  <2> QED BY <1>1, <1>6, <2>1 DEF SendUpdate
<1> QED BY <1>2, <1>3, <1>4, <1>5, <1>6

LEMMA TypeViewer ==
  ASSUME TypeInv, NEW v \in Viewer,
         \/ Connect(v) \/ ReadFrame(v) \/ Leave(v)
         \/ \E m \in {"GetUpdate", "Input"} : SendMessage(v, m)
  PROVE  TypeInv'
<1>1. CASE Connect(v)
  BY <1>1 DEF Connect, TypeInv, TypeOK, screen, callers, control, loop
<1>2. CASE ReadFrame(v)
  <2>1. outbox[v] \in Seq(0 .. MaxDraws) /\ outbox[v] # <<>>
    BY <1>2 DEF ReadFrame, TypeInv, TypeOK
  <2>2. Head(outbox[v]) \in 0 .. MaxDraws /\ Tail(outbox[v]) \in Seq(0 .. MaxDraws)
    BY <2>1, HeadTailProperties
  <2> QED BY <1>2, <2>2 DEF ReadFrame, TypeInv, TypeOK, screen, callers, control, loop
<1>3. CASE Leave(v)
  <2>1. <<>> \in Seq(0 .. MaxDraws)
    OBVIOUS
  <2> QED BY <1>3, <2>1 DEF Leave, TypeInv, TypeOK, screen, callers, control, loop
<1>4. CASE \E m \in {"GetUpdate", "Input"} : SendMessage(v, m)
  <2> PICK m \in {"GetUpdate", "Input"} : SendMessage(v, m)
    BY <1>4
  <2>1. Append(inbox[v], m) \in Seq({"GetUpdate", "Input"})
    BY AppendProperties DEF TypeInv, TypeOK
  <2> QED BY <2>1 DEF SendMessage, TypeInv, TypeOK, screen, callers, control, loop
<1> QED BY <1>1, <1>2, <1>3, <1>4

LEMMA TypeServer ==
  ASSUME TypeInv, Server
  PROVE  TypeInv'
<1> USE BoundAssumption, SocketAssumption
<1>1. CASE Backup
  BY <1>1 DEF Backup, TypeInv, TypeOK, Phases, Round, screen, callers, control, remote
<1>2. CASE InitThreads
  BY <1>2 DEF InitThreads, TypeInv, TypeOK, Phases, Round, callers, control, remote
<1>3. CASE Restore
  BY <1>3 DEF Restore, TypeInv, TypeOK, Phases, Round, callers, control, remote
<1>4. CASE Poll
  <2>1. tcpClients \in Seq(Viewer)
    BY DEF TypeInv, TypeOK
  <2>2. polled' = [i \in 1 .. Len(tcpClients) |-> Readable(tcpClients[i])]
    BY <1>4, <2>1 DEF Poll
  <2>3. \A i \in 1 .. Len(tcpClients) : Readable(tcpClients[i]) \in BOOLEAN
    BY DEF Readable
  <2>4. polled' \in Seq(BOOLEAN) /\ Len(polled') = Len(tcpClients)
    <3>1. Len(tcpClients) \in Nat
      BY <2>1
    <3>2. polled' \in [1 .. Len(tcpClients) -> BOOLEAN]
      BY <2>2, <2>3
    <3> QED BY <3>1, <3>2, LenProperties, IsASeq
  <2>5. acceptable' \in BOOLEAN
    BY <1>4 DEF Poll, Acceptable
  <2>6. phase' = "control" \/ phase' = "accept"
    BY <1>4 DEF Poll
  <2>7. phase' = "control" => queue # <<>>
    BY <1>4 DEF Poll
  <2>8. Len(polled') <= Len(tcpClients)
    BY <2>1, <2>4
  <2>9. UNCHANGED <<fb, last, safe, panel, pc, want, performed, queue, replies, backup,
                    handling, cursor, tcpClients, conn, gone, asked, inbox,
                    outbox, seen, crashes>>
    BY <1>4 DEF Poll, screen, callers, control, remote
  <2> QED BY <2>4, <2>5, <2>6, <2>7, <2>8, <2>9 DEF TypeInv, TypeOK, Phases
<1>5. CASE InitCheck
  <2>1. /\ Head(queue) \in Message /\ Tail(queue) \in Seq(Message)
        /\ Head(queue).from \in Thread
    BY <1>5, HeadMessage DEF InitCheck
  <2>2. Answered(Head(queue).from) \in [Thread -> Nat]
    BY <2>1, AnsweredType DEF TypeInv
  <2> QED BY <1>5, <2>1, <2>2 DEF InitCheck, AfterCheck, TypeInv, TypeOK, Phases,
             Round, screen, remote
<1>6. CASE TakeUpdate
  <2>1. Head(queue) \in Message /\ Tail(queue) \in Seq(Message)
    BY <1>6, HeadMessage DEF TakeUpdate
  <2> QED BY <1>6, <2>1 DEF TakeUpdate, TypeInv, TypeOK, Phases, Round, screen,
             callers, remote
<1>7. CASE DoUpdate
  <2>1. handling.from \in Thread
    BY DEF TypeInv, TypeOK, Message
  <2> QED BY <1>7, <2>1 DEF DoUpdate, Updates, TypeInv, TypeOK, Phases, Round,
             screen, control, remote
<1>8. CASE Stream
  <2>1. tcpClients[cursor] \in Viewer
    BY <1>8, CursorType DEF Stream
  <2>2. /\ conn' \in [Viewer -> {"away", "backlog", "open", "closed"}]
        /\ outbox' \in [Viewer -> Seq(0 .. MaxDraws)]
    BY <1>8, <2>1, FrameType DEF Stream, TypeInv
  <2>3. cursor' \in Nat \ {0}
    BY <1>8 DEF Stream, TypeInv, TypeOK
  <2>4. UNCHANGED <<fb, last, safe, panel, pc, want, performed, queue, replies, phase,
                    backup, handling, tcpClients, polled, acceptable, gone,
                    asked, inbox, seen, crashes>>
    BY <1>8 DEF Stream, screen, callers, control
  <2> QED BY <2>2, <2>3, <2>4 DEF TypeInv, TypeOK
<1>9. CASE Answer
  <2>1. handling.from \in Thread
    BY DEF TypeInv, TypeOK, Message
  <2>2. Answered(handling.from) \in [Thread -> Nat]
    BY <2>1, AnsweredType DEF TypeInv
  <2> QED BY <1>9, <2>2 DEF Answer, TypeInv, TypeOK, Phases, Round, screen,
             callers, remote
<1>10. CASE Accept
  <2>1. /\ tcpClients' \in Seq(Viewer)
        /\ Len(tcpClients) <= Len(tcpClients')
        /\ conn' \in [Viewer -> {"away", "backlog", "open", "closed"}]
    <3>1. tcpClients \in Seq(Viewer) /\ Len(tcpClients) \in Nat
      BY DEF TypeInv, TypeOK
    <3>2. CASE acceptable
      <4> PICK v \in Viewer : /\ conn' = [conn EXCEPT ![v] = "open"]
                              /\ tcpClients' = Append(tcpClients, v)
        BY <1>10, <3>2 DEF Accept, Accepted
      <4>1. tcpClients' \in Seq(Viewer) /\ Len(tcpClients') = Len(tcpClients) + 1
        BY <3>1, AppendProperties
      <4> QED BY <3>1, <4>1 DEF TypeInv, TypeOK
    <3>3. CASE ~ acceptable
      BY <1>10, <3>1, <3>3 DEF Accept, TypeInv, TypeOK
    <3> QED BY <3>2, <3>3
  <2>2. phase = "accept" /\ phase' = "read" /\ cursor' = 1
    BY <1>10 DEF Accept
  <2>3. Len(polled) <= Len(tcpClients')
    <3>1. Len(polled) \in Nat /\ Len(tcpClients) \in Nat /\ Len(tcpClients') \in Nat
      BY <2>1 DEF TypeInv, TypeOK
    <3> QED BY <2>1, <2>2, <3>1 DEF TypeInv, Round
  <2>4. UNCHANGED <<fb, last, safe, panel, pc, want, performed, queue, replies, backup,
                    handling, polled, acceptable, gone, asked, inbox, outbox,
                    seen, crashes>>
    BY <1>10 DEF Accept, screen, callers, control
  <2> QED BY <2>1, <2>2, <2>3, <2>4 DEF TypeInv, TypeOK, Phases
<1>11. CASE SkipClient
  BY <1>11 DEF SkipClient, TypeInv, TypeOK, screen, callers, control, remote
<1>12. CASE Erase
  <2>1. tcpClients' \in Seq(Viewer)
    BY <1>12, KeptType DEF Erase, TypeInv, TypeOK
  <2> QED BY <1>12, <2>1 DEF Erase, TypeInv, TypeOK, Phases, Round, screen,
             callers, control, remote
<1>13. ASSUME NEW v \in Viewer, ReadMessage(v) PROVE TypeInv'
  <2>1. inbox[v] \in Seq({"GetUpdate", "Input"}) /\ inbox[v] # <<>>
    BY <1>13 DEF ReadMessage, TypeInv, TypeOK
  <2>2. Tail(inbox[v]) \in Seq({"GetUpdate", "Input"})
    BY <2>1, HeadTailProperties
  <2>3. inbox' \in [Viewer -> Seq({"GetUpdate", "Input"})]
    BY <1>13, <2>2 DEF ReadMessage, TypeInv, TypeOK
  <2>4. /\ conn' \in [Viewer -> {"away", "backlog", "open", "closed"}]
        /\ outbox' \in [Viewer -> Seq(0 .. MaxDraws)]
    <3>1. CASE DoTCPUpdate(v)
      BY <3>1, FrameType DEF TypeInv
    <3>2. CASE UNCHANGED <<conn, outbox>>
      BY <3>2 DEF TypeInv, TypeOK
    <3> QED BY <1>13, <3>1, <3>2 DEF ReadMessage
  <2>5. cursor' \in Nat \ {0}
    BY <1>13 DEF ReadMessage, Reads, TypeInv, TypeOK
  <2>6. UNCHANGED <<fb, last, safe, panel, pc, want, performed, queue, replies, phase,
                    backup, handling, tcpClients, polled, acceptable, gone,
                    asked, seen, crashes>>
    BY <1>13 DEF ReadMessage, Reads, screen, callers, control
  <2> QED BY <2>3, <2>4, <2>5, <2>6 DEF TypeInv, TypeOK
<1>14. ASSUME NEW v \in Viewer, ReadEof(v) PROVE TypeInv'
  BY <1>14 DEF ReadEof, Reads, TypeInv, TypeOK, screen, callers, control
<1> QED BY <1>1, <1>2, <1>3, <1>4, <1>5, <1>6, <1>7, <1>8, <1>9, <1>10, <1>11,
           <1>12, <1>13, <1>14 DEF Server

LEMMA TypeCrash ==
  ASSUME TypeInv, Crash
  PROVE  TypeInv'
<1>1. <<>> \in Seq(Viewer) /\ <<>> \in Seq(BOOLEAN)
  OBVIOUS
<1>2. crashes' \in 0 .. MaxCrashes
  BY BoundAssumption DEF Crash, TypeInv, TypeOK
<1>3. conn' \in [Viewer -> {"away", "backlog", "open", "closed"}]
  BY DEF Crash, TypeInv, TypeOK
<1>4. /\ tcpClients' \in Seq(Viewer) /\ polled' \in Seq(BOOLEAN)
      /\ acceptable' \in BOOLEAN /\ cursor' \in Nat \ {0}
  <2>1. tcpClients' = <<>> /\ polled' = <<>> /\ acceptable' = FALSE /\ cursor' = 1
    BY DEF Crash
  <2>2. 1 \in Nat \ {0}
    OBVIOUS
  <2> QED BY <1>1, <2>1, <2>2, Zenon
<1>5. phase' \in Phases /\ phase' # "control" /\ phase' \notin Round
  BY DEF Crash, Phases, Round
<1>6. /\ UNCHANGED <<fb, last, panel, pc, want, performed, queue, replies, backup,
                     handling, gone, asked, inbox, outbox, seen>>
      /\ safe' = fb
  BY DEF Crash, callers, control
<1> QED BY <1>2, <1>3, <1>4, <1>5, <1>6 DEF TypeInv, TypeOK

LEMMA TypeStep == TypeInv /\ [Next]_vars => TypeInv'
<1> SUFFICES ASSUME TypeInv, [Next]_vars PROVE TypeInv'
  OBVIOUS
<1>1. CASE Server
  BY <1>1, TypeServer
<1>2. CASE Crash
  BY <1>2, TypeCrash
<1>3. CASE \E t \in Thread :
             \/ Open(t) \/ Draw(t) \/ Receive(t) \/ Exit(t)
             \/ \E kind \in Kind \ {"check"} : SendUpdate(t, kind)
  BY <1>3, TypeThread
<1>4. CASE \E v \in Viewer :
             \/ Connect(v) \/ ReadFrame(v) \/ Leave(v)
             \/ \E m \in {"GetUpdate", "Input"} : SendMessage(v, m)
  BY <1>4, TypeViewer
<1>5. CASE UNCHANGED vars
  BY <1>5 DEF vars, screen, callers, control, loop, remote, TypeInv, TypeOK
<1> QED BY <1>1, <1>2, <1>3, <1>4, <1>5 DEF Next

(* Every variable keeps its type, and the loop never reads a control message *)
(* from an empty socket.                                                     *)
THEOREM Rm2fbTyped == Spec => []TypeOK
<1>1. TypeInv => TypeOK
  BY DEF TypeInv
<1> QED BY <1>1, TypeInit, TypeStep, PTL DEF Spec

------------------------------------------------------------------------------
(* The loop and its connections.  The accepted connections are distinct and  *)
(* only the server takes them out of the backlog, so what poll has reported  *)
(* of them stays true until the loop itself reads, whatever viewers send and *)
(* whichever connections are accepted or closed in the meantime.             *)

Waiting == {"control", "update", "stream", "accept"}

(* The connection at i has not had its turn in this round. *)
ToRead(i) == phase \in Round /\ (phase = "read" => cursor <= i)

LoopInv ==
  /\ \A i, j \in DOMAIN tcpClients : tcpClients[i] = tcpClients[j] => i = j
  /\ \A i \in DOMAIN tcpClients : conn[tcpClients[i]] \in {"open", "closed"}
  /\ \A i \in DOMAIN polled : ToRead(i) /\ polled[i] =>
       conn[tcpClients[i]] = "closed" \/ Readable(tcpClients[i])
  /\ phase \in Waiting /\ acceptable => \E v \in Viewer : conn[v] = "backlog"

(* In a round every poll result belongs to a connection. *)
LEMMA PolledClient ==
  ASSUME TypeInv, phase \in Round, NEW i \in DOMAIN polled
  PROVE  i \in DOMAIN tcpClients /\ tcpClients[i] \in Viewer /\ i \in Nat
<1>1. /\ polled \in Seq(BOOLEAN) /\ tcpClients \in Seq(Viewer)
      /\ Len(polled) <= Len(tcpClients)
  BY DEF TypeInv, TypeOK
<1>2. i \in 1 .. Len(polled) /\ Len(polled) \in Nat /\ Len(tcpClients) \in Nat
  BY <1>1, LenProperties
<1>3. i \in 1 .. Len(tcpClients)
  BY <1>1, <1>2
<1> QED BY <1>1, <1>3, ElementOfSeq, LenProperties

(* Every connection in the loop's list is one of the viewers'. *)
LEMMA ClientIsViewer ==
  ASSUME TypeInv, NEW i \in DOMAIN tcpClients
  PROVE  tcpClients[i] \in Viewer /\ i \in Nat
<1>1. tcpClients \in Seq(Viewer)
  BY DEF TypeInv, TypeOK
<1> QED BY <1>1, ElementOfSeq, LenProperties

(* A step that leaves the lists alone, reopens nothing and takes no input    *)
(* from a connection that is still to be read.                               *)
LEMMA LoopFrame ==
  ASSUME TypeInv, LoopInv,
         tcpClients' = tcpClients, polled' = polled, acceptable' = acceptable,
         phase' \in Waiting => phase \in Waiting,
         \A i \in DOMAIN polled : ToRead(i)' => ToRead(i),
         \A i \in DOMAIN polled :
            ToRead(i)' /\ Readable(tcpClients[i]) => Readable(tcpClients[i])',
         \A v \in Viewer :
            /\ conn[v] \in {"open", "closed"} => conn'[v] \in {"open", "closed"}
            /\ conn[v] \in {"closed", "backlog"} => conn'[v] = conn[v]
  PROVE  LoopInv'
<1>1. (\A i, j \in DOMAIN tcpClients : tcpClients[i] = tcpClients[j] => i = j)'
  BY DEF LoopInv
<1>2. (\A i \in DOMAIN tcpClients : conn[tcpClients[i]] \in {"open", "closed"})'
  BY ClientIsViewer DEF LoopInv
<1>3. (\A i \in DOMAIN polled : ToRead(i) /\ polled[i] =>
         conn[tcpClients[i]] = "closed" \/ Readable(tcpClients[i]))'
  <2> SUFFICES ASSUME NEW i \in DOMAIN polled, ToRead(i)', polled[i]
               PROVE  conn'[tcpClients[i]] = "closed" \/ Readable(tcpClients[i])'
    OBVIOUS
  <2>1. ToRead(i)
    OBVIOUS
  <2>2. tcpClients[i] \in Viewer
    BY <2>1, PolledClient DEF ToRead
  <2>3. conn[tcpClients[i]] = "closed" \/ Readable(tcpClients[i])
    BY <2>1 DEF LoopInv
  <2> QED BY <2>2, <2>3
<1>4. (phase \in Waiting /\ acceptable => \E v \in Viewer : conn[v] = "backlog")'
  BY DEF LoopInv
<1> QED BY <1>1, <1>2, <1>3, <1>4 DEF LoopInv

(* Steps that change neither the connections nor the loop *)
LEMMA LoopIdle ==
  ASSUME TypeInv, LoopInv, UNCHANGED <<loop, conn>>,
         \A v \in Viewer : Readable(v) => Readable(v)'
  PROVE  LoopInv'
<1>1. UNCHANGED <<phase, cursor, tcpClients, polled, acceptable, conn>>
  BY DEF loop
<1>2. \A i \in DOMAIN polled : ToRead(i)' => ToRead(i)
  BY <1>1 DEF ToRead
<1>3. \A i \in DOMAIN polled :
        ToRead(i)' /\ Readable(tcpClients[i]) => Readable(tcpClients[i])'
  BY <1>1, <1>2, PolledClient DEF ToRead
<1> QED BY <1>1, <1>2, <1>3, LoopFrame

(* Writing a frame opens nothing and empties no backlog. *)
LEMMA FrameConn ==
  ASSUME TypeInv, NEW u \in Viewer, DoTCPUpdate(u)
  PROVE  \A v \in Viewer :
            /\ conn[v] \in {"open", "closed"} => conn'[v] \in {"open", "closed"}
            /\ conn[v] \in {"closed", "backlog"} => conn'[v] = conn[v]
BY DEF DoTCPUpdate, TypeInv, TypeOK

LEMMA LoopPoll ==
  ASSUME TypeInv, LoopInv, Poll
  PROVE  LoopInv'
<1>1. tcpClients \in Seq(Viewer)
  BY DEF TypeInv, TypeOK
<1>2. polled' = [i \in DOMAIN tcpClients |-> Readable(tcpClients[i])]
      /\ acceptable' = Acceptable
  BY DEF Poll
<1>3. UNCHANGED <<tcpClients, conn, inbox, gone>>
  BY DEF Poll, remote
<1>4. \A i \in DOMAIN polled' : polled'[i] => Readable(tcpClients[i])'
  BY <1>2, <1>3 DEF Readable
<1>5. acceptable' => \E v \in Viewer : conn'[v] = "backlog"
  BY <1>2, <1>3 DEF Acceptable
<1> QED BY <1>3, <1>4, <1>5 DEF LoopInv

LEMMA LoopAccept ==
  ASSUME TypeInv, LoopInv, Accept
  PROVE  LoopInv'
<1>1. /\ polled' = polled /\ phase = "accept" /\ phase' = "read"
      /\ UNCHANGED <<inbox, gone>>
  BY DEF Accept
<1>2. CASE ~ acceptable
  <2>1. UNCHANGED <<conn, tcpClients, acceptable>>
    BY <1>2 DEF Accept
  <2>2. \A i \in DOMAIN polled : ToRead(i)
    BY <1>1 DEF ToRead, Round
  <2>3. \A v \in Viewer : Readable(v)' = Readable(v)
    BY <1>1 DEF Readable
  <2>4. \A i \in DOMAIN polled :
          ToRead(i)' /\ Readable(tcpClients[i]) => Readable(tcpClients[i])'
    BY <2>1, <2>2, <2>3, PolledClient DEF ToRead
  <2>5. phase' \notin Waiting
    BY <1>1 DEF Waiting
  <2> QED BY <1>1, <2>1, <2>2, <2>4, <2>5, LoopFrame
<1>3. CASE acceptable
  <2> PICK v \in Viewer : /\ conn[v] = "backlog"
                          /\ conn' = [conn EXCEPT ![v] = "open"]
                          /\ tcpClients' = Append(tcpClients, v)
    BY <1>3 DEF Accept, Accepted
  <2>1. tcpClients \in Seq(Viewer) /\ conn \in [Viewer -> {"away", "backlog", "open", "closed"}]
    BY DEF TypeInv, TypeOK
  <2>2. \A i \in DOMAIN tcpClients : tcpClients[i] # v
    BY DEF LoopInv
  <2>3. /\ DOMAIN tcpClients' = DOMAIN tcpClients \cup {Len(tcpClients) + 1}
        /\ \A i \in DOMAIN tcpClients : tcpClients'[i] = tcpClients[i]
        /\ tcpClients'[Len(tcpClients) + 1] = v
    <3>1. Len(tcpClients) \in Nat
      BY <2>1
    <3>2. /\ Append(tcpClients, v) \in Seq(Viewer)
          /\ Len(Append(tcpClients, v)) = Len(tcpClients) + 1
          /\ \A i \in 1 .. Len(tcpClients) : Append(tcpClients, v)[i] = tcpClients[i]
          /\ Append(tcpClients, v)[Len(tcpClients) + 1] = v
      BY <2>1, AppendProperties
    <3>3. /\ DOMAIN tcpClients = 1 .. Len(tcpClients)
          /\ DOMAIN Append(tcpClients, v) = 1 .. Len(tcpClients) + 1
      BY <2>1, <3>2, LenProperties
    <3> QED BY <3>1, <3>2, <3>3
  <2>4. (\A i, j \in DOMAIN tcpClients : tcpClients[i] = tcpClients[j] => i = j)'
    BY <2>2, <2>3 DEF LoopInv
  <2>5. (\A i \in DOMAIN tcpClients : conn[tcpClients[i]] \in {"open", "closed"})'
    BY <2>1, <2>2, <2>3, ClientIsViewer DEF LoopInv
  <2>6. ASSUME NEW i \in DOMAIN polled', polled'[i]
        PROVE  conn'[tcpClients'[i]] = "closed" \/ Readable(tcpClients[i])'
    <3>1. i \in DOMAIN tcpClients /\ tcpClients[i] \in Viewer /\ tcpClients[i] # v
      BY <1>1, <2>2, <2>6, PolledClient DEF Round
    <3>2. conn[tcpClients[i]] = "closed" \/ Readable(tcpClients[i])
      BY <1>1, <2>6 DEF LoopInv, ToRead, Round
    <3>3. conn'[tcpClients[i]] = conn[tcpClients[i]]
      BY <2>1, <3>1
    <3>4. tcpClients'[i] = tcpClients[i]
      BY <2>3, <3>1
    <3> QED BY <1>1, <3>2, <3>3, <3>4 DEF Readable
  <2>7. phase' \notin Waiting
    BY <1>1 DEF Waiting
  <2> QED BY <2>4, <2>5, <2>6, <2>7 DEF LoopInv
<1> QED BY <1>2, <1>3

(* Erasing keeps distinct, open connections. *)
LEMMA LoopErase ==
  ASSUME TypeInv, LoopInv, Erase
  PROVE  LoopInv'
<1>1. phase' = "poll" /\ conn' = conn
  BY DEF Erase, remote
<1> DEFINE open == {v \in Viewer : conn[v] = "open"}
<1>2. tcpClients \in Seq(Viewer)
  BY DEF TypeInv, TypeOK
<1>3. tcpClients' \in Kept(tcpClients, open)
  BY DEF Erase
<1>4. PICK n \in 0 .. Len(tcpClients) : tcpClients' \in [1 .. n -> open]
  BY <1>3 DEF Kept
<1>5. n \in Nat /\ DOMAIN tcpClients' = 1 .. n /\ \A i \in 1 .. n : tcpClients'[i] \in open
  <2>1. Len(tcpClients) \in Nat
    BY <1>2
  <2> QED BY <1>4, <2>1
<1>6. PICK f \in [DOMAIN tcpClients' -> DOMAIN tcpClients] :
        /\ \A i, j \in DOMAIN tcpClients' : i < j => f[i] < f[j]
        /\ \A i \in DOMAIN tcpClients' : tcpClients'[i] = tcpClients[f[i]]
  BY <1>3 DEF Kept
<1>7. \A i \in DOMAIN tcpClients' : f[i] \in DOMAIN tcpClients /\ f[i] \in Nat
  BY <1>6, ClientIsViewer
<1>8. ASSUME NEW i \in DOMAIN tcpClients', NEW j \in DOMAIN tcpClients',
             tcpClients'[i] = tcpClients'[j]
      PROVE  i = j
  <2>1. f[i] = f[j]
    BY <1>6, <1>7, <1>8 DEF LoopInv
  <2>2. i \in Nat /\ j \in Nat
    BY <1>5
  <2> QED BY <1>6, <1>7, <2>1, <2>2
<1>9. (\A i \in DOMAIN tcpClients : conn[tcpClients[i]] \in {"open", "closed"})'
  BY <1>1, <1>5
<1>10. phase' \notin Round /\ phase' \notin Waiting
  BY <1>1 DEF Round, Waiting
<1> QED BY <1>8, <1>9, <1>10 DEF LoopInv, ToRead

(* The loop reads from the connection at the cursor and goes on behind it. *)
LEMMA LoopReads ==
  ASSUME TypeInv, LoopInv, NEW v \in Viewer, ReadMessage(v) \/ ReadEof(v)
  PROVE  LoopInv'
<1>1. /\ phase = "read" /\ phase' = phase /\ cursor' = cursor + 1
      /\ cursor <= Len(polled) /\ v = tcpClients[cursor] /\ conn[v] = "open"
      /\ UNCHANGED <<tcpClients, polled, acceptable, gone>>
  BY DEF ReadMessage, ReadEof, Reads
<1>2. cursor \in DOMAIN tcpClients /\ cursor \in Nat
  BY <1>1, CursorType DEF TypeInv, TypeOK
<1>3. \A i \in DOMAIN polled : ToRead(i)' => ToRead(i) /\ i # cursor
  <2> SUFFICES ASSUME NEW i \in DOMAIN polled, ToRead(i)'
               PROVE  ToRead(i) /\ i # cursor
    OBVIOUS
  <2>1. i \in Nat
    BY <1>1, PolledClient DEF Round
  <2>2. cursor + 1 <= i
    BY <1>1 DEF ToRead
  <2> QED BY <1>1, <1>2, <2>1, <2>2 DEF ToRead, Round
<1>4. \A u \in Viewer : u # v => Readable(u)' = Readable(u)
  BY <1>1 DEF Readable, ReadMessage, ReadEof, TypeInv, TypeOK
<1>5. \A i \in DOMAIN polled :
        ToRead(i)' /\ Readable(tcpClients[i]) => Readable(tcpClients[i])'
  <2> SUFFICES ASSUME NEW i \in DOMAIN polled, ToRead(i)', Readable(tcpClients[i])
               PROVE  Readable(tcpClients[i])'
    OBVIOUS
  <2>1. i \in DOMAIN tcpClients /\ tcpClients[i] \in Viewer /\ i # cursor
    BY <1>1, <1>3, PolledClient DEF Round
  <2>2. tcpClients[i] # v
    BY <1>1, <1>2, <2>1 DEF LoopInv
  <2>3. tcpClients'[i] = tcpClients[i]
    BY <1>1
  <2> QED BY <1>4, <2>1, <2>2, <2>3
<1>6. \A u \in Viewer :
        /\ conn[u] \in {"open", "closed"} => conn'[u] \in {"open", "closed"}
        /\ conn[u] \in {"closed", "backlog"} => conn'[u] = conn[u]
  <2>1. CASE DoTCPUpdate(v)
    BY <2>1, FrameConn
  <2>2. CASE conn' = conn
    BY <2>2
  <2>3. CASE ReadEof(v)
    BY <1>1, <2>3 DEF ReadEof, TypeInv, TypeOK
  <2> QED BY <2>1, <2>2, <2>3 DEF ReadMessage
<1> QED BY <1>1, <1>3, <1>5, <1>6, LoopFrame

(* Steps of the server within a round that leave the input and the lists *)
LEMMA LoopRound ==
  ASSUME TypeInv, LoopInv,
         InitCheck \/ TakeUpdate \/ DoUpdate \/ Stream \/ Answer \/ SkipClient
  PROVE  LoopInv'
<1>1. /\ UNCHANGED <<tcpClients, polled, acceptable, inbox, gone>>
      /\ phase' \in Waiting => phase \in Waiting
  BY DEF InitCheck, TakeUpdate, DoUpdate, Stream, Answer, SkipClient, AfterCheck,
         Waiting, remote
<1>2. /\ phase \in Round
      /\ phase' = "read" => phase = "read" /\ cursor' = cursor + 1
  BY DEF InitCheck, TakeUpdate, DoUpdate, Stream, Answer, SkipClient, AfterCheck, Round
<1>3. \A i \in DOMAIN polled : ToRead(i)' => ToRead(i)
  <2> SUFFICES ASSUME NEW i \in DOMAIN polled, ToRead(i)', phase = "read"
               PROVE  cursor <= i
    BY <1>2 DEF ToRead
  <2>1. phase' = "read" /\ cursor' = cursor + 1
    <3>1. SkipClient
      BY DEF InitCheck, TakeUpdate, DoUpdate, Stream, Answer
    <3> QED BY <3>1 DEF SkipClient
  <2>2. i \in Nat /\ cursor \in Nat
    BY <1>2, PolledClient DEF TypeInv, TypeOK
  <2> QED BY <2>1, <2>2 DEF ToRead
<1>4. \A i \in DOMAIN polled :
        ToRead(i)' /\ Readable(tcpClients[i]) => Readable(tcpClients[i])'
  BY <1>1 DEF Readable
<1>5. \A v \in Viewer :
        /\ conn[v] \in {"open", "closed"} => conn'[v] \in {"open", "closed"}
        /\ conn[v] \in {"closed", "backlog"} => conn'[v] = conn[v]
  <2>1. CASE Stream
    <3>1. tcpClients[cursor] \in Viewer
      BY <2>1, CursorType DEF Stream
    <3> QED BY <2>1, <3>1, FrameConn DEF Stream
  <2>2. CASE ~ Stream
    <3>1. conn' = conn
      BY <2>2 DEF InitCheck, TakeUpdate, DoUpdate, Answer, SkipClient, remote
    <3> QED BY <3>1
  <2> QED BY <2>1, <2>2
<1> QED BY <1>1, <1>3, <1>4, <1>5, LoopFrame

(* Outside a round nothing is claimed of poll's results. *)
LEMMA LoopStart ==
  ASSUME TypeInv, LoopInv, Backup \/ InitThreads \/ Restore
  PROVE  LoopInv'
<1>1. UNCHANGED <<tcpClients, conn>> /\ phase' \in {"init", "restore", "poll"}
  BY DEF Backup, InitThreads, Restore, remote
<1>2. phase' \notin Round /\ phase' \notin Waiting
  BY <1>1 DEF Round, Waiting
<1> QED BY <1>1, <1>2 DEF LoopInv, ToRead

LEMMA LoopOthers ==
  ASSUME TypeInv, LoopInv,
         \/ \E t \in Thread :
              \/ Open(t) \/ Draw(t) \/ Receive(t) \/ Exit(t)
              \/ \E kind \in Kind \ {"check"} : SendUpdate(t, kind)
         \/ \E v \in Viewer :
              \/ Connect(v) \/ ReadFrame(v) \/ Leave(v)
              \/ \E m \in {"GetUpdate", "Input"} : SendMessage(v, m)
  PROVE  LoopInv'
<1>1. ASSUME NEW t \in Thread,
             \/ Open(t) \/ Draw(t) \/ Receive(t) \/ Exit(t)
             \/ \E kind \in Kind \ {"check"} : SendUpdate(t, kind)
      PROVE  LoopInv'
  <2>1. UNCHANGED <<loop, conn, inbox, gone>>
    BY <1>1 DEF Open, Draw, Receive, Exit, SendUpdate, Request, remote
  <2> QED BY <2>1, LoopIdle DEF Readable
<1>2. ASSUME NEW v \in Viewer, Connect(v)
      PROVE  LoopInv'
  <2>1. /\ UNCHANGED <<phase, cursor, tcpClients, polled, acceptable, inbox, gone>>
        /\ conn[v] = "away" /\ conn' = [conn EXCEPT ![v] = "backlog"]
    BY <1>2 DEF Connect, loop
  <2>2. \A u \in Viewer :
          /\ conn[u] \in {"open", "closed"} => conn'[u] \in {"open", "closed"}
          /\ conn[u] \in {"closed", "backlog"} => conn'[u] = conn[u]
    BY <2>1 DEF TypeInv, TypeOK
  <2>3. \A i \in DOMAIN polled :
          /\ ToRead(i)' => ToRead(i)
          /\ Readable(tcpClients[i]) => Readable(tcpClients[i])'
    BY <2>1 DEF ToRead, Readable
  <2> QED BY <2>1, <2>2, <2>3, LoopFrame
<1>3. ASSUME NEW v \in Viewer, ReadFrame(v) \/ Leave(v)
      PROVE  LoopInv'
  <2>1. UNCHANGED <<loop, conn, inbox>> /\ gone \subseteq gone'
    BY <1>3 DEF ReadFrame, Leave
  <2> QED BY <2>1, LoopIdle DEF Readable
<1>4. ASSUME NEW v \in Viewer, NEW m \in {"GetUpdate", "Input"}, SendMessage(v, m)
      PROVE  LoopInv'
  <2>1. /\ UNCHANGED <<loop, conn, gone>>
        /\ inbox' = [inbox EXCEPT ![v] = Append(@, m)]
    BY <1>4 DEF SendMessage
  <2>2. inbox[v] \in Seq({"GetUpdate", "Input"}) /\ inbox \in [Viewer -> Seq({"GetUpdate", "Input"})]
    BY DEF TypeInv, TypeOK
  <2>3. Append(inbox[v], m) # <<>>
    BY <2>2, AppendProperties
  <2>4. \A u \in Viewer : Readable(u) => Readable(u)'
    BY <2>1, <2>2, <2>3 DEF Readable
  <2> QED BY <2>1, <2>4, LoopIdle
<1> QED BY <1>1, <1>2, <1>3, <1>4

LEMMA LoopCrash ==
  ASSUME LoopInv, Crash
  PROVE  LoopInv'
<1>1. DOMAIN tcpClients' = {} /\ DOMAIN polled' = {}
  BY DEF Crash
<1>2. phase' \notin Waiting
  BY DEF Crash, Waiting
<1> QED BY <1>1, <1>2 DEF LoopInv

LEMMA LoopInit == Init => LoopInv
<1> SUFFICES ASSUME Init PROVE LoopInv
  OBVIOUS
<1>1. DOMAIN tcpClients = {} /\ DOMAIN polled = {}
  BY DEF Init
<1>2. phase \notin Waiting
  BY DEF Init, Waiting
<1> QED BY <1>1, <1>2 DEF LoopInv

LEMMA LoopStep == TypeInv /\ LoopInv /\ [Next]_vars => LoopInv'
<1> SUFFICES ASSUME TypeInv, LoopInv, [Next]_vars PROVE LoopInv'
  OBVIOUS
<1>1. CASE Server
  <2>1. CASE \E v \in Viewer : ReadMessage(v) \/ ReadEof(v)
    BY <2>1, LoopReads
  <2> QED BY <1>1, <2>1, LoopStart, LoopPoll, LoopRound, LoopAccept, LoopErase
          DEF Server
<1>2. CASE Crash
  BY <1>2, LoopCrash
<1>3. CASE UNCHANGED vars
  <2>1. UNCHANGED <<loop, conn, inbox, gone>>
    BY <1>3 DEF vars, remote
  <2> QED BY <2>1, LoopIdle DEF Readable
<1> QED BY <1>1, <1>2, <1>3, LoopOthers DEF Next

(* The server never waits on a connection poll has reported, neither for     *)
(* input nor for a connection to accept, whichever connections come, end or  *)
(* are closed by an update between poll and the reads (Server.cpp:300-386).  *)
THEOREM ServerNeverBlocks == Spec => []NeverBlocks
<1>1. Spec => [](TypeInv /\ LoopInv)
  BY TypeInit, TypeStep, LoopInit, LoopStep, PTL DEF Spec
<1>2. ASSUME TypeInv, LoopInv PROVE ReadNeverBlocks
  <2> SUFFICES ASSUME phase = "read", cursor <= Len(polled), polled[cursor]
               PROVE  conn[tcpClients[cursor]] = "closed" \/ Readable(tcpClients[cursor])
    BY DEF ReadNeverBlocks
  <2>1. cursor \in Nat \ {0} /\ polled \in Seq(BOOLEAN)
    BY <1>2 DEF TypeInv, TypeOK
  <2>2. cursor \in DOMAIN polled
    BY <2>1, LenProperties
  <2>3. ToRead(cursor)
    BY <2>1 DEF ToRead, Round
  <2> QED BY <1>2, <2>2, <2>3 DEF LoopInv
<1>3. LoopInv => AcceptNeverBlocks
  BY DEF LoopInv, AcceptNeverBlocks, Waiting
<1>4. TypeInv /\ LoopInv => NeverBlocks
  BY <1>2, <1>3 DEF NeverBlocks
<1> QED BY <1>1, <1>4, PTL
------------------------------------------------------------------------------
(* The drawing at the first start.  Until the server runs for the first time *)
(* nobody has been answered, so nobody draws, and the copy it restores is    *)
(* the empty buffer.                                                         *)

Starting == phase \in {"start", "init", "restore"}

Untouched ==
  /\ last = 0 /\ fb = 0 /\ backup = 0 /\ panel = 0
  /\ \A t \in Thread : pc[t] # "idle" /\ replies[t] = 0

DrawInv ==
  /\ TypeInv
  /\ crashes = 0 => (Starting => Untouched) /\ fb = last

LEMMA DrawInit == Init => DrawInv
BY TypeInit DEF Init, DrawInv, Untouched

LEMMA DrawThread ==
  ASSUME DrawInv, crashes = 0, NEW t \in Thread,
         \/ Open(t) \/ Draw(t) \/ Receive(t) \/ Exit(t)
         \/ \E kind \in Kind \ {"check"} : SendUpdate(t, kind)
  PROVE  (Starting' => Untouched') /\ fb' = last'
<1> USE SocketAssumption
<1>0. /\ pc \in [Thread -> {"closed", "idle", "waiting", "ended"}]
      /\ replies \in [Thread -> Nat]
      /\ Starting => Untouched
      /\ fb = last
  BY DEF DrawInv, TypeInv, TypeOK
<1>1. CASE Open(t)
  BY <1>0, <1>1 DEF Open, Request, Starting, Untouched, screen, loop
<1>2. CASE Draw(t)
  BY <1>0, <1>2 DEF Draw, Starting, Untouched, loop
<1>3. CASE Receive(t)
  BY <1>0, <1>3 DEF Receive, HasAnswer, Starting, Untouched, screen, loop
<1>4. CASE Exit(t)
  BY <1>0, <1>4 DEF Exit, Starting, Untouched, screen, loop
<1>5. CASE \E kind \in Kind \ {"check"} : SendUpdate(t, kind)
  BY <1>0, <1>5 DEF SendUpdate, Request, Starting, Untouched, screen, loop
<1> QED BY <1>1, <1>2, <1>3, <1>4, <1>5

LEMMA DrawServer ==
  ASSUME DrawInv, crashes = 0, Server
  PROVE  (Starting' => Untouched') /\ fb' = last'
<1>0. (Starting => Untouched) /\ fb = last
  BY DEF DrawInv
<1>1. CASE Backup
  BY <1>0, <1>1 DEF Backup, Starting, Untouched, screen, callers, control
<1>2. CASE InitThreads
  BY <1>0, <1>2 DEF InitThreads, Starting, Untouched, callers, control
<1>3. CASE Restore
  BY <1>0, <1>3 DEF Restore, Starting, Untouched, callers, control
<1>4. CASE ~ (Backup \/ InitThreads \/ Restore)
  <2>1. UNCHANGED screen /\ ~ Starting'
    BY <1>4 DEF Server, Poll, InitCheck, AfterCheck, TakeUpdate, DoUpdate, Stream,
                Answer, Accept, SkipClient, Erase, ReadMessage, ReadEof, Reads, Starting
  <2> QED BY <1>0, <2>1 DEF screen
<1> QED BY <1>1, <1>2, <1>3, <1>4

LEMMA DrawStep == DrawInv /\ [Next]_vars => DrawInv'
<1> SUFFICES ASSUME DrawInv, [Next]_vars PROVE DrawInv'
  OBVIOUS
<1>1. TypeInv'
  BY TypeStep DEF DrawInv
<1>2. ASSUME crashes' = 0 PROVE (Starting' => Untouched') /\ fb' = last'
  <2>1. CASE Crash
    <3>1. crashes \in Nat /\ crashes' = crashes + 1
      BY <2>1, BoundAssumption DEF Crash, DrawInv, TypeInv, TypeOK
    <3> QED BY <1>2, <3>1
  <2>2. CASE Server
    <3>1. crashes = 0
      BY <1>2, <2>2 DEF Server, Backup, InitThreads, Restore, Poll, InitCheck, TakeUpdate,
             DoUpdate, Stream, Answer, Accept, SkipClient, Erase, ReadMessage, ReadEof, Reads
    <3> QED BY <2>2, <3>1, DrawServer
  <2>3. CASE \E t \in Thread :
               \/ Open(t) \/ Draw(t) \/ Receive(t) \/ Exit(t)
               \/ \E kind \in Kind \ {"check"} : SendUpdate(t, kind)
    <3>1. crashes = 0
      BY <1>2, <2>3 DEF Open, Draw, Receive, Exit, SendUpdate, Request
    <3> QED BY <2>3, <3>1, DrawThread
  <2>4. CASE \E v \in Viewer :
               \/ Connect(v) \/ ReadFrame(v) \/ Leave(v)
               \/ \E m \in {"GetUpdate", "Input"} : SendMessage(v, m)
    <3>1. UNCHANGED <<screen, callers, control, loop, panel, crashes>>
      BY <2>4 DEF Connect, ReadFrame, Leave, SendMessage
    <3> QED BY <1>2, <3>1 DEF DrawInv, Starting, Untouched, screen, callers, control, loop
  <2>5. CASE UNCHANGED vars
    BY <1>2, <2>5 DEF vars, DrawInv, Starting, Untouched, screen, callers, control, loop
  <2> QED BY <2>1, <2>2, <2>3, <2>4, <2>5 DEF Next
<1> QED BY <1>1, <1>2 DEF DrawInv

(* The drawing through crashes and restarts.  What a start must not lose is  *)
(* in the buffer, or in the copy while the controller's threads white the    *)
(* buffer and until it is restored; a later drawing may have replaced it.    *)
KeptInv ==
  /\ DrawInv
  /\ safe <= last /\ fb <= last
  /\ phase # "restore" => fb >= safe
  /\ phase \in {"init", "restore"} => backup >= safe /\ backup <= last

LEMMA KeptInit == Init => KeptInv
BY DrawInit DEF Init, KeptInv

LEMMA KeptStep == KeptInv /\ [Next]_vars => KeptInv'
<1> SUFFICES ASSUME KeptInv, [Next]_vars PROVE KeptInv'
  OBVIOUS
<1>0. DrawInv'
  BY DrawStep DEF KeptInv
<1>1. /\ fb \in Nat /\ last \in Nat /\ safe \in Nat /\ backup \in Nat
      /\ safe <= last /\ fb <= last
      /\ phase # "restore" => fb >= safe
      /\ phase \in {"init", "restore"} => backup >= safe /\ backup <= last
  BY BoundAssumption DEF KeptInv, DrawInv, TypeInv, TypeOK
<1>2. CASE Backup
  BY <1>0, <1>1, <1>2 DEF Backup, KeptInv, screen
<1>3. CASE InitThreads
  BY <1>0, <1>1, <1>3 DEF InitThreads, KeptInv
<1>4. CASE Restore
  BY <1>0, <1>1, <1>4 DEF Restore, KeptInv
<1>5. CASE Server /\ ~ (Backup \/ InitThreads \/ Restore)
  <2>1. UNCHANGED screen /\ phase' \notin {"init", "restore"} /\ phase # "restore"
    BY <1>5 DEF Server, Poll, InitCheck, AfterCheck, TakeUpdate, DoUpdate, Stream,
                Answer, Accept, SkipClient, Erase, ReadMessage, ReadEof, Reads
  <2> QED BY <1>0, <1>1, <2>1 DEF KeptInv, screen
<1>6. CASE Crash
  BY <1>0, <1>1, <1>6 DEF Crash, KeptInv
<1>7. CASE \E t \in Thread :
             \/ Open(t) \/ Draw(t) \/ Receive(t) \/ Exit(t)
             \/ \E kind \in Kind \ {"check"} : SendUpdate(t, kind)
  <2>1. CASE \E t \in Thread : Draw(t)
    BY <1>0, <1>1, <2>1 DEF Draw, KeptInv, loop
  <2>2. CASE ~ \E t \in Thread : Draw(t)
    <3>1. UNCHANGED <<screen, loop>>
      BY <1>7, <2>2 DEF Open, Receive, Exit, SendUpdate, Request
    <3> QED BY <1>0, <1>1, <3>1 DEF KeptInv, screen, loop
  <2> QED BY <2>1, <2>2
<1>8. CASE \E v \in Viewer :
             \/ Connect(v) \/ ReadFrame(v) \/ Leave(v)
             \/ \E m \in {"GetUpdate", "Input"} : SendMessage(v, m)
  <2>1. UNCHANGED <<screen, loop>>
    BY <1>8 DEF Connect, ReadFrame, Leave, SendMessage
  <2> QED BY <1>0, <1>1, <2>1 DEF KeptInv, screen, loop
<1>9. CASE UNCHANGED vars
  BY <1>0, <1>1, <1>9 DEF vars, KeptInv, screen, loop
<1> QED BY <1>2, <1>3, <1>4, <1>5, <1>6, <1>7, <1>8, <1>9 DEF Next

(* No start of the server loses what was in the buffer when it began, and no *)
(* crash what was there when it came, through any number of crashes at any   *)
(* point and drawings at any time (Server.cpp:283-288); until the first      *)
(* crash nothing is lost at all.                                             *)
THEOREM DrawingIsKept == Spec => []DrawingKept
<1>1. KeptInv => DrawingKept
  BY DEF KeptInv, DrawInv, DrawingKept
<1> QED BY <1>1, KeptInit, KeptStep, PTL DEF Spec
------------------------------------------------------------------------------
(* The answers.  A call that waits is one message in the queue, at the       *)
(* server, or one answer in its process's socket: the handlers move it from  *)
(* one to the next, and only a crash drops it.                               *)

(* The threads of a process that has not ended, and their messages           *)
Living(s) == {t \in Thread : SocketOf[t] = s /\ pc[t] # "ended"}
MessagesOf(q, T) == {i \in DOMAIN q : q[i].from \in T}

Answers(s) == Cardinality(QueuedOf(s)) + Cardinality(HandledOf(s)) + replies[s]

(* Threads may be infinitely many, but those that wait are not. *)
CallsInv ==
  \A s \in Thread :
    /\ IsFiniteSet(CallsOf(s))
    /\ Answers(s) <= Cardinality(CallsOf(s))
    /\ crashes = 0 => Answers(s) = Cardinality(CallsOf(s))

(* One of n elements is there or it is not. *)
One(condition) == IF condition THEN 1 ELSE 0

LEMMA MessagesFinite ==
  ASSUME NEW q \in Seq(Message), NEW T
  PROVE  IsFiniteSet(MessagesOf(q, T)) /\ Cardinality(MessagesOf(q, T)) \in Nat
<1>1. DOMAIN q = 1 .. Len(q) /\ Len(q) \in Nat
  BY LenProperties
<1>2. IsFiniteSet(1 .. Len(q))
  BY <1>1, FS_Interval
<1>3. MessagesOf(q, T) \in SUBSET (1 .. Len(q))
  BY <1>1 DEF MessagesOf
<1> QED BY <1>2, <1>3, FS_Subset, FS_CardinalityType

(* A message at the end of the queue is one more of its sender's. *)
LEMMA MessageSent ==
  ASSUME NEW q \in Seq(Message), NEW m \in Message, NEW T
  PROVE  Cardinality(MessagesOf(Append(q, m), T))
           = Cardinality(MessagesOf(q, T)) + One(m.from \in T)
<1> DEFINE n == Len(q)
<1>1. /\ n \in Nat /\ DOMAIN q = 1 .. n
      /\ DOMAIN Append(q, m) = 1 .. n + 1
      /\ \A i \in 1 .. n : Append(q, m)[i] = q[i]
      /\ Append(q, m)[n + 1] = m
  BY AppendProperties, LenProperties
<1> HIDE DEF n
<1>2. MessagesOf(Append(q, m), T)
        = IF m.from \in T THEN MessagesOf(q, T) \cup {n + 1} ELSE MessagesOf(q, T)
  BY <1>1 DEF MessagesOf
<1>3. n + 1 \notin MessagesOf(q, T)
  BY <1>1 DEF MessagesOf
<1>4. IsFiniteSet(MessagesOf(q, T)) /\ Cardinality(MessagesOf(q, T)) \in Nat
  BY MessagesFinite
<1>5. Cardinality(MessagesOf(q, T) \cup {n + 1}) = Cardinality(MessagesOf(q, T)) + 1
  BY <1>3, <1>4, FS_AddElement
<1> QED BY <1>2, <1>4, <1>5 DEF One

(* A message that is read is one less of its sender's. *)
LEMMA MessageRead ==
  ASSUME NEW q \in Seq(Message), q # <<>>, NEW T
  PROVE  Cardinality(MessagesOf(Tail(q), T))
           = Cardinality(MessagesOf(q, T)) - One(Head(q).from \in T)
<1> DEFINE n == Len(q)
<1> DEFINE rest == MessagesOf(q, T) \ {1}
<1> DEFINE f == [i \in rest |-> i - 1]
<1>1. /\ n \in Nat \ {0} /\ DOMAIN q = 1 .. n
      /\ DOMAIN Tail(q) = 1 .. n - 1
      /\ \A i \in 1 .. n - 1 : Tail(q)[i] = q[i + 1]
      /\ Head(q) = q[1]
  <2>1. n \in Nat /\ DOMAIN q = 1 .. n /\ n # 0
    BY LenProperties, EmptySeq
  <2>2. Tail(q) \in Seq(Message) /\ Len(Tail(q)) = n - 1
        /\ \A i \in 1 .. Len(Tail(q)) : Tail(q)[i] = q[i + 1]
    BY HeadTailProperties
  <2>3. DOMAIN Tail(q) = 1 .. Len(Tail(q))
    BY <2>2, LenProperties
  <2> QED BY <2>1, <2>2, <2>3
<1> HIDE DEF n
<1>2. IsFiniteSet(MessagesOf(q, T)) /\ Cardinality(MessagesOf(q, T)) \in Nat
  BY MessagesFinite
<1>3. /\ IsFiniteSet(rest)
      /\ Cardinality(rest) = Cardinality(MessagesOf(q, T)) - One(Head(q).from \in T)
  <2>1. 1 \in MessagesOf(q, T) <=> Head(q).from \in T
    BY <1>1 DEF MessagesOf
  <2> QED BY <1>2, <2>1, FS_RemoveElement DEF One
<1>4. \A i \in rest : i \in 2 .. n /\ q[i].from \in T
  BY <1>1 DEF MessagesOf
<1>5. \A j \in MessagesOf(Tail(q), T) : j \in 1 .. n - 1 /\ j + 1 \in rest
  BY <1>1 DEF MessagesOf
<1>6. \A i \in rest : i - 1 \in MessagesOf(Tail(q), T)
  <2> SUFFICES ASSUME NEW i \in rest PROVE i - 1 \in MessagesOf(Tail(q), T)
    OBVIOUS
  <2>1. i \in 2 .. n /\ i - 1 \in 1 .. n - 1 /\ (i - 1) + 1 = i
    BY <1>1, <1>4
  <2>2. Tail(q)[i - 1] = q[i]
    BY <1>1, <2>1
  <2> QED BY <1>1, <1>4, <2>1, <2>2 DEF MessagesOf
<1> HIDE DEF rest
<1>7. f \in [rest -> MessagesOf(Tail(q), T)]
  BY <1>6
<1>8. \A a, b \in rest : f[a] = f[b] => a = b
  BY <1>4
<1>9. \A j \in MessagesOf(Tail(q), T) : \E i \in rest : f[i] = j
  BY <1>5
<1> HIDE DEF f
<1>10. f \in Bijection(rest, MessagesOf(Tail(q), T))
  BY <1>7, <1>8, <1>9 DEF Bijection, Injection, Surjection, IsInjective
<1>11. Cardinality(MessagesOf(Tail(q), T)) = Cardinality(rest)
  BY <1>3, <1>10, FS_Bijection DEF ExistsBijection
<1> QED BY <1>3, <1>11

(* Whether the message at the server is one of a living thread of s *)
Handled(s) == phase \in {"update", "stream"} /\ handling.from \in Living(s)

Counted ==
  \A s \in Thread :
    /\ Answers(s) = Cardinality(MessagesOf(queue, Living(s))) + One(Handled(s)) + replies[s]
    /\ Cardinality(MessagesOf(queue, Living(s))) \in Nat
    /\ replies[s] \in Nat

LEMMA AnswersAre == TypeInv => Counted
<1> SUFFICES ASSUME TypeInv, NEW s \in Thread
             PROVE  /\ Answers(s) = Cardinality(MessagesOf(queue, Living(s)))
                                      + One(Handled(s)) + replies[s]
                    /\ Cardinality(MessagesOf(queue, Living(s))) \in Nat
                    /\ replies[s] \in Nat
  BY DEF Counted
<1>1. queue \in Seq(Message) /\ replies[s] \in Nat /\ handling.from \in Thread
  BY DEF TypeInv, TypeOK, Message
<1>2. \A i \in DOMAIN queue : queue[i].from \in Thread
  <2>1. \A i \in DOMAIN queue : queue[i] \in Message
    BY <1>1, ElementOfSeq, LenProperties
  <2> QED BY <2>1 DEF Message
<1>3. QueuedOf(s) = MessagesOf(queue, Living(s))
  BY <1>2 DEF QueuedOf, MessagesOf, Living
<1>4. HandledOf(s) = IF Handled(s) THEN {handling.from} ELSE {}
  BY <1>1 DEF HandledOf, Handled, Living
<1>5. Cardinality(HandledOf(s)) = One(Handled(s))
  BY <1>4, FS_EmptySet, FS_Singleton DEF One
<1> QED BY <1>1, <1>3, <1>5, MessagesFinite DEF Answers

LEMMA BothCounted ==
  ASSUME TypeInv, TypeInv'
  PROVE  Counted /\ Counted'
<1>1. (TypeInv => Counted)'
  BY AnswersAre, PTL
<1> QED BY <1>1, AnswersAre

(* An answer reaches the process of the thread, unless it has ended. *)
LEMMA AnsweredIs ==
  ASSUME TypeInv, NEW t \in Thread, NEW s \in Thread
  PROVE  Answered(t)[s] = replies[s] + One(t \in Living(s))
BY SocketAssumption DEF TypeInv, TypeOK, Answered, Living, One

(* Steps that move no message *)
LEMMA CallsIdle ==
  ASSUME TypeInv, TypeInv', CallsInv, UNCHANGED <<pc, queue, replies, handling, crashes>>,
         phase \in {"update", "stream"} <=> phase' \in {"update", "stream"}
  PROVE  CallsInv'
<1>1. \A s \in Thread : CallsOf(s)' = CallsOf(s) /\ Living(s)' = Living(s)
  BY DEF CallsOf, Living
<1>2. \A s \in Thread : Handled(s)' = Handled(s)
  BY <1>1 DEF Handled
<1>3. \A s \in Thread : Answers(s)' = Answers(s)
  <2>1. Counted /\ Counted'
    BY BothCounted
  <2> QED BY <1>1, <1>2, <2>1 DEF Counted
<1> QED BY <1>1, <1>3 DEF CallsInv

(* Steps that move a message from the queue to the server, or to an answer *)
LEMMA CallsMoved ==
  ASSUME TypeInv, TypeInv', CallsInv, UNCHANGED <<pc, crashes>>,
         InitCheck \/ TakeUpdate \/ Answer
  PROVE  CallsInv'
<1>1. \A s \in Thread : CallsOf(s)' = CallsOf(s) /\ Living(s)' = Living(s)
  BY DEF CallsOf, Living
<1>2. Counted /\ Counted'
  BY BothCounted
<1>3. ASSUME NEW s \in Thread PROVE Answers(s)' = Answers(s)
  <2>0. /\ Answers(s) = Cardinality(MessagesOf(queue, Living(s))) + One(Handled(s)) + replies[s]
        /\ Cardinality(MessagesOf(queue, Living(s))) \in Nat /\ replies[s] \in Nat
        /\ Answers(s)' = Cardinality(MessagesOf(queue', Living(s))) + One(Handled(s)') + replies'[s]
    BY <1>1, <1>2 DEF Counted
  <2>1. /\ queue \in Seq(Message)
        /\ handling.from \in Thread
    BY DEF TypeInv, TypeOK, Message
  <2>2. /\ One(Head(queue).from \in Living(s)) \in {0, 1}
        /\ One(handling.from \in Living(s)) \in {0, 1}
    BY DEF One
  <2>3. CASE InitCheck
    <3>1. queue # <<>> /\ Head(queue).from \in Thread
      BY <2>3, HeadMessage DEF InitCheck, TypeInv
    <3>2. /\ queue' = Tail(queue) /\ replies' = Answered(Head(queue).from)
          /\ phase = "control" /\ phase' = "accept"
      BY <2>3 DEF InitCheck, AfterCheck
    <3>3. ~ Handled(s) /\ ~ Handled(s)'
      BY <3>2 DEF Handled
    <3>4. Cardinality(MessagesOf(queue', Living(s)))
            = Cardinality(MessagesOf(queue, Living(s))) - One(Head(queue).from \in Living(s))
      BY <2>1, <3>1, <3>2, MessageRead
    <3>5. replies'[s] = replies[s] + One(Head(queue).from \in Living(s))
      BY <3>1, <3>2, AnsweredIs
    <3>6. One(Handled(s)) = 0 /\ One(Handled(s)') = 0
      BY <3>3 DEF One
    <3> QED BY <2>0, <2>2, <3>4, <3>5, <3>6
  <2>4. CASE TakeUpdate
    <3>1. queue # <<>> /\ Head(queue).from \in Thread
      BY <2>4, HeadMessage DEF TakeUpdate, TypeInv
    <3>2. /\ queue' = Tail(queue) /\ replies' = replies /\ handling' = Head(queue)
          /\ phase = "control" /\ phase' = "update"
      BY <2>4 DEF TakeUpdate
    <3>3. ~ Handled(s) /\ (Handled(s)' <=> Head(queue).from \in Living(s))
      BY <1>1, <3>2 DEF Handled
    <3>4. Cardinality(MessagesOf(queue', Living(s)))
            = Cardinality(MessagesOf(queue, Living(s))) - One(Head(queue).from \in Living(s))
      BY <2>1, <3>1, <3>2, MessageRead
    <3>5. One(Handled(s)) = 0 /\ One(Handled(s)') = One(Head(queue).from \in Living(s))
      BY <3>3 DEF One
    <3> QED BY <2>0, <2>2, <3>2, <3>4, <3>5
  <2>5. CASE Answer
    <3>1. /\ queue' = queue /\ replies' = Answered(handling.from)
          /\ phase = "stream" /\ phase' = "accept"
      BY <2>5 DEF Answer
    <3>2. (Handled(s) <=> handling.from \in Living(s)) /\ ~ Handled(s)'
      BY <3>1 DEF Handled
    <3>3. replies'[s] = replies[s] + One(handling.from \in Living(s))
      BY <2>1, <3>1, AnsweredIs
    <3>4. One(Handled(s)) = One(handling.from \in Living(s)) /\ One(Handled(s)') = 0
      BY <3>2 DEF One
    <3> QED BY <2>0, <2>2, <3>1, <3>3, <3>4
  <2> QED BY <2>3, <2>4, <2>5
<1> QED BY <1>1, <1>3 DEF CallsInv

(* A call is one more that waits, and one more message. *)
LEMMA CallsRequest ==
  ASSUME TypeInv, TypeInv', CallsInv, NEW t \in Thread, pc[t] \in {"closed", "idle"},
         NEW kind \in Kind, NEW d, Request(t, kind, d)
  PROVE  CallsInv'
<1>1. /\ queue \in Seq(Message) /\ [from |-> t, kind |-> kind] \in Message
      /\ queue' = Append(queue, [from |-> t, kind |-> kind])
      /\ pc' = [pc EXCEPT ![t] = "waiting"] /\ DOMAIN pc = Thread
      /\ UNCHANGED <<replies, phase, handling, crashes>>
  BY DEF Request, TypeInv, TypeOK, Message, loop
<1>2. \A s \in Thread :
        /\ Living(s)' = Living(s)
        /\ t \in Living(s) <=> SocketOf[t] = s
        /\ CallsOf(s)' = IF SocketOf[t] = s THEN CallsOf(s) \cup {t} ELSE CallsOf(s)
        /\ t \notin CallsOf(s)
  BY <1>1 DEF Living, CallsOf
<1>3. Counted /\ Counted'
  BY BothCounted
<1>4. \A s \in Thread : Handled(s)' <=> Handled(s)
  BY <1>1, <1>2 DEF Handled
<1>5. ASSUME NEW s \in Thread
      PROVE  /\ Answers(s)' = Answers(s) + One(SocketOf[t] = s)
             /\ Answers(s) \in Nat
  <2>1. Cardinality(MessagesOf(queue', Living(s)))
          = Cardinality(MessagesOf(queue, Living(s))) + One(t \in Living(s))
    BY <1>1, MessageSent
  <2>2. /\ Answers(s) = Cardinality(MessagesOf(queue, Living(s))) + One(Handled(s)) + replies[s]
        /\ Cardinality(MessagesOf(queue, Living(s))) \in Nat /\ replies[s] \in Nat
        /\ Answers(s)' = Cardinality(MessagesOf(queue', Living(s))) + One(Handled(s)') + replies[s]
    BY <1>1, <1>2, <1>3 DEF Counted
  <2>3. One(t \in Living(s)) = One(SocketOf[t] = s) /\ One(Handled(s)') = One(Handled(s))
    BY <1>2, <1>4 DEF One
  <2>4. One(SocketOf[t] = s) \in {0, 1} /\ One(Handled(s)) \in {0, 1}
    BY DEF One
  <2> QED BY <2>1, <2>2, <2>3, <2>4
<1>6. ASSUME NEW s \in Thread
      PROVE  /\ IsFiniteSet(CallsOf(s)')
             /\ Cardinality(CallsOf(s)') = Cardinality(CallsOf(s)) + One(SocketOf[t] = s)
             /\ Cardinality(CallsOf(s)) \in Nat
  <2>1. IsFiniteSet(CallsOf(s)) /\ Cardinality(CallsOf(s)) \in Nat
    BY FS_CardinalityType DEF CallsInv
  <2> QED BY <1>2, <2>1, FS_AddElement DEF One
<1>7. ASSUME NEW s \in Thread
      PROVE  /\ IsFiniteSet(CallsOf(s)')
             /\ Answers(s)' <= Cardinality(CallsOf(s)')
             /\ crashes' = 0 => Answers(s)' = Cardinality(CallsOf(s)')
  <2>1. One(SocketOf[t] = s) \in {0, 1}
    BY DEF One
  <2> QED BY <1>1, <1>5, <1>6, <2>1 DEF CallsInv
<1> QED BY <1>7 DEF CallsInv

(* A call that returns takes one answer. *)
LEMMA CallsReceive ==
  ASSUME TypeInv, TypeInv', CallsInv, NEW t \in Thread, Receive(t)
  PROVE  CallsInv'
<1>1. /\ pc[t] = "waiting" /\ pc' = [pc EXCEPT ![t] = "idle"] /\ DOMAIN pc = Thread
      /\ replies' = [replies EXCEPT ![SocketOf[t]] = @ - 1] /\ replies \in [Thread -> Nat]
      /\ UNCHANGED <<queue, phase, handling, crashes>>
  BY DEF Receive, TypeInv, TypeOK, loop
<1>2. \A s \in Thread :
        /\ Living(s)' = Living(s)
        /\ CallsOf(s)' = CallsOf(s) \ {t}
        /\ t \in CallsOf(s) <=> SocketOf[t] = s
  BY <1>1 DEF Living, CallsOf
<1>3. Counted /\ Counted'
  BY BothCounted
<1>4. ASSUME NEW s \in Thread
      PROVE  /\ Answers(s)' = Answers(s) - One(SocketOf[t] = s)
             /\ Answers(s) \in Nat
  <2>1. Handled(s)' = Handled(s)
    BY <1>1, <1>2 DEF Handled
  <2>2. replies'[s] = replies[s] - One(SocketOf[t] = s)
    BY <1>1 DEF One
  <2>3. /\ Answers(s) = Cardinality(MessagesOf(queue, Living(s))) + One(Handled(s)) + replies[s]
        /\ Cardinality(MessagesOf(queue, Living(s))) \in Nat /\ replies[s] \in Nat
        /\ Answers(s)' = Cardinality(MessagesOf(queue, Living(s))) + One(Handled(s)) + replies'[s]
    BY <1>1, <1>2, <1>3, <2>1 DEF Counted
  <2>4. One(SocketOf[t] = s) \in {0, 1} /\ One(Handled(s)) \in {0, 1}
    BY DEF One
  <2> QED BY <2>2, <2>3, <2>4
<1>5. ASSUME NEW s \in Thread
      PROVE  /\ IsFiniteSet(CallsOf(s)')
             /\ Cardinality(CallsOf(s)') = Cardinality(CallsOf(s)) - One(SocketOf[t] = s)
             /\ Cardinality(CallsOf(s)) \in Nat
  <2>1. IsFiniteSet(CallsOf(s)) /\ Cardinality(CallsOf(s)) \in Nat
    BY FS_CardinalityType DEF CallsInv
  <2> QED BY <1>2, <2>1, FS_RemoveElement DEF One
<1>6. ASSUME NEW s \in Thread
      PROVE  /\ IsFiniteSet(CallsOf(s)')
             /\ Answers(s)' <= Cardinality(CallsOf(s)')
             /\ crashes' = 0 => Answers(s)' = Cardinality(CallsOf(s)')
  <2>1. One(SocketOf[t] = s) \in {0, 1}
    BY DEF One
  <2> QED BY <1>1, <1>4, <1>5, <2>1 DEF CallsInv
<1> QED BY <1>6 DEF CallsInv

(* A process that ends takes all its calls and answers along. *)
LEMMA CallsExit ==
  ASSUME TypeInv, TypeInv', CallsInv, NEW p \in Thread, Exit(p)
  PROVE  CallsInv'
<1>1. /\ pc' = [t \in Thread |-> IF SocketOf[t] = p THEN "ended" ELSE pc[t]]
      /\ replies' = [replies EXCEPT ![p] = 0] /\ replies \in [Thread -> Nat]
      /\ queue \in Seq(Message)
      /\ UNCHANGED <<queue, phase, handling, crashes>>
  BY DEF Exit, TypeInv, TypeOK, loop
<1>2. Counted /\ Counted'
  BY BothCounted
<1>3. ASSUME NEW s \in Thread, s # p
      PROVE  Answers(s)' = Answers(s) /\ CallsOf(s)' = CallsOf(s)
  <2>1. Living(s)' = Living(s) /\ CallsOf(s)' = CallsOf(s)
    BY <1>1, <1>3 DEF Living, CallsOf
  <2>2. Handled(s)' = Handled(s) /\ replies'[s] = replies[s]
    BY <1>1, <1>3, <2>1 DEF Handled
  <2> QED BY <1>1, <1>2, <2>1, <2>2 DEF Counted
<1>4. Answers(p)' = 0 /\ CallsOf(p)' = {}
  <2>1. Living(p)' = {} /\ CallsOf(p)' = {}
    BY <1>1 DEF Living, CallsOf
  <2>2. ~ Handled(p)' /\ replies'[p] = 0
    BY <1>1, <2>1 DEF Handled
  <2>3. MessagesOf(queue', Living(p)') = {}
    BY <2>1 DEF MessagesOf
  <2>4. Cardinality(MessagesOf(queue', Living(p)')) = 0 /\ One(Handled(p)') = 0
    BY <2>2, <2>3, FS_EmptySet DEF One
  <2> QED BY <1>2, <2>1, <2>2, <2>4 DEF Counted
<1>5. IsFiniteSet(CallsOf(p)') /\ Cardinality(CallsOf(p)') = 0
  BY <1>4, FS_EmptySet
<1>6. ASSUME NEW s \in Thread
      PROVE  /\ IsFiniteSet(CallsOf(s)')
             /\ Answers(s)' <= Cardinality(CallsOf(s)')
             /\ crashes' = 0 => Answers(s)' = Cardinality(CallsOf(s)')
  <2>1. CASE s = p
    BY <1>4, <1>5, <2>1
  <2>2. CASE s # p
    BY <1>1, <1>3, <2>2 DEF CallsInv
  <2> QED BY <2>1, <2>2
<1> QED BY <1>6 DEF CallsInv

(* A crash drops the message at the server. *)
LEMMA CallsCrash ==
  ASSUME TypeInv, TypeInv', CallsInv, Crash
  PROVE  CallsInv'
<1>1. /\ UNCHANGED <<pc, queue, replies>> /\ phase' = "start"
      /\ crashes \in Nat /\ crashes' = crashes + 1
  BY BoundAssumption DEF Crash, TypeInv, TypeOK, callers, control
<1>2. Counted /\ Counted'
  BY BothCounted
<1>3. ASSUME NEW s \in Thread
      PROVE  CallsOf(s)' = CallsOf(s) /\ Answers(s)' <= Answers(s)
             /\ Answers(s)' \in Nat /\ Answers(s) \in Nat
  <2>1. CallsOf(s)' = CallsOf(s) /\ Living(s)' = Living(s)
    BY <1>1 DEF CallsOf, Living
  <2>2. /\ Answers(s) = Cardinality(MessagesOf(queue, Living(s))) + One(Handled(s)) + replies[s]
        /\ Cardinality(MessagesOf(queue, Living(s))) \in Nat /\ replies[s] \in Nat
        /\ Answers(s)' = Cardinality(MessagesOf(queue, Living(s))) + One(Handled(s)') + replies[s]
    BY <1>1, <1>2, <2>1 DEF Counted
  <2>3. One(Handled(s)') = 0
    BY <1>1 DEF Handled, One
  <2>4. One(Handled(s)) \in {0, 1}
    BY DEF One
  <2> QED BY <2>1, <2>2, <2>3, <2>4
<1>4. ASSUME NEW s \in Thread
      PROVE  IsFiniteSet(CallsOf(s)') /\ Answers(s)' <= Cardinality(CallsOf(s)')
  <2>1. IsFiniteSet(CallsOf(s)) /\ Cardinality(CallsOf(s)) \in Nat
    BY FS_CardinalityType DEF CallsInv
  <2> QED BY <1>3, <2>1 DEF CallsInv
<1> QED BY <1>1, <1>4 DEF CallsInv

LEMMA CallsInit == Init => CallsInv
<1> SUFFICES ASSUME Init, NEW s \in Thread
             PROVE  /\ IsFiniteSet(CallsOf(s))
                    /\ Answers(s) = Cardinality(CallsOf(s))
                    /\ Answers(s) \in Nat
  BY DEF CallsInv
<1>1. CallsOf(s) = {} /\ QueuedOf(s) = {} /\ HandledOf(s) = {} /\ replies[s] = 0
  BY DEF Init, CallsOf, QueuedOf, HandledOf
<1> QED BY <1>1, FS_EmptySet DEF Answers

LEMMA CallsStep == TypeInv /\ CallsInv /\ [Next]_vars => CallsInv'
<1> SUFFICES ASSUME TypeInv, CallsInv, [Next]_vars PROVE CallsInv'
  OBVIOUS
<1>0. TypeInv'
  BY TypeStep
<1>1. CASE Server
  <2>1. CASE InitCheck \/ TakeUpdate \/ Answer
    <3>1. UNCHANGED <<pc, crashes>>
      BY <2>1 DEF InitCheck, TakeUpdate, Answer, callers
    <3> QED BY <1>0, <2>1, <3>1, CallsMoved
  <2>2. CASE ~ (InitCheck \/ TakeUpdate \/ Answer)
    <3>1. /\ UNCHANGED <<pc, queue, replies, handling, crashes>>
          /\ phase \in {"update", "stream"} <=> phase' \in {"update", "stream"}
      BY <1>1, <2>2 DEF Server, Backup, InitThreads, Restore, Poll, DoUpdate, Stream, Accept,
             SkipClient, Erase, ReadMessage, ReadEof, Reads, callers, control
    <3> QED BY <1>0, <3>1, CallsIdle
  <2> QED BY <2>1, <2>2
<1>2. CASE Crash
  BY <1>0, <1>2, CallsCrash
<1>3. ASSUME NEW t \in Thread,
             \/ Open(t) \/ Draw(t) \/ Receive(t) \/ Exit(t)
             \/ \E kind \in Kind \ {"check"} : SendUpdate(t, kind)
      PROVE  CallsInv'
  <2>1. CASE Open(t)
    BY <1>0, <2>1, CallsRequest DEF Open, Kind
  <2>2. CASE \E kind \in Kind \ {"check"} : SendUpdate(t, kind)
    BY <1>0, <2>2, CallsRequest DEF SendUpdate
  <2>3. CASE Draw(t)
    <3>1. UNCHANGED <<pc, queue, replies, handling, crashes, phase>>
      BY <2>3 DEF Draw, callers, control, loop
    <3> QED BY <1>0, <3>1, CallsIdle
  <2> QED BY <1>0, <1>3, <2>1, <2>2, <2>3, CallsReceive, CallsExit
<1>4. CASE \/ UNCHANGED vars
           \/ \E v \in Viewer :
                \/ Connect(v) \/ ReadFrame(v) \/ Leave(v)
                \/ \E m \in {"GetUpdate", "Input"} : SendMessage(v, m)
  <2>1. UNCHANGED <<pc, queue, replies, handling, crashes, phase>>
    BY <1>4 DEF Connect, ReadFrame, Leave, SendMessage, vars, callers, control, loop
  <2> QED BY <1>0, <2>1, CallsIdle
<1> QED BY <1>1, <1>2, <1>3, <1>4 DEF Next

(* No answer is given twice or to nobody: the calls of a process that wait   *)
(* are its messages in the queue, the one at the server and the answers in   *)
(* its socket, for any number of threads on a socket; a crash only loses one *)
(* (Server.cpp:319-344 against sendUpdate, Client.cpp:63-73).                *)
THEOREM AnswersMatch == Spec => []AnswersMatchCalls
<1>1. CallsInv => AnswersMatchCalls
  BY DEF CallsInv, Answers, AnswersMatchCalls
<1> QED BY <1>1, TypeInit, TypeStep, CallsInit, CallsStep, PTL DEF Spec
------------------------------------------------------------------------------
(* The promise of Display.  It is kept to threads with a socket of their own *)
(* by a server that does not crash and takes no update for an init check:    *)
(* then a call is in one place at a time, and is performed where it leaves   *)
(* the server.                                                               *)

OwnSockets == \A t, u \in Thread : SocketOf[t] = SocketOf[u] => t = u

(* The call of t is at the server. *)
At(t) == phase \in {"update", "stream"} /\ handling.from = t

QueuedCall(t) ==
  /\ \A i, j \in DOMAIN queue : queue[i].from = t /\ queue[j].from = t => i = j
  /\ \A i \in DOMAIN queue : queue[i].from = t =>
       /\ pc[t] = "waiting" /\ t \notin performed
       /\ ~ At(t) /\ replies[SocketOf[t]] = 0
       /\ queue[i].kind = "check" => want[t] = 0

HandledCall(t) ==
  At(t) => /\ pc[t] = "waiting" /\ replies[SocketOf[t]] = 0
           /\ t \in performed <=> phase = "stream"

AnsweredCall(t) ==
  replies[SocketOf[t]] # 0 =>
    pc[t] = "waiting" /\ replies[SocketOf[t]] = 1 /\ t \in performed

CallKept(t) ==
  pc[t] # "ended" => QueuedCall(t) /\ HandledCall(t) /\ AnsweredCall(t)

DisplayInv ==
  /\ DrawInv /\ crashes = 0
  /\ \A t \in Thread : CallKept(t) /\ want[t] <= last
  /\ panel <= last

LEMMA DisplayInit == Init => DisplayInv
<1> SUFFICES ASSUME Init PROVE DisplayInv
  OBVIOUS
<1>1. DrawInv
  BY DrawInit
<1>2. /\ crashes = 0 /\ last = 0 /\ panel = 0 /\ phase = "start" /\ queue = <<>>
      /\ \A t \in Thread : want[t] = 0 /\ replies[t] = 0
  BY DEF Init
<1>3. \A t \in Thread : CallKept(t)
  BY <1>2, SocketAssumption DEF CallKept, QueuedCall, HandledCall, AnsweredCall, At
<1> QED BY <1>1, <1>2, <1>3 DEF DisplayInv

(* Steps that leave the calls where they are *)
LEMMA KeptIdle ==
  ASSUME DisplayInv, UNCHANGED <<pc, want, performed, queue, replies, handling>>,
         \/ phase' = phase
         \/ phase \notin {"update", "stream"} /\ phase' \notin {"update", "stream"}
  PROVE  \A t \in Thread : CallKept(t)'
<1>1. \A t \in Thread : CallKept(t)
  BY DEF DisplayInv
<1>2. \A t \in Thread : (At(t)' <=> At(t)) /\ (At(t) => phase' = phase)
  BY DEF At
<1> QED BY <1>1, <1>2 DEF CallKept, QueuedCall, HandledCall, AnsweredCall

(* A thread that makes a call has no other. *)
LEMMA KeptRequest ==
  ASSUME DisplayInv, NEW t \in Thread, pc[t] \in {"closed", "idle"},
         NEW kind \in Kind, NEW d, Request(t, kind, d), kind = "check" => d = 0
  PROVE  \A u \in Thread : CallKept(u)'
<1> DEFINE m == [from |-> t, kind |-> kind]
<1>1. /\ queue' = Append(queue, m)
      /\ pc' = [pc EXCEPT ![t] = "waiting"] /\ DOMAIN pc = Thread
      /\ want' = [want EXCEPT ![t] = d] /\ DOMAIN want = Thread
      /\ performed' = performed \ {t}
      /\ UNCHANGED <<replies, phase, handling>>
  BY DEF Request, DisplayInv, DrawInv, TypeInv, TypeOK, loop
<1>2. queue \in Seq(Message) /\ m \in Message /\ m.from = t /\ m.kind = kind
  BY DEF DisplayInv, DrawInv, TypeInv, TypeOK, Message
<1> DEFINE n == Len(queue)
<1>3. /\ n \in Nat /\ DOMAIN queue = 1 .. n /\ DOMAIN queue' = 1 .. n + 1
      /\ \A i \in 1 .. n : queue'[i] = queue[i]
      /\ queue'[n + 1].from = t /\ queue'[n + 1].kind = kind
  BY <1>1, <1>2, AppendProperties, LenProperties
<1> HIDE DEF m, n
<1>4. CallKept(t) /\ pc[t] # "ended" /\ pc[t] # "waiting"
  BY DEF DisplayInv
<1>5. /\ \A i \in DOMAIN queue : queue[i].from # t
      /\ ~ At(t) /\ replies[SocketOf[t]] = 0
  BY <1>4 DEF CallKept, QueuedCall, HandledCall, AnsweredCall
<1>6. \A u \in Thread : At(u)' <=> At(u)
  BY <1>1 DEF At
<1>7. CallKept(t)'
  <2>1. pc'[t] = "waiting" /\ want'[t] = d /\ t \notin performed' /\ ~ At(t)'
        /\ replies'[SocketOf[t]] = 0
    BY <1>1, <1>5, <1>6
  <2>2. \A i \in DOMAIN queue' : queue'[i].from = t => i = n + 1
    BY <1>3, <1>5
  <2> QED BY <1>3, <2>1, <2>2 DEF CallKept, QueuedCall, HandledCall, AnsweredCall
<1>8. ASSUME NEW u \in Thread, u # t PROVE CallKept(u)'
  <2>1. /\ pc'[u] = pc[u] /\ want'[u] = want[u] /\ replies' = replies /\ phase' = phase
        /\ u \in performed' <=> u \in performed
    BY <1>1, <1>8
  <2>2. \A i \in DOMAIN queue' : queue'[i].from = u => i \in DOMAIN queue /\ queue'[i] = queue[i]
    BY <1>3, <1>8
  <2>3. CallKept(u)
    BY DEF DisplayInv
  <2> QED BY <1>6, <2>1, <2>2, <2>3 DEF CallKept, QueuedCall, HandledCall, AnsweredCall
<1> QED BY <1>7, <1>8

(* The answer a thread takes is its own. *)
LEMMA KeptReceive ==
  ASSUME OwnSockets, DisplayInv, NEW t \in Thread, Receive(t)
  PROVE  \A u \in Thread : CallKept(u)'
<1>1. /\ pc[t] = "waiting" /\ replies[SocketOf[t]] > 0
      /\ pc' = [pc EXCEPT ![t] = "idle"] /\ DOMAIN pc = Thread
      /\ replies' = [replies EXCEPT ![SocketOf[t]] = @ - 1] /\ replies \in [Thread -> Nat]
      /\ UNCHANGED <<want, performed, queue, phase, handling>>
  BY DEF Receive, HasAnswer, DisplayInv, DrawInv, TypeInv, TypeOK, loop
<1>2. \A u \in Thread : SocketOf[u] \in Thread
  BY SocketAssumption
<1>3. \A u \in Thread : At(u)' <=> At(u)
  BY <1>1 DEF At
<1>4. CallKept(t)'
  <2>1. replies[SocketOf[t]] # 0
    BY <1>1, <1>2
  <2>2. /\ replies[SocketOf[t]] = 1 /\ ~ At(t)
        /\ \A i \in DOMAIN queue : queue[i].from # t
    BY <1>1, <2>1 DEF DisplayInv, CallKept, QueuedCall, HandledCall, AnsweredCall
  <2>3. replies'[SocketOf[t]] = 0
    BY <1>1, <1>2, <2>2
  <2> QED BY <1>1, <1>3, <2>2, <2>3 DEF CallKept, QueuedCall, HandledCall, AnsweredCall
<1>5. ASSUME NEW u \in Thread, u # t PROVE CallKept(u)'
  <2>1. pc'[u] = pc[u] /\ replies'[SocketOf[u]] = replies[SocketOf[u]]
    BY <1>1, <1>2, <1>5 DEF OwnSockets
  <2>2. CallKept(u)
    BY DEF DisplayInv
  <2> QED BY <1>1, <1>3, <2>1, <2>2 DEF CallKept, QueuedCall, HandledCall, AnsweredCall
<1> QED BY <1>4, <1>5

LEMMA KeptExit ==
  ASSUME DisplayInv, NEW p \in Thread, Exit(p)
  PROVE  \A u \in Thread : CallKept(u)'
<1>1. /\ pc' = [t \in Thread |-> IF SocketOf[t] = p THEN "ended" ELSE pc[t]]
      /\ replies' = [replies EXCEPT ![p] = 0] /\ DOMAIN replies = Thread
      /\ UNCHANGED <<want, performed, queue, phase, handling>>
  BY DEF Exit, DisplayInv, DrawInv, TypeInv, TypeOK, loop
<1>2. \A u \in Thread : At(u)' <=> At(u)
  BY <1>1 DEF At
<1>3. ASSUME NEW u \in Thread PROVE CallKept(u)'
  <2>1. CASE SocketOf[u] = p
    BY <1>1, <2>1 DEF CallKept
  <2>2. CASE SocketOf[u] # p
    <3>1. pc'[u] = pc[u] /\ replies'[SocketOf[u]] = replies[SocketOf[u]]
      BY <1>1, <2>2, SocketAssumption
    <3>2. CallKept(u)
      BY DEF DisplayInv
    <3> QED BY <1>1, <1>2, <3>1, <3>2 DEF CallKept, QueuedCall, HandledCall, AnsweredCall
  <2> QED BY <2>1, <2>2
<1> QED BY <1>3

(* What is left in the queue when its first message was read *)
LEMMA QueueRead ==
  ASSUME TypeInv, phase = "control", queue' = Tail(queue)
  PROVE  /\ 1 \in DOMAIN queue /\ Head(queue) = queue[1]
         /\ \A i \in DOMAIN queue' :
              i \in Nat /\ i # 0 /\ i + 1 \in DOMAIN queue /\ queue'[i] = queue[i + 1]
<1>1. queue \in Seq(Message) /\ queue # <<>>
  BY DEF TypeInv, TypeOK
<1>2. Len(queue) \in Nat \ {0} /\ DOMAIN queue = 1 .. Len(queue)
  BY <1>1, LenProperties, EmptySeq
<1>3. DOMAIN queue' = 1 .. Len(queue) - 1
      /\ \A i \in 1 .. Len(queue) - 1 : queue'[i] = queue[i + 1]
  <2>1. queue' \in Seq(Message) /\ Len(queue') = Len(queue) - 1
        /\ \A i \in 1 .. Len(queue') : queue'[i] = queue[i + 1]
    BY <1>1, HeadTailProperties
  <2> QED BY <2>1, LenProperties
<1> QED BY <1>1, <1>2, <1>3

(* Reading a message: the others of the queue are as they were, and of the   *)
(* thread it is from there is none left.                                     *)
LEMMA QueueOthers ==
  ASSUME DisplayInv, phase = "control", queue' = Tail(queue)
  PROVE  /\ Head(queue).from \in Thread
         /\ pc[Head(queue).from] # "ended" =>
              /\ \A i \in DOMAIN queue' : queue'[i].from # Head(queue).from
              /\ pc[Head(queue).from] = "waiting"
              /\ Head(queue).from \notin performed
              /\ replies[SocketOf[Head(queue).from]] = 0
              /\ Head(queue).kind = "check" => want[Head(queue).from] = 0
         /\ \A u \in Thread : QueuedCall(u) =>
              /\ \A i, j \in DOMAIN queue' : queue'[i].from = u /\ queue'[j].from = u => i = j
              /\ \A i \in DOMAIN queue' : queue'[i].from = u =>
                   /\ pc[u] = "waiting" /\ u \notin performed
                   /\ replies[SocketOf[u]] = 0
                   /\ queue'[i].kind = "check" => want[u] = 0
<1>1. /\ 1 \in DOMAIN queue /\ Head(queue) = queue[1]
      /\ \A i \in DOMAIN queue' :
           i \in Nat /\ i # 0 /\ i + 1 \in DOMAIN queue /\ queue'[i] = queue[i + 1]
  BY QueueRead DEF DisplayInv, DrawInv
<1>2. Head(queue).from \in Thread
  BY HeadMessage DEF DisplayInv, DrawInv
<1>3. ASSUME pc[Head(queue).from] # "ended"
      PROVE  /\ \A i \in DOMAIN queue' : queue'[i].from # Head(queue).from
             /\ pc[Head(queue).from] = "waiting"
             /\ Head(queue).from \notin performed
             /\ replies[SocketOf[Head(queue).from]] = 0
             /\ Head(queue).kind = "check" => want[Head(queue).from] = 0
  <2>1. QueuedCall(Head(queue).from)
    BY <1>2, <1>3 DEF DisplayInv, CallKept
  <2>2. \A i \in DOMAIN queue' : queue'[i].from # Head(queue).from
    <3> SUFFICES ASSUME NEW i \in DOMAIN queue', queue'[i].from = Head(queue).from PROVE FALSE
      OBVIOUS
    <3>1. i + 1 = 1
      BY <1>1, <2>1 DEF QueuedCall
    <3> QED BY <1>1, <3>1
  <2> QED BY <1>1, <2>1, <2>2 DEF QueuedCall
<1>4. ASSUME NEW u \in Thread, QueuedCall(u)
      PROVE  /\ \A i, j \in DOMAIN queue' : queue'[i].from = u /\ queue'[j].from = u => i = j
             /\ \A i \in DOMAIN queue' : queue'[i].from = u =>
                  /\ pc[u] = "waiting" /\ u \notin performed
                  /\ replies[SocketOf[u]] = 0
                  /\ queue'[i].kind = "check" => want[u] = 0
  <2>1. ASSUME NEW i \in DOMAIN queue', NEW j \in DOMAIN queue',
               queue'[i].from = u, queue'[j].from = u
        PROVE  i = j
    <3>1. i + 1 = j + 1
      BY <1>1, <1>4, <2>1 DEF QueuedCall
    <3> QED BY <1>1, <3>1
  <2> QED BY <1>1, <1>4, <2>1 DEF QueuedCall
<1> QED BY <1>2, <1>3, <1>4

LEMMA KeptInitCheck ==
  ASSUME OwnSockets, OnePixel = FALSE, DisplayInv, InitCheck
  PROVE  \A u \in Thread : CallKept(u)'
<1> DEFINE h == Head(queue).from
<1>1. /\ phase = "control" /\ phase' = "accept" /\ queue' = Tail(queue)
      /\ replies' = Answered(h) /\ UNCHANGED <<pc, want>>
  BY DEF InitCheck, AfterCheck
<1>2. h \in Thread /\ performed' = performed \cup {h}
  <2>1. Head(queue) \in Message /\ Head(queue).kind # "area"
    BY <1>1, HeadMessage DEF InitCheck, IsInitCheck, DisplayInv, DrawInv
  <2>2. Head(queue).kind = "check"
    BY <2>1 DEF Message, Kind
  <2> QED BY <2>1, <2>2 DEF InitCheck, Message
<1>3. \A u \in Thread : ~ At(u) /\ ~ At(u)'
  BY <1>1 DEF At
<1>4. replies \in [Thread -> Nat] /\ \A u \in Thread : SocketOf[u] \in Thread
  BY SocketAssumption DEF DisplayInv, DrawInv, TypeInv, TypeOK
<1> HIDE DEF h
<1>5. ASSUME NEW u \in Thread, u = h, pc[u] # "ended" PROVE CallKept(u)'
  <2>1. /\ \A i \in DOMAIN queue' : queue'[i].from # u
        /\ pc[u] = "waiting" /\ replies[SocketOf[u]] = 0
    BY <1>1, <1>5, QueueOthers DEF h
  <2>2. replies'[SocketOf[u]] = 1
    BY <1>1, <1>4, <1>5, <2>1 DEF Answered
  <2>3. u \in performed' /\ pc'[u] = "waiting" /\ ~ At(u)'
    BY <1>1, <1>2, <1>3, <1>5, <2>1
  <2> QED BY <2>1, <2>2, <2>3 DEF CallKept, QueuedCall, HandledCall, AnsweredCall
<1>6. ASSUME NEW u \in Thread, u # h, pc[u] # "ended" PROVE CallKept(u)'
  <2>1. QueuedCall(u) /\ AnsweredCall(u)
    BY <1>6 DEF DisplayInv, CallKept
  <2>2. /\ \A i, j \in DOMAIN queue' : queue'[i].from = u /\ queue'[j].from = u => i = j
        /\ \A i \in DOMAIN queue' : queue'[i].from = u =>
             /\ pc[u] = "waiting" /\ u \notin performed /\ replies[SocketOf[u]] = 0
             /\ queue'[i].kind = "check" => want[u] = 0
    BY <1>1, <2>1, QueueOthers
  <2>3. replies'[SocketOf[u]] = replies[SocketOf[u]]
    BY <1>1, <1>2, <1>4, <1>6 DEF Answered, OwnSockets
  <2>4. u \in performed' <=> u \in performed
    BY <1>2, <1>6
  <2> QED BY <1>1, <1>3, <2>1, <2>2, <2>3, <2>4
          DEF CallKept, QueuedCall, HandledCall, AnsweredCall
<1>7. ASSUME NEW u \in Thread, pc[u] = "ended" PROVE CallKept(u)'
  BY <1>1, <1>7 DEF CallKept
<1> QED BY <1>5, <1>6, <1>7

LEMMA KeptTakeUpdate ==
  ASSUME DisplayInv, TakeUpdate
  PROVE  \A u \in Thread : CallKept(u)'
<1> DEFINE h == Head(queue).from
<1>1. /\ phase = "control" /\ phase' = "update" /\ queue' = Tail(queue)
      /\ handling'.from = h /\ UNCHANGED <<pc, want, performed, replies>>
  BY DEF TakeUpdate, callers
<1> HIDE DEF h
<1>2. \A u \in Thread : At(u)' <=> u = h
  BY <1>1 DEF At
<1>3. ASSUME NEW u \in Thread, pc[u] # "ended" PROVE CallKept(u)'
  <2>1. QueuedCall(u) /\ AnsweredCall(u)
    BY <1>3 DEF DisplayInv, CallKept
  <2>2. /\ \A i, j \in DOMAIN queue' : queue'[i].from = u /\ queue'[j].from = u => i = j
        /\ \A i \in DOMAIN queue' : queue'[i].from = u =>
             /\ pc[u] = "waiting" /\ u \notin performed /\ replies[SocketOf[u]] = 0
             /\ queue'[i].kind = "check" => want[u] = 0
    BY <1>1, <2>1, QueueOthers
  <2>3. CASE u = h
    <3>1. /\ \A i \in DOMAIN queue' : queue'[i].from # u
          /\ pc[u] = "waiting" /\ replies[SocketOf[u]] = 0 /\ u \notin performed
      BY <1>1, <1>3, <2>3, QueueOthers DEF h
    <3> QED BY <1>1, <3>1 DEF CallKept, QueuedCall, HandledCall, AnsweredCall
  <2>4. CASE u # h
    BY <1>1, <1>2, <2>1, <2>2, <2>4 DEF CallKept, QueuedCall, HandledCall, AnsweredCall
  <2> QED BY <2>3, <2>4
<1>4. ASSUME NEW u \in Thread, pc[u] = "ended" PROVE CallKept(u)'
  BY <1>1, <1>4 DEF CallKept
<1> QED BY <1>3, <1>4

LEMMA KeptDoUpdate ==
  ASSUME DisplayInv, DoUpdate
  PROVE  \A u \in Thread : CallKept(u)'
<1>1. /\ phase = "update" /\ phase' = "stream"
      /\ performed' = performed \cup {handling.from}
      /\ UNCHANGED <<pc, want, queue, replies, handling>>
  BY DEF DoUpdate, control
<1>2. \A u \in Thread : (At(u)' <=> At(u)) /\ (At(u) <=> u = handling.from)
  BY <1>1 DEF At
<1>3. \A u \in Thread : CallKept(u)
  BY DEF DisplayInv
<1> QED BY <1>1, <1>2, <1>3 DEF CallKept, QueuedCall, HandledCall, AnsweredCall

LEMMA KeptAnswer ==
  ASSUME OwnSockets, DisplayInv, Answer
  PROVE  \A u \in Thread : CallKept(u)'
<1> DEFINE h == handling.from
<1>1. /\ phase = "stream" /\ phase' = "accept" /\ replies' = Answered(h)
      /\ UNCHANGED <<pc, want, performed, queue, handling>>
  BY DEF Answer, callers
<1>2. \A u \in Thread : ~ At(u)' /\ (At(u) <=> u = h)
  BY <1>1 DEF At
<1>3. replies \in [Thread -> Nat] /\ h \in Thread /\ \A u \in Thread : SocketOf[u] \in Thread
  BY SocketAssumption DEF DisplayInv, DrawInv, TypeInv, TypeOK, Message
<1> HIDE DEF h
<1>4. ASSUME NEW u \in Thread, pc[u] # "ended" PROVE CallKept(u)'
  <2>1. QueuedCall(u) /\ HandledCall(u) /\ AnsweredCall(u)
    BY <1>4 DEF DisplayInv, CallKept
  <2>2. CASE u = h
    <3>1. /\ pc[u] = "waiting" /\ replies[SocketOf[u]] = 0 /\ u \in performed
          /\ \A i \in DOMAIN queue : queue[i].from # u
      BY <1>1, <1>2, <2>1, <2>2 DEF QueuedCall, HandledCall
    <3>2. replies'[SocketOf[u]] = 1
      BY <1>1, <1>3, <1>4, <2>2, <3>1 DEF Answered
    <3> QED BY <1>1, <1>2, <3>1, <3>2 DEF CallKept, QueuedCall, HandledCall, AnsweredCall
  <2>3. CASE u # h
    <3>1. replies'[SocketOf[u]] = replies[SocketOf[u]]
      BY <1>1, <1>3, <2>3 DEF Answered, OwnSockets
    <3> QED BY <1>1, <1>2, <2>1, <2>3, <3>1
            DEF CallKept, QueuedCall, HandledCall, AnsweredCall
  <2> QED BY <2>2, <2>3
<1>5. ASSUME NEW u \in Thread, pc[u] = "ended" PROVE CallKept(u)'
  BY <1>1, <1>5 DEF CallKept
<1> QED BY <1>4, <1>5

(* The panel is not ahead of the drawings, nor are the calls. *)
LEMMA NumbersKept ==
  ASSUME MaxCrashes = 0, DisplayInv, [Next]_vars
  PROVE  /\ crashes' = 0 /\ last' >= last
         /\ \A t \in Thread : want'[t] <= last'
         /\ panel' <= last'
<1>0. /\ last \in Nat /\ panel \in Nat /\ fb = last /\ crashes = 0
      /\ want \in [Thread -> Nat] /\ panel <= last
      /\ \A t \in Thread : want[t] <= last
  BY BoundAssumption DEF DisplayInv, DrawInv, TypeInv, TypeOK
<1>1. CASE UNCHANGED <<last, want, panel, crashes>>
  BY <1>0, <1>1
<1>2. ASSUME NEW t \in Thread, NEW kind \in Kind, NEW d \in {0, last}, Request(t, kind, d)
      PROVE  /\ crashes' = 0 /\ last' >= last
             /\ \A u \in Thread : want'[u] <= last'
             /\ panel' <= last'
  <2>1. want' = [want EXCEPT ![t] = d] /\ UNCHANGED <<last, panel, crashes>>
    BY <1>2 DEF Request, screen
  <2> QED BY <1>0, <2>1
<1>3. CASE Crash
  BY <1>0, <1>3 DEF Crash
<1>4. CASE Server
  <2>1. CASE InitThreads
    BY <1>0, <2>1 DEF InitThreads, callers
  <2>2. CASE DoUpdate
    BY <1>0, <2>2 DEF DoUpdate, Updates, screen
  <2>3. CASE ~ InitThreads /\ ~ DoUpdate
    BY <1>1, <1>4, <2>3 DEF Server, Backup, Restore, Poll, InitCheck, TakeUpdate, Stream,
       Answer, Accept, SkipClient, Erase, ReadMessage, ReadEof, Reads, screen, callers
  <2> QED BY <2>1, <2>2, <2>3
<1>5. ASSUME NEW t \in Thread,
             \/ Open(t) \/ Draw(t) \/ Receive(t) \/ Exit(t)
             \/ \E kind \in Kind \ {"check"} : SendUpdate(t, kind)
      PROVE  /\ crashes' = 0 /\ last' >= last
             /\ \A u \in Thread : want'[u] <= last'
             /\ panel' <= last'
  <2>1. CASE Open(t)
    BY <1>2, <2>1 DEF Open, Kind
  <2>2. CASE \E kind \in Kind \ {"check"} : SendUpdate(t, kind)
    BY <1>2, <2>2 DEF SendUpdate
  <2>3. CASE Draw(t)
    BY <1>0, <2>3 DEF Draw, callers
  <2>4. CASE Receive(t) \/ Exit(t)
    BY <1>1, <2>4 DEF Receive, Exit, screen
  <2> QED BY <1>5, <2>1, <2>2, <2>3, <2>4
<1>6. CASE \E v \in Viewer :
             \/ Connect(v) \/ ReadFrame(v) \/ Leave(v)
             \/ \E m \in {"GetUpdate", "Input"} : SendMessage(v, m)
  BY <1>1, <1>6 DEF Connect, ReadFrame, Leave, SendMessage, screen, callers
<1>7. CASE UNCHANGED vars
  BY <1>1, <1>7 DEF vars, screen, callers
<1> QED BY <1>3, <1>4, <1>5, <1>6, <1>7 DEF Next

LEMMA DisplayStep ==
  ASSUME OwnSockets, OnePixel = FALSE, MaxCrashes = 0, DisplayInv, [Next]_vars
  PROVE  DisplayInv'
<1>1. DrawInv'
  BY DrawStep DEF DisplayInv
<1>2. \A t \in Thread : CallKept(t)'
  <2>1. CASE Server
    <3>1. CASE InitCheck \/ TakeUpdate \/ DoUpdate \/ Answer
      BY <3>1, KeptInitCheck, KeptTakeUpdate, KeptDoUpdate, KeptAnswer
    <3>2. CASE ~ (InitCheck \/ TakeUpdate \/ DoUpdate \/ Answer)
      <4>1. /\ UNCHANGED <<pc, want, performed, queue, replies, handling>>
            /\ \/ phase' = phase
               \/ phase \notin {"update", "stream"} /\ phase' \notin {"update", "stream"}
        BY <2>1, <3>2 DEF Server, Backup, InitThreads, Restore, Poll, Stream, Accept,
           SkipClient, Erase, ReadMessage, ReadEof, Reads, callers, control
      <4> QED BY <4>1, KeptIdle
    <3> QED BY <3>1, <3>2
  <2>2. CASE Crash
    BY <2>2 DEF Crash, DisplayInv
  <2>3. ASSUME NEW t \in Thread,
               \/ Open(t) \/ Draw(t) \/ Receive(t) \/ Exit(t)
               \/ \E kind \in Kind \ {"check"} : SendUpdate(t, kind)
        PROVE  \A u \in Thread : CallKept(u)'
    <3>1. CASE Open(t)
      BY <3>1, KeptRequest DEF Open, Kind
    <3>2. CASE \E kind \in Kind \ {"check"} : SendUpdate(t, kind)
      BY <3>2, KeptRequest DEF SendUpdate
    <3>3. CASE Draw(t)
      <4>1. UNCHANGED <<pc, want, performed, queue, replies, handling, phase>>
        BY <3>3 DEF Draw, callers, control, loop
      <4> QED BY <4>1, KeptIdle
    <3> QED BY <2>3, <3>1, <3>2, <3>3, KeptReceive, KeptExit
  <2>4. CASE \/ UNCHANGED vars
             \/ \E v \in Viewer :
                  \/ Connect(v) \/ ReadFrame(v) \/ Leave(v)
                  \/ \E m \in {"GetUpdate", "Input"} : SendMessage(v, m)
    <3>1. UNCHANGED <<pc, want, performed, queue, replies, handling, phase>>
      BY <2>4 DEF Connect, ReadFrame, Leave, SendMessage, vars, callers, control, loop
    <3> QED BY <3>1, KeptIdle
  <2> QED BY <2>1, <2>2, <2>3, <2>4 DEF Next
<1> QED BY <1>1, <1>2, NumbersKept DEF DisplayInv

(* How a step changes the calls Display sees: of no thread, or of one *)
LEMMA CallsSame ==
  ASSUME pc' = pc,
         \A t \in Thread : pc[t] = "waiting" => (t \in performed' <=> t \in performed)
  PROVE  Call' = Call
BY DEF Call

LEMMA CallOfOne ==
  ASSUME NEW t \in Thread,
         \A u \in Thread : u # t =>
           pc'[u] = pc[u] /\ (u \in performed' <=> u \in performed)
  PROVE  Call' = [Call EXCEPT ![t] = Call'[t]]
BY DEF Call

LEMMA CallIs ==
  \A t \in Thread :
    /\ pc[t] = "ended" => Call[t] = "ended"
    /\ pc[t] = "waiting" /\ t \in performed => Call[t] = "done"
    /\ pc[t] = "waiting" /\ t \notin performed => Call[t] = "pending"
    /\ pc[t] \in {"closed", "idle"} => Call[t] = "idle"
BY DEF Call

(* A call performed for a thread that has ended, or for one that waits *)
LEMMA Performs ==
  ASSUME DisplayInv, NEW t \in Thread,
         performed' = performed \cup {t}, UNCHANGED <<pc, last, want>>,
         pc[t] = "ended" \/ (pc[t] = "waiting" /\ t \notin performed),
         panel' \in panel .. last, pc[t] # "ended" => panel' >= want[t]
  PROVE  D!Perform(t) \/ D!PerformForNobody
<1>1. CASE pc[t] = "ended"
  <2>1. Call' = Call
    BY <1>1, CallsSame
  <2> QED BY <2>1 DEF D!PerformForNobody
<1>2. CASE pc[t] = "waiting" /\ t \notin performed
  <2>1. Call[t] = "pending" /\ Call'[t] = "done"
    BY <1>2 DEF Call
  <2>2. Call' = [Call EXCEPT ![t] = "done"]
    BY <2>1, CallOfOne
  <2> QED BY <1>2, <2>1, <2>2 DEF D!Perform
<1> QED BY <1>1, <1>2

LEMMA DisplayThread ==
  ASSUME DisplayInv, NEW t \in Thread,
         \/ Open(t) \/ Draw(t) \/ Receive(t) \/ Exit(t)
         \/ \E kind \in Kind \ {"check"} : SendUpdate(t, kind)
  PROVE  D!Next
<1>0. DOMAIN pc = Thread /\ DOMAIN want = Thread /\ replies \in [Thread -> Nat]
  BY DEF DisplayInv, DrawInv, TypeInv, TypeOK
<1>1. ASSUME NEW kind, NEW d \in {0, last}, Request(t, kind, d), pc[t] \in {"closed", "idle"}
      PROVE  D!Call(t)
  <2>1. /\ pc' = [pc EXCEPT ![t] = "waiting"] /\ want' = [want EXCEPT ![t] = d]
        /\ performed' = performed \ {t} /\ UNCHANGED <<last, panel>>
    BY <1>1 DEF Request, screen
  <2>2. Call[t] = "idle" /\ Call'[t] = "pending"
    BY <1>0, <1>1, <2>1 DEF Call
  <2>3. Call' = [Call EXCEPT ![t] = "pending"]
    BY <2>1, <2>2, CallOfOne
  <2> QED BY <2>1, <2>2, <2>3 DEF D!Call
<1>2. CASE Open(t)
  BY <1>1, <1>2 DEF Open, D!Next
<1>3. CASE \E kind \in Kind \ {"check"} : SendUpdate(t, kind)
  BY <1>1, <1>3 DEF SendUpdate, D!Next
<1>4. CASE Draw(t)
  <2>1. last' = last + 1 /\ UNCHANGED <<panel, pc, want, performed>>
    BY <1>4 DEF Draw, callers
  <2>2. Call' = Call
    BY <2>1, CallsSame
  <2> QED BY <2>1, <2>2 DEF D!Draw, D!Next
<1>5. CASE Receive(t)
  <2>1. /\ pc[t] = "waiting" /\ pc' = [pc EXCEPT ![t] = "idle"]
        /\ replies[SocketOf[t]] # 0 /\ UNCHANGED <<last, panel, want, performed>>
    BY <1>0, <1>5, SocketAssumption DEF Receive, HasAnswer, screen
  <2>2. t \in performed
    BY <2>1 DEF DisplayInv, CallKept, AnsweredCall
  <2>3. Call[t] = "done" /\ Call'[t] = "idle"
    BY <1>0, <2>1, <2>2 DEF Call
  <2>4. Call' = [Call EXCEPT ![t] = "idle"]
    BY <2>1, <2>3, CallOfOne
  <2> QED BY <2>1, <2>3, <2>4 DEF D!Return, D!Next
<1>6. CASE Exit(t)
  <2> DEFINE T == {u \in Thread : SocketOf[u] = t}
  <2>1. /\ pc' = [u \in Thread |-> IF u \in T THEN "ended" ELSE pc[u]]
        /\ UNCHANGED <<last, panel, want, performed>>
    BY <1>6 DEF Exit, screen
  <2>2. T \in SUBSET Thread
    OBVIOUS
  <2> HIDE DEF T
  <2>3. Call' = [u \in Thread |-> IF u \in T THEN "ended" ELSE Call[u]]
    BY <2>1 DEF Call
  <2> QED BY <2>1, <2>2, <2>3 DEF D!Exit, D!Next
<1> QED BY <1>2, <1>3, <1>4, <1>5, <1>6

LEMMA DisplayServer ==
  ASSUME OnePixel = FALSE, DisplayInv, Server
  PROVE  D!Next \/ UNCHANGED D!vars
<1>0. /\ last \in Nat /\ panel \in Nat /\ fb = last /\ panel <= last
      /\ \A t \in Thread : want[t] \in Nat /\ want[t] <= last
      /\ \A t \in Thread : CallKept(t)
      /\ \A t \in Thread : pc[t] # "ended" => QueuedCall(t) /\ HandledCall(t)
  BY BoundAssumption DEF DisplayInv, DrawInv, TypeInv, TypeOK, CallKept
<1>1. CASE InitCheck
  <2> DEFINE h == Head(queue).from
  <2>1. /\ phase = "control" /\ Head(queue).kind # "area" /\ Head(queue) \in Message /\ h \in Thread
        /\ queue' = Tail(queue)
    BY <1>1, HeadMessage DEF InitCheck, IsInitCheck, DisplayInv, DrawInv
  <2>2. Head(queue).kind = "check"
    BY <2>1 DEF Message, Kind
  <2>3. performed' = performed \cup {h} /\ UNCHANGED <<pc, last, want, panel>>
    BY <1>1, <2>2 DEF InitCheck, screen
  <2>4. pc[h] # "ended" => pc[h] = "waiting" /\ h \notin performed /\ want[h] = 0
    BY <2>1, <2>2, QueueOthers
  <2>5. panel' \in panel .. last /\ (pc[h] # "ended" => panel' >= want[h])
    BY <1>0, <2>3, <2>4
  <2> HIDE DEF h
  <2>6. PICK t \in Thread : t = h
    BY <2>1
  <2>7. D!Perform(t) \/ D!PerformForNobody
    <3>1. performed' = performed \cup {t} /\ UNCHANGED <<pc, last, want>>
      BY <2>3, <2>4, <2>5, <2>6
    <3>2. pc[t] = "ended" \/ (pc[t] = "waiting" /\ t \notin performed)
      BY <2>3, <2>4, <2>5, <2>6
    <3>3. panel' \in panel .. last
      BY <2>3, <2>4, <2>5, <2>6
    <3>4. pc[t] # "ended" => panel' >= want[t]
      BY <2>3, <2>4, <2>5, <2>6
    <3> QED BY <3>1, <3>2, <3>3, <3>4, Performs
  <2> QED BY <2>7 DEF D!Next
<1>2. CASE DoUpdate
  <2> DEFINE h == handling.from
  <2>1. h \in Thread
    BY DEF DisplayInv, DrawInv, TypeInv, TypeOK, Message
  <2>2. /\ phase = "update" /\ performed' = performed \cup {h} /\ panel' = fb
        /\ UNCHANGED <<pc, last, want>>
    BY <1>2 DEF DoUpdate, Updates, screen
  <2>3. pc[h] # "ended" => pc[h] = "waiting" /\ h \notin performed
    BY <1>0, <2>1, <2>2 DEF HandledCall, At
  <2>4. panel' \in panel .. last /\ (pc[h] # "ended" => panel' >= want[h])
    BY <1>0, <2>1, <2>2
  <2> HIDE DEF h
  <2>5. PICK t \in Thread : t = h
    BY <2>1
  <2>6. D!Perform(t) \/ D!PerformForNobody
    <3>1. performed' = performed \cup {t} /\ UNCHANGED <<pc, last, want>>
      BY <2>2, <2>3, <2>4, <2>5
    <3>2. pc[t] = "ended" \/ (pc[t] = "waiting" /\ t \notin performed)
      BY <2>2, <2>3, <2>4, <2>5
    <3>3. panel' \in panel .. last
      BY <2>2, <2>3, <2>4, <2>5
    <3>4. pc[t] # "ended" => panel' >= want[t]
      BY <2>2, <2>3, <2>4, <2>5
    <3> QED BY <3>1, <3>2, <3>3, <3>4, Performs
  <2> QED BY <2>6 DEF D!Next
<1>3. CASE InitThreads
  <2>1. panel = 0
    BY <1>3 DEF InitThreads, DisplayInv, DrawInv, Starting, Untouched
  <2>2. UNCHANGED <<pc, performed, last, want, panel>>
    BY <1>3, <2>1 DEF InitThreads, callers
  <2> QED BY <2>2, CallsSame DEF D!vars
<1>4. CASE ~ (InitCheck \/ DoUpdate \/ InitThreads)
  <2>1. UNCHANGED <<pc, performed, last, want, panel>>
    BY <1>4 DEF Server, Backup, Restore, Poll, TakeUpdate, Stream, Answer, Accept,
       SkipClient, Erase, ReadMessage, ReadEof, Reads, screen, callers
  <2> QED BY <2>1, CallsSame DEF D!vars
<1> QED BY <1>1, <1>2, <1>3, <1>4

LEMMA DisplayNext ==
  ASSUME OnePixel = FALSE, MaxCrashes = 0, DisplayInv, [Next]_vars
  PROVE  D!Next \/ UNCHANGED D!vars
<1>1. CASE Server
  BY <1>1, DisplayServer
<1>2. CASE Crash
  BY <1>2 DEF Crash, DisplayInv
<1>3. CASE \E t \in Thread :
             \/ Open(t) \/ Draw(t) \/ Receive(t) \/ Exit(t)
             \/ \E kind \in Kind \ {"check"} : SendUpdate(t, kind)
  BY <1>3, DisplayThread
<1>4. CASE \/ UNCHANGED vars
           \/ \E v \in Viewer :
                \/ Connect(v) \/ ReadFrame(v) \/ Leave(v)
                \/ \E m \in {"GetUpdate", "Input"} : SendMessage(v, m)
  <2>1. UNCHANGED <<pc, performed, last, want, panel>>
    BY <1>4 DEF Connect, ReadFrame, Leave, SendMessage, vars, screen, callers
  <2> QED BY <2>1, CallsSame DEF D!vars
<1> QED BY <1>1, <1>2, <1>3, <1>4 DEF Next

(* sendUpdate and the init check return only when they were carried out, and *)
(* the panel then shows what was drawn before: for any number of threads,    *)
(* each with its own socket, that draw, call and exit at any time, and any   *)
(* viewers, as long as the server does not crash (Client.cpp:63-73,          *)
(* Server.cpp:319-344).                                                      *)
THEOREM UpdatesAreShown ==
  ASSUME OwnSockets, OnePixel = FALSE, MaxCrashes = 0
  PROVE  Spec => UpdateIsShown
<1>1. Init => D!Init
  BY DEF Init, D!Init, Call
<1>2. DisplayInv /\ [Next]_vars => DisplayInv'
  BY DisplayStep
<1>3. DisplayInv /\ [Next]_vars => [D!Next]_(D!vars)
  BY DisplayNext
<1> QED BY <1>1, <1>2, <1>3, DisplayInit, PTL DEF Spec, UpdateIsShown, D!Spec
==============================================================================
