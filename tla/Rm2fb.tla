-------------------------------- MODULE Rm2fb --------------------------------
(***************************************************************************)
(* The framebuffer server (rm2fb/Server.cpp) and its clients.              *)
(*                                                                         *)
(* Threads of other programs draw in a buffer shared with the server and   *)
(* call sendUpdate (Client.cpp), which sends a datagram and waits for the  *)
(* answer on the one socket of its process.  Viewers are TCP connections   *)
(* (rm2fb-emu): they get a frame for every update and for every GetUpdate  *)
(* they send.  The server is one loop around poll; systemd owns its        *)
(* listening sockets, so they outlive a crash of the server.               *)
(***************************************************************************)
EXTENDS Naturals, Sequences, FiniteSets

CONSTANTS
  Thread,      \* threads that use the framebuffer
  SocketOf,    \* the socket of a thread's process, named by one of its threads
  Viewer,      \* TCP connections; each is made at most once
  OnePixel,    \* threads also update regions of a single pixel
  MaxDraws,    \* bound on drawings
  MaxCrashes,  \* bound on crashes of the server
  Window,      \* frames that fit in the buffers of a connection
  MaxInbox     \* messages of a viewer that are on their way

ASSUME SocketAssumption == SocketOf \in [Thread -> Thread]
ASSUME BoundAssumption ==
  /\ OnePixel \in BOOLEAN
  /\ MaxDraws \in Nat /\ MaxCrashes \in Nat
  /\ Window \in Nat \ {0} /\ MaxInbox \in Nat \ {0}

VARIABLES
  fb,          \* the shared buffer: the number of the drawing it holds, 0 is white
  last,        \* the number of the last drawing
  safe,        \* for DrawingKept: the last drawing that no start of the server may lose
  pc,          \* what each thread does
  want,        \* the last drawing before a thread's last call
  performed,   \* the threads whose last call the server has carried out
  queue,       \* datagrams in the control socket
  replies,     \* answers in each client socket
  phase,       \* where the server's loop is
  backup,      \* copyBuffer
  handling,    \* the control message read last
  cursor,      \* index into tcpClients
  tcpClients,  \* accepted connections
  polled,      \* revents of the connections: can be read
  acceptable,  \* revents of the listening socket
  panel,       \* the drawing on the panel
  conn,        \* the server's end of each connection
  gone,        \* connections whose viewer has left
  inbox,       \* messages from each viewer
  outbox,      \* frames to each viewer
  seen,        \* the last frame a viewer has read
  asked,       \* viewers that have sent GetUpdate
  crashes

screen  == <<fb, last, safe>>
callers == <<pc, want, performed>>
control == <<queue, replies>>
loop    == <<phase, backup, handling, cursor, tcpClients, polled, acceptable>>
remote  == <<conn, gone, inbox, outbox, seen, asked>>
vars    == <<screen, callers, control, loop, panel, remote, crashes>>

Kind == {"check", "area"} \cup (IF OnePixel THEN {"pixel"} ELSE {})
Message == [from : Thread, kind : Kind]
Phases == {"start", "init", "restore", "poll", "control", "update", "stream",
           "accept", "read"}

\* TRUE of a region of one pixel as well: both corners are part of a region.
IsInitCheck(kind) == kind # "area"

Readable(v) == inbox[v] # <<>> \/ v \in gone

\* The sequences std::remove_if and erase can leave of s: the elements in
\* keep, in their order.
Kept(s, keep) ==
  {r \in UNION {[1 .. n -> keep] : n \in 0 .. Len(s)} :
     \E f \in [DOMAIN r -> DOMAIN s] :
       /\ \A i, j \in DOMAIN r : i < j => f[i] < f[j]
       /\ \A i \in DOMAIN r : r[i] = s[f[i]]
       /\ \A k \in DOMAIN s : s[k] \in keep => \E i \in DOMAIN r : f[i] = k}

Init ==
  /\ fb = 0 /\ last = 0 /\ safe = 0 /\ panel = 0 /\ crashes = 0
  /\ pc = [t \in Thread |-> "closed"]
  /\ want = [t \in Thread |-> 0]
  /\ performed = {}
  /\ queue = <<>>
  /\ replies = [t \in Thread |-> 0]
  /\ phase = "start"
  /\ backup = 0
  /\ handling \in Message
  /\ cursor = 1
  /\ tcpClients = <<>> /\ polled = <<>>
  /\ acceptable = FALSE
  /\ conn = [v \in Viewer |-> "away"]
  /\ gone = {} /\ asked = {}
  /\ inbox = [v \in Viewer |-> <<>>]
  /\ outbox = [v \in Viewer |-> <<>>]
  /\ seen = [v \in Viewer |-> 0]

------------------------------------------------------------------------------
(* The threads *)

Request(t, kind, drawing) ==
  /\ queue' = Append(queue, [from |-> t, kind |-> kind])
  /\ pc' = [pc EXCEPT ![t] = "waiting"]
  /\ want' = [want EXCEPT ![t] = drawing]
  /\ performed' = performed \ {t}
  /\ UNCHANGED <<screen, replies, loop, panel, remote, crashes>>

\* open of the framebuffer device: waitForInit before the descriptor is returned.
Open(t) ==
  /\ pc[t] = "closed"
  /\ Request(t, "check", 0)

\* What is drawn between the copy of the buffer and its restore is overwritten.
Draw(t) ==
  /\ pc[t] = "idle"
  /\ last < MaxDraws
  /\ last' = last + 1
  /\ fb' = last + 1
  /\ safe' = IF phase \in {"init", "restore"} THEN safe ELSE last + 1
  /\ UNCHANGED <<callers, control, loop, panel, remote, crashes>>

SendUpdate(t, kind) ==
  /\ pc[t] = "idle"
  /\ Request(t, kind, last)

\* A receive that does not wait.
AnswerUnchecked(t) == TRUE

HasAnswer(t) == replies[SocketOf[t]] > 0

\* recvfrom: whichever thread of the process is scheduled takes the answer.
Receive(t) ==
  /\ pc[t] = "waiting"
  /\ HasAnswer(t)
  /\ replies' = [replies EXCEPT ![SocketOf[t]] = @ - 1]
  /\ pc' = [pc EXCEPT ![t] = "idle"]
  /\ UNCHANGED <<screen, want, performed, queue, loop, panel, remote, crashes>>

\* A process ends; what it has sent stays in the server's socket.
Exit(s) ==
  /\ \E t \in Thread : SocketOf[t] = s /\ pc[t] # "ended"
  /\ pc' = [t \in Thread |-> IF SocketOf[t] = s THEN "ended" ELSE pc[t]]
  /\ replies' = [replies EXCEPT ![s] = 0]
  /\ UNCHANGED <<screen, want, performed, queue, loop, panel, remote, crashes>>

------------------------------------------------------------------------------
(* The server *)

\* A message that is not answered.
Unanswered(t) == replies

\* sendto fails, and is ignored, when the caller is gone.
Answered(t) ==
  IF pc[t] = "ended" THEN replies
  ELSE [replies EXCEPT ![SocketOf[t]] = @ + 1]

Backup ==
  /\ phase = "start"
  /\ backup' = fb
  /\ phase' = "init"
  /\ UNCHANGED <<screen, callers, control, handling, cursor, tcpClients,
                 polled, acceptable, panel, remote, crashes>>

\* The threads of the e-paper controller start with a white buffer and panel.
InitThreads ==
  /\ phase = "init"
  /\ fb' = 0 /\ panel' = 0
  /\ phase' = "restore"
  /\ UNCHANGED <<last, safe, callers, control, backup, handling, cursor, tcpClients,
                 polled, acceptable, remote, crashes>>

\* A start that does not copy the buffer back.
RestoreDropped ==
  /\ phase = "restore"
  /\ phase' = "poll"
  /\ UNCHANGED <<screen, callers, control, backup, handling, cursor, tcpClients,
                 polled, acceptable, panel, remote, crashes>>

Restore ==
  /\ phase = "restore"
  /\ fb' = backup
  /\ phase' = "poll"
  /\ UNCHANGED <<last, safe, callers, control, backup, handling, cursor, tcpClients,
                 polled, acceptable, panel, remote, crashes>>

\* revents that are not cleared between rounds.
AcceptableStale == acceptable \/ \E v \in Viewer : conn[v] = "backlog"

Acceptable == \E v \in Viewer : conn[v] = "backlog"

Poll ==
  /\ phase = "poll"
  /\ \/ queue # <<>>
     \/ Acceptable
     \/ \E i \in DOMAIN tcpClients : Readable(tcpClients[i])
  /\ polled' = [i \in DOMAIN tcpClients |-> Readable(tcpClients[i])]
  /\ acceptable' = Acceptable
  /\ phase' = IF queue # <<>> THEN "control" ELSE "accept"
  /\ UNCHANGED <<screen, callers, control, backup, handling, cursor,
                 tcpClients, panel, remote, crashes>>

\* An init check that goes on as an update.
FallsThrough == "update"

AfterCheck == "accept"

\* readControlMessage, for a message that is taken for an init check
InitCheck ==
  /\ phase = "control"
  /\ IsInitCheck(Head(queue).kind)
  /\ handling' = Head(queue)
  /\ queue' = Tail(queue)
  /\ replies' = Answered(Head(queue).from)
  /\ performed' = IF Head(queue).kind = "check"
                  THEN performed \cup {Head(queue).from} ELSE performed
  /\ phase' = AfterCheck
  /\ UNCHANGED <<screen, pc, want, backup, cursor, tcpClients, polled,
                 acceptable, panel, remote, crashes>>

\* readControlMessage, for an update
TakeUpdate ==
  /\ phase = "control"
  /\ ~ IsInitCheck(Head(queue).kind)
  /\ handling' = Head(queue)
  /\ queue' = Tail(queue)
  /\ phase' = "update"
  /\ UNCHANGED <<screen, callers, replies, backup, cursor, tcpClients, polled,
                 acceptable, panel, remote, crashes>>

\* An update from the copy instead of the shared buffer.
UpdatesBackup == backup

Updates == fb

\* An update that is not streamed to the first connection.
DoUpdateSkipsFirst ==
  /\ phase = "update"
  /\ panel' = Updates
  /\ performed' = performed \cup {handling.from}
  /\ cursor' = 2
  /\ phase' = "stream"
  /\ UNCHANGED <<screen, pc, want, control, backup, handling, tcpClients,
                 polled, acceptable, remote, crashes>>

DoUpdate ==
  /\ phase = "update"
  /\ panel' = Updates
  /\ performed' = performed \cup {handling.from}
  /\ cursor' = 1
  /\ phase' = "stream"
  /\ UNCHANGED <<screen, pc, want, control, backup, handling, tcpClients,
                 polled, acceptable, remote, crashes>>

\* Writing a frame: an error closes the connection, and a write to a closed
\* one fails; the first write after the viewer has left may still succeed; a
\* full connection blocks the server.
DoTCPUpdate(v) ==
  \/ /\ conn[v] = "closed"
     /\ UNCHANGED <<conn, outbox>>
  \/ /\ conn[v] = "open" /\ v \in gone
     /\ \E c \in {"open", "closed"} : conn' = [conn EXCEPT ![v] = c]
     /\ UNCHANGED outbox
  \/ /\ conn[v] = "open" /\ v \notin gone
     /\ Len(outbox[v]) < Window
     /\ outbox' = [outbox EXCEPT ![v] = Append(@, fb)]
     /\ UNCHANGED conn

Stream ==
  /\ phase = "stream"
  /\ cursor <= Len(tcpClients)
  /\ DoTCPUpdate(tcpClients[cursor])
  /\ cursor' = cursor + 1
  /\ UNCHANGED <<screen, callers, control, phase, backup, handling, tcpClients,
                 polled, acceptable, panel, gone, inbox, seen, asked, crashes>>

Answer ==
  /\ phase = "stream"
  /\ cursor > Len(tcpClients)
  /\ replies' = Answered(handling.from)
  /\ phase' = "accept"
  /\ UNCHANGED <<screen, callers, queue, backup, handling, cursor, tcpClients,
                 polled, acceptable, panel, remote, crashes>>

\* A new connection at the front, where the poll results do not expect it.
AcceptedFirst(v) == <<v>> \o tcpClients

Accepted(v) == Append(tcpClients, v)

Accept ==
  /\ phase = "accept"
  /\ IF acceptable
     THEN \E v \in Viewer :
            /\ conn[v] = "backlog"
            /\ conn' = [conn EXCEPT ![v] = "open"]
            /\ tcpClients' = Accepted(v)
     ELSE UNCHANGED <<conn, tcpClients>>
  /\ cursor' = 1
  /\ phase' = "read"
  /\ UNCHANGED <<screen, callers, control, backup, handling, polled,
                 acceptable, panel, gone, inbox, outbox, seen, asked, crashes>>

\* A connection that poll did not report, or that doTCPUpdate has closed since
\* (reading from it fails, and that is no end of file).
SkipClient ==
  /\ phase = "read"
  /\ cursor <= Len(polled)
  /\ ~ polled[cursor] \/ conn[tcpClients[cursor]] = "closed"
  /\ cursor' = cursor + 1
  /\ UNCHANGED <<screen, callers, control, phase, backup, handling, tcpClients,
                 polled, acceptable, panel, remote, crashes>>

Reads(v) ==
  /\ phase = "read"
  /\ cursor <= Len(polled)
  /\ v = tcpClients[cursor]
  /\ polled[cursor] /\ conn[v] = "open"
  /\ cursor' = cursor + 1
  /\ UNCHANGED <<screen, callers, control, phase, backup, handling, tcpClients,
                 polled, acceptable, panel, gone, seen, asked, crashes>>

\* Input and PowerButton go to the input devices; GetUpdate is answered.
ReadMessage(v) ==
  /\ Reads(v)
  /\ inbox[v] # <<>>
  /\ inbox' = [inbox EXCEPT ![v] = Tail(@)]
  /\ IF Head(inbox[v]) = "GetUpdate" THEN DoTCPUpdate(v)
     ELSE UNCHANGED <<conn, outbox>>

ReadEof(v) ==
  /\ Reads(v)
  /\ inbox[v] = <<>> /\ v \in gone
  /\ conn' = [conn EXCEPT ![v] = "closed"]
  /\ UNCHANGED <<inbox, outbox>>

Erase ==
  /\ phase = "read"
  /\ cursor > Len(polled)
  /\ tcpClients' \in Kept(tcpClients, {v \in Viewer : conn[v] = "open"})
  /\ phase' = "poll"
  /\ UNCHANGED <<screen, callers, control, backup, handling, cursor, polled,
                 acceptable, panel, remote, crashes>>

\* The server ends anywhere and systemd starts it again.  It loses the message
\* in its hands, its copy of the buffer and its connections; the shared buffer,
\* with what it holds, and the listening sockets stay.
Crash ==
  /\ crashes < MaxCrashes
  /\ crashes' = crashes + 1
  /\ safe' = fb
  /\ phase' = "start"
  /\ cursor' = 1
  /\ tcpClients' = <<>> /\ polled' = <<>>
  /\ acceptable' = FALSE
  /\ conn' = [v \in Viewer |-> IF conn[v] = "open" THEN "closed" ELSE conn[v]]
  /\ UNCHANGED <<fb, last, callers, control, backup, handling, panel, gone,
                 inbox, outbox, seen, asked>>

------------------------------------------------------------------------------
(* The viewers *)

Connect(v) ==
  /\ conn[v] = "away"
  /\ conn' = [conn EXCEPT ![v] = "backlog"]
  /\ UNCHANGED <<screen, callers, control, loop, panel, gone, inbox, outbox,
                 seen, asked, crashes>>

SendMessage(v, m) ==
  /\ conn[v] \in {"backlog", "open"} /\ v \notin gone
  /\ Len(inbox[v]) < MaxInbox
  /\ inbox' = [inbox EXCEPT ![v] = Append(@, m)]
  /\ asked' = IF m = "GetUpdate" THEN asked \cup {v} ELSE asked
  /\ UNCHANGED <<screen, callers, control, loop, panel, conn, gone, outbox,
                 seen, crashes>>

ReadFrame(v) ==
  /\ v \notin gone
  /\ outbox[v] # <<>>
  /\ seen' = [seen EXCEPT ![v] = Head(outbox[v])]
  /\ outbox' = [outbox EXCEPT ![v] = Tail(@)]
  /\ UNCHANGED <<screen, callers, control, loop, panel, conn, gone, inbox,
                 asked, crashes>>

Leave(v) ==
  /\ conn[v] # "away" /\ v \notin gone
  /\ gone' = gone \cup {v}
  /\ outbox' = [outbox EXCEPT ![v] = <<>>]
  /\ UNCHANGED <<screen, callers, control, loop, panel, conn, inbox, seen,
                 asked, crashes>>

------------------------------------------------------------------------------
Server ==
  \/ Backup \/ InitThreads \/ Restore
  \/ Poll \/ InitCheck \/ TakeUpdate \/ DoUpdate \/ Stream \/ Answer
  \/ Accept \/ SkipClient \/ Erase
  \/ \E v \in Viewer : ReadMessage(v) \/ ReadEof(v)

Next ==
  \/ Server
  \/ Crash
  \/ \E t \in Thread :
       \/ Open(t) \/ Draw(t) \/ Receive(t) \/ Exit(t)
       \/ \E kind \in Kind \ {"check"} : SendUpdate(t, kind)
  \/ \E v \in Viewer :
       \/ Connect(v) \/ ReadFrame(v) \/ Leave(v)
       \/ \E m \in {"GetUpdate", "Input"} : SendMessage(v, m)

Spec == Init /\ [][Next]_vars

\* The loop runs on, answers are taken, and viewers read what they are sent.
FairSpec ==
  /\ Spec
  /\ WF_vars(Server)
  /\ \A t \in Thread : WF_vars(Receive(t))
  /\ \A v \in Viewer : WF_vars(ReadFrame(v))
------------------------------------------------------------------------------
(* Properties *)

\* The server's, the threads' and the viewers' state and what is in the sockets stays in its types.
TypeOK ==
  /\ fb \in 0 .. MaxDraws /\ last \in 0 .. MaxDraws /\ safe \in 0 .. MaxDraws
  /\ panel \in 0 .. MaxDraws
  /\ pc \in [Thread -> {"closed", "idle", "waiting", "ended"}]
  /\ want \in [Thread -> 0 .. MaxDraws]
  /\ performed \subseteq Thread
  /\ queue \in Seq(Message)
  /\ replies \in [Thread -> Nat]
  /\ phase \in Phases
  /\ backup \in 0 .. MaxDraws
  /\ handling \in Message
  /\ cursor \in Nat \ {0}
  /\ tcpClients \in Seq(Viewer) /\ polled \in Seq(BOOLEAN)
  /\ acceptable \in BOOLEAN
  /\ conn \in [Viewer -> {"away", "backlog", "open", "closed"}]
  /\ gone \subseteq Viewer /\ asked \subseteq Viewer
  /\ inbox \in [Viewer -> Seq({"GetUpdate", "Input"})]
  /\ outbox \in [Viewer -> Seq(0 .. MaxDraws)]
  /\ seen \in [Viewer -> 0 .. MaxDraws]
  /\ crashes \in 0 .. MaxCrashes

(* When the loop comes to the connection that stands behind the poll result  *)
(* at the same index, there is something to read: the server does not block  *)
(* on one viewer, although connections are accepted and closed between poll  *)
(* and the reads of the round (Server.cpp:362-379).                          *)
ReadNeverBlocks ==
  phase = "read" /\ cursor <= Len(polled) =>
    \/ ~ polled[cursor]
    \/ conn[tcpClients[cursor]] = "closed"
    \/ Readable(tcpClients[cursor])

(* A loop that has come to accept because poll said so finds a connection.   *)
AcceptNeverBlocks ==
  phase \in {"control", "update", "stream", "accept"} /\ acceptable =>
    \E v \in Viewer : conn[v] = "backlog"

(* The loop waits for no connection, neither to read nor to accept.          *)
NeverBlocks == ReadNeverBlocks /\ AcceptNeverBlocks

CallsOf(s) == {t \in Thread : SocketOf[t] = s /\ pc[t] = "waiting"}
QueuedOf(s) ==
  {i \in DOMAIN queue : SocketOf[queue[i].from] = s /\ pc[queue[i].from] # "ended"}
HandledOf(s) ==
  {t \in {handling.from} :
     phase \in {"update", "stream"} /\ SocketOf[t] = s /\ pc[t] # "ended"}

(* No answer is given twice or to nobody: the calls of a process that wait   *)
(* are as many as its messages in the queue and at the server and the        *)
(* answers in its socket; a crash can only leave a call without an answer    *)
(* (sendUpdate, Client.cpp:63-73, has nothing that tells answers apart).     *)
AnswersMatchCalls ==
  \A s \in Thread :
    LET answers == Cardinality(QueuedOf(s)) + Cardinality(HandledOf(s)) + replies[s]
    IN /\ answers <= Cardinality(CallsOf(s))
       /\ crashes = 0 => answers = Cardinality(CallsOf(s))

(* A start of the server loses no drawing that was in the buffer when it     *)
(* began, and a crash none that was there when it came: the controller's     *)
(* threads white the buffer, and the server copies it before and back after  *)
(* (Server.cpp:283-288).  Only what a program draws between the two copies   *)
(* of a restart is overwritten; at the first start nobody draws there, for   *)
(* no program has its answer yet.                                            *)
DrawingKept ==
  phase # "restore" =>
    /\ fb >= safe
    /\ crashes = 0 => fb = last

Call ==
  [t \in Thread |->
     CASE pc[t] = "waiting" -> IF t \in performed THEN "done" ELSE "pending"
       [] pc[t] = "ended"   -> "ended"
       [] OTHER             -> "idle"]

(* sendUpdate returns only after the server has carried out that call, and   *)
(* the panel then shows what the thread had drawn before it (Client.cpp:     *)
(* 63-73 against Server.cpp:319-344).                                        *)
D == INSTANCE Display WITH shown <- panel, call <- Call
UpdateIsShown == D!Spec

(* Every call returns, whatever viewers come, leave or are slow.             *)
CallsReturn ==
  \A t \in Thread : pc[t] = "waiting" ~> pc[t] # "waiting"

(* A viewer that has asked for the screen sees every later drawing that      *)
(* reaches the panel, or one after it, unless it leaves or the server does.  *)
ViewersFollow ==
  \A v \in Viewer : \A n \in 1 .. MaxDraws :
    v \in asked /\ panel = n ~> seen[v] >= n \/ v \in gone \/ conn[v] = "closed"

(* Neither a program nor a viewer is kept waiting by what the others do.     *)
EveryoneServed == CallsReturn /\ ViewersFollow
==============================================================================
