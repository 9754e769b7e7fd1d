------------------------------ MODULE MCRm2fb --------------------------------
(* Values for SocketOf: a process for each thread, or one for all threads.   *)
EXTENDS Rm2fb, TLC

OwnSocket == [t \in Thread |-> t]
OneSocket == [t \in Thread |-> CHOOSE s \in Thread : TRUE]

\* Viewers may be exchanged.  So may threads that share a socket: two states that are each other's
\* permutation have no answer in the socket, and it does not matter after whom the socket is named.
Exchanged == Permutations(Viewer) \cup Permutations(Thread)

\* What the steps and the properties of Rm2fbViewers depend on.  Left out are the panel and what is
\* recorded for other properties (want, performed, seen, asked), which no guard and none of the
\* values below is computed from, what is in the frames on their way, of which only the number
\* matters, and the copy of the buffer and the message in hand when they are no longer used.
Relevant ==
  <<screen, pc, control, phase,
    IF phase \in {"init", "restore"} THEN backup ELSE 0,
    IF phase \in {"update", "stream"} THEN <<handling.from>> ELSE <<>>,
    cursor, tcpClients, polled, acceptable, conn, gone, inbox,
    [v \in Viewer |-> Len(outbox[v])], crashes>>
==============================================================================
