--------------------------- MODULE SocketManager ---------------------------
(***************************************************************************)
(* The select loop of socket_manager.c: descriptor sets, queues of blocked *)
(* sends, and the back-pressure that stops reading from a socket whose     *)
(* data could not be passed on.                                            *)
(*                                                                         *)
(* Everything runs in one thread, but the loop calls its client back       *)
(* (on_recv, on_close) and the client calls sm_send, sm_add_fd and         *)
(* sm_remove_fd from there, so removals nest: closing is the stack of      *)
(* sm_remove_fd calls whose on_close has not returned yet.  The client is  *)
(* any client that keeps the rules iwdp keeps: it does not send to or      *)
(* remove a socket that is being removed, opens sockets only from on_recv, *)
(* and does neither once the socket whose input it handles is gone.        *)
(*                                                                         *)
(* The bytes of a connection are numbered in the order they are passed to  *)
(* sm_send; the connections that use a descriptor one after the other are  *)
(* told apart by a generation number, which the program does not have.     *)
(* The kernel is nondeterministic: any socket may be ready or broken, any  *)
(* send may take fewer bytes than it was given.  (SSL_write and SSL_read   *)
(* behave like send and recv.)                                             *)
(***************************************************************************)
EXTENDS Integers, Sequences, SequencesExt

CONSTANTS
  Fd,        \* the descriptors the kernel can give out, numbers > 0
  Servers,   \* those that are open and listen at the start
  Peers,     \* those that are connected at the start
  MaxBytes,  \* bound on the bytes sent on one connection
  MaxGen     \* bound on the connections that use one descriptor in turn

ASSUME SocketAssumption ==
  /\ Fd \subseteq Nat \ {0} /\ Servers \cup Peers \subseteq Fd
  /\ Servers \cap Peers = {}
  /\ MaxBytes \in Nat /\ MaxGen \in Nat \ {0}

VARIABLES
  allFds, serverFds, sendFds, recvFds,   \* the descriptor sets of sm_private
  tmpSend, tmpRecv, tmpFail,             \* what is left of the last select
  sendq,      \* fd_to_sendq: the blocked sends of a descriptor
  currRecv,   \* curr_recv_fd, 0 outside sm_recv
  mode,       \* where the loop is
  cur,        \* the descriptor that sm_select has come to
  closing,    \* the sm_remove_fd calls in progress, outermost first
  gen,        \* which connection of the descriptor this is
  accepted,   \* bytes passed to sm_send on this connection
  wire        \* bytes the kernel took on this connection

setVars == <<allFds, serverFds, sendFds, recvFds>>
tmpVars == <<tmpSend, tmpRecv, tmpFail>>
loopVars == <<currRecv, mode, cur>>
streamVars == <<gen, accepted, wire>>
vars == <<setVars, tmpVars, sendq, loopVars, closing, streamVars>>

Blocked == [recvFd: Fd \cup {0}, gen: 1..MaxGen, from: 1..MaxBytes, to: 1..MaxBytes]

(* The descriptors named as the cause of some blocked send. *)
Causes(q) == (UNION {{q[fd][i].recvFd : i \in DOMAIN q[fd]} : fd \in Fd}) \ {0}

Init ==
  /\ allFds = Servers \cup Peers
  /\ serverFds = Servers
  /\ sendFds = {}
  /\ recvFds = allFds
  /\ tmpSend = {} /\ tmpRecv = {} /\ tmpFail = {}
  /\ sendq = [fd \in Fd |-> <<>>]
  /\ currRecv = 0 /\ mode = "select" /\ cur = 0
  /\ closing = <<>>
  /\ gen = [fd \in Fd |-> IF fd \in allFds THEN 1 ELSE 0]
  /\ accepted = [fd \in Fd |-> 0]
  /\ wire = [fd \in Fd |-> <<>>]

-----------------------------------------------------------------------------
(* What the client may call: sm_remove_fd, sm_add_fd, sm_send. *)

(* Faulty: closes a descriptor that is not in use any more. *)
BeginRemoveAlways(fd) == closing' = Append(closing, fd)

(* sm_remove_fd up to its call of on_close; a descriptor that is not in use is
   left alone. *)
BeginRemove(fd) ==
  closing' = IF fd \in allFds THEN Append(closing, fd) ELSE closing

(* Faulty: leaves what the last select said of the descriptor. *)
DropFdNow(fd) ==
  /\ allFds' = allFds \ {fd} /\ serverFds' = serverFds \ {fd}
  /\ sendFds' = sendFds \ {fd} /\ recvFds' = recvFds \ {fd}
  /\ UNCHANGED tmpVars

DropFd(fd) ==
  /\ allFds' = allFds \ {fd} /\ serverFds' = serverFds \ {fd}
  /\ sendFds' = sendFds \ {fd} /\ recvFds' = recvFds \ {fd}
  /\ tmpSend' = tmpSend \ {fd}
  /\ tmpRecv' = tmpRecv \ {fd}
  /\ tmpFail' = tmpFail \ {fd}

(* Faulty: the cause of a blocked send stays when its descriptor is closed. *)
ForgetCauseNever(fd) == UNCHANGED sendq

ForgetCause(fd) ==
  sendq' = [f \in Fd |-> [i \in DOMAIN sendq[f] |->
              IF sendq[f][i].recvFd = fd
              THEN [sendq[f][i] EXCEPT !.recvFd = 0] ELSE sendq[f][i]]]

(* sm_remove_fd after on_close.  The queue of the descriptor is not dropped. *)
EndRemove ==
  /\ closing # <<>>
  /\ closing' = Front(closing)
  /\ DropFd(Last(closing))
  /\ ForgetCause(Last(closing))
  /\ UNCHANGED <<loopVars, streamVars>>

(* sm_add_fd for a descriptor the kernel has just given out. *)
AddFd(fd, server) ==
  /\ fd \notin allFds
  /\ gen[fd] < MaxGen
  /\ allFds' = allFds \cup {fd}
  /\ serverFds' = IF server THEN serverFds \cup {fd} ELSE serverFds
  /\ sendFds' = sendFds \ {fd}
  /\ recvFds' = recvFds \cup {fd}
  /\ tmpSend' = tmpSend \ {fd}
  /\ tmpRecv' = tmpRecv \ {fd}
  /\ tmpFail' = tmpFail \ {fd}
  /\ gen' = [gen EXCEPT ![fd] = @ + 1]
  /\ accepted' = [accepted EXCEPT ![fd] = 0]
  /\ wire' = [wire EXCEPT ![fd] = <<>>]

(* Faulty: sends now although earlier bytes are queued. *)
TakenOvertaking(fd, n) == 0..n

(* How many of n bytes the kernel may take now: none when earlier ones wait. *)
Taken(fd, n) == IF sendq[fd] # <<>> THEN {0} ELSE 0..n

(* Faulty: the socket may still be read in this pass of the loop. *)
DisableNextTime(fds) == recvFds' = recvFds \ fds /\ UNCHANGED tmpRecv

Disable(fds) == recvFds' = recvFds \ fds /\ tmpRecv' = tmpRecv \ fds

(* Faulty: marks the socket although its queue was there before. *)
MarkBlockedAlways(fd) == sendFds' = sendFds \cup {fd}

(* Only the first blocked send of a queue marks the socket. *)
MarkBlocked(fd) == sendFds' = IF sendq[fd] = <<>> THEN sendFds \cup {fd} ELSE sendFds

(* sm_send of n bytes, of which the kernel takes some: the others are queued,
   and the descriptor whose input caused the send is no longer read.  (A send
   that fails midway is a send of the bytes that were taken.) *)
Send(fd, n, taken) ==
  LET to == accepted[fd] + n
      item == [recvFd |-> currRecv, gen |-> gen[fd],
               from |-> accepted[fd] + taken + 1, to |-> to]
  IN  /\ to <= MaxBytes
      /\ accepted' = [accepted EXCEPT ![fd] = to]
      /\ wire' = [wire EXCEPT ![fd] = @ \o [k \in 1..taken |-> accepted[fd] + k]]
      /\ \/ taken = n /\ UNCHANGED <<sendq, sendFds, recvFds, tmpRecv>>
         \/ /\ taken < n
            /\ sendq' = [sendq EXCEPT ![fd] = Append(@, item)]
            /\ MarkBlocked(fd)
            /\ Disable({currRecv} \cap recvFds)
      /\ UNCHANGED <<allFds, serverFds, tmpSend, tmpFail, loopVars, closing, gen>>

InClient == mode = "callback" \/ closing # <<>>

InputAlive == currRecv \in allFds \cup {0}

ClientSend(fd, n) ==
  /\ InClient /\ InputAlive
  /\ fd \in allFds \ (serverFds \cup ToSet(closing))
  /\ \E taken \in Taken(fd, n) : Send(fd, n, taken)

ClientRemove(fd) ==
  /\ InClient
  /\ fd \in allFds \ ToSet(closing)
  /\ BeginRemove(fd)
  /\ UNCHANGED <<setVars, tmpVars, sendq, loopVars, streamVars>>

ClientAdd(fd, server) ==
  /\ mode = "callback" /\ closing = <<>> /\ InputAlive
  /\ AddFd(fd, server)
  /\ UNCHANGED <<sendq, loopVars, closing>>

-----------------------------------------------------------------------------
(* sm_select *)

Select ==
  /\ mode = "select"
  /\ tmpRecv' \in SUBSET recvFds
  /\ tmpSend' \in SUBSET sendFds
  /\ tmpFail' \in SUBSET allFds
  /\ tmpRecv' \cup tmpSend' \cup tmpFail' # {}
  /\ mode' = "scan"
  /\ cur' = 0
  /\ UNCHANGED <<setVars, sendq, currRecv, closing, streamVars>>

Pending == {fd \in tmpRecv \cup tmpSend \cup tmpFail : fd > cur}

(* The loop of sm_select comes to the next descriptor that is ready, and does
   not look again at what select said of those before it. *)
Advance ==
  /\ mode = "scan" /\ closing = <<>>
  /\ cur' \in {fd \in Pending : \A f \in Pending : fd <= f}
  /\ tmpRecv' = {fd \in tmpRecv : fd >= cur'}
  /\ tmpSend' = {fd \in tmpSend : fd >= cur'}
  /\ tmpFail' = {fd \in tmpFail : fd >= cur'}
  /\ UNCHANGED <<setVars, sendq, currRecv, streamVars>>

ScanEnds ==
  /\ mode = "scan" /\ closing = <<>> /\ Pending = {}
  /\ mode' = "select"
  /\ cur' = 0
  /\ tmpSend' = {} /\ tmpRecv' = {} /\ tmpFail' = {}
  /\ UNCHANGED <<setVars, sendq, currRecv, closing, streamVars>>

FailNext ==
  /\ Advance
  /\ cur' \in tmpFail
  /\ BeginRemove(cur')
  /\ UNCHANGED mode

ServerNext ==
  /\ Advance
  /\ cur' \in serverFds \ tmpFail
  /\ mode' = "accept"
  /\ UNCHANGED closing

SocketNext ==
  /\ Advance
  /\ cur' \notin serverFds \cup tmpFail
  /\ mode' = IF cur' \in tmpSend THEN "resend" ELSE "recv"
  /\ UNCHANGED closing

(* Faulty: the blocked send that is done is counted among the others. *)
ResumeLate(fd, q) == {fd} \cap (allFds \ Causes(sendq))

(* The descriptor that caused a send which is done is read again, if no blocked
   send of the queues q names it. *)
Resume(fd, q) == {fd} \cap (allFds \ Causes(q))

(* Faulty: one blocked send was served, others of the descriptor may wait. *)
UnblockAlways(fd, q) == sendFds' = sendFds \ {fd}

Unblock(fd, q) == sendFds' = IF q = <<>> THEN sendFds \ {fd} ELSE sendFds

(* One round of sm_resend: the kernel takes some of the oldest blocked send.  A
   send that is not done ends sm_resend, and so does an empty queue.  Then the
   descriptor is read if select said so. *)
ResendOne(taken) ==
  LET q == sendq[cur]
      item == Head(q)
      n == item.to - item.from + 1
      byte(k) == IF item.gen = gen[cur] THEN item.from + k - 1 ELSE 0
      rest == IF taken = n THEN Tail(q) ELSE [q EXCEPT ![1].from = @ + taken]
  IN  /\ mode = "resend" /\ q # <<>> /\ taken <= n
      /\ wire' = [wire EXCEPT ![cur] = @ \o [k \in 1..taken |-> byte(k)]]
      /\ sendq' = [sendq EXCEPT ![cur] = rest]
      /\ Unblock(cur, rest)
      /\ recvFds' = IF taken = n THEN recvFds \cup Resume(item.recvFd, sendq') ELSE recvFds
      /\ mode' = IF taken = n /\ rest # <<>> THEN "resend"
                 ELSE IF cur \in tmpRecv THEN "recv" ELSE "scan"
      /\ UNCHANGED <<allFds, serverFds, tmpVars, currRecv, cur, closing, gen, accepted>>

(* The socket is broken, and removed.  sm_recv is called all the same. *)
ResendFails ==
  /\ mode = "resend" /\ sendq[cur] # <<>>
  /\ mode' = IF cur \in tmpRecv THEN "recv" ELSE "scan"
  /\ BeginRemove(cur)
  /\ UNCHANGED <<setVars, tmpVars, sendq, currRecv, cur, streamVars>>

-----------------------------------------------------------------------------
(* sm_recv reads a socket until nothing is left, even when a send of the
   callback has disabled it. *)

Receiving == mode = "recv" /\ closing = <<>>

RecvChunk ==
  /\ Receiving /\ cur \in allFds
  /\ mode' = "callback"
  /\ currRecv' = cur
  /\ UNCHANGED <<setVars, tmpVars, sendq, cur, closing, streamVars>>

(* on_recv returns; if it failed, the socket is removed while curr_recv_fd
   still names it. *)
CallbackReturns ==
  /\ mode = "callback" /\ closing = <<>>
  /\ \/ mode' = "recv" /\ UNCHANGED closing
     \/ mode' = "received" /\ BeginRemove(cur)
  /\ UNCHANGED <<setVars, tmpVars, sendq, currRecv, cur, streamVars>>

(* The peer is gone, or reading fails. *)
RecvFails ==
  /\ Receiving
  /\ mode' = "received"
  /\ currRecv' = cur
  /\ BeginRemove(cur)
  /\ UNCHANGED <<setVars, tmpVars, sendq, cur, streamVars>>

RecvEnds ==
  /\ \/ Receiving /\ cur \in allFds
     \/ mode = "received" /\ closing = <<>>
  /\ mode' = "scan"
  /\ currRecv' = 0
  /\ UNCHANGED <<setVars, tmpVars, sendq, cur, closing, streamVars>>

-----------------------------------------------------------------------------
(* sm_accept takes every waiting connection; an error removes the server. *)

AcceptOne(fd) ==
  /\ mode = "accept"
  /\ AddFd(fd, FALSE)
  /\ UNCHANGED <<sendq, loopVars, closing>>

AcceptEnds ==
  /\ mode = "accept"
  /\ mode' = "scan"
  /\ BeginRemove(cur) \/ UNCHANGED closing
  /\ UNCHANGED <<setVars, tmpVars, sendq, currRecv, cur, streamVars>>

-----------------------------------------------------------------------------
(* sm_cleanup, once a signal has ended the loop of main. *)

Quit ==
  /\ mode = "select"
  /\ mode' = "cleanup"
  /\ UNCHANGED <<setVars, tmpVars, sendq, currRecv, cur, closing, streamVars>>

(* Faulty: does not come to the highest descriptor. *)
CleanupNextButLast ==
  /\ mode = "cleanup" /\ closing = <<>>
  /\ \E fd \in allFds :
       (\A f \in allFds : fd <= f) /\ (\E f \in allFds : fd < f) /\ BeginRemove(fd)
  /\ UNCHANGED <<setVars, tmpVars, sendq, loopVars, streamVars>>

CleanupNext ==
  /\ mode = "cleanup" /\ closing = <<>>
  /\ \E fd \in allFds : (\A f \in allFds : fd <= f) /\ BeginRemove(fd)
  /\ UNCHANGED <<setVars, tmpVars, sendq, loopVars, streamVars>>

Client ==
  \E fd \in Fd :
    \/ \E n \in 1..MaxBytes : ClientSend(fd, n)
    \/ ClientRemove(fd)
    \/ \E server \in BOOLEAN : ClientAdd(fd, server)

Loop ==
  \/ Select \/ ScanEnds \/ FailNext \/ ServerNext \/ SocketNext
  \/ ResendFails \/ \E taken \in 0..MaxBytes : ResendOne(taken)
  \/ RecvChunk \/ CallbackReturns \/ RecvFails \/ RecvEnds
  \/ AcceptEnds \/ \E fd \in Fd : AcceptOne(fd)
  \/ CleanupNext
  \/ EndRemove

Next == Client \/ Loop \/ Quit

Spec == Init /\ [][Next]_vars

(* The kernel takes bytes of the peer of fd when asked to often enough. *)
PeerReads(fd) ==
  /\ SF_vars(Select /\ fd \in tmpSend')
  /\ SF_vars(cur = fd /\ \E taken \in 1..MaxBytes : ResendOne(taken))

(* The thread runs: the loop goes on and its callbacks return.  The peers read
   what they are sent, and none sends so fast for ever that sm_recv never finds
   its socket empty. *)
FairSpec ==
  /\ Spec
  /\ WF_vars(Loop)
  /\ WF_vars(EndRemove)
  /\ \A fd \in Fd : PeerReads(fd)
  /\ []<>(mode \notin {"recv", "callback"})

-----------------------------------------------------------------------------
(* Every variable has its type. *)
TypeOK ==
  /\ allFds \subseteq Fd /\ serverFds \subseteq allFds
  /\ sendFds \subseteq allFds /\ recvFds \subseteq allFds
  /\ tmpSend \subseteq allFds /\ tmpRecv \subseteq allFds /\ tmpFail \subseteq allFds
  /\ sendq \in [Fd -> Seq(Blocked)]
  /\ currRecv \in Fd \cup {0} /\ cur \in Fd \cup {0}
  /\ mode \in {"select", "scan", "resend", "recv", "callback", "received", "accept",
               "cleanup"}
  /\ closing \in Seq(Fd)
  /\ gen \in [Fd -> 0..MaxGen]
  /\ accepted \in [Fd -> 0..MaxBytes]
  /\ wire \in [Fd -> Seq(0..MaxBytes)]

(* "recv_fds: can recv, same as all_fds - sendq.recv_fd's": a socket is read
   exactly when none of the blocked sends it caused is still queued, through
   every nesting of removals, reuse of its descriptor and completed sends. *)
RecvFdsExact == recvFds = allFds \ Causes(sendq)

(* What sm_select still has to do concerns the sockets it looked at, however
   many were disabled, closed or opened since: it reads no socket that blocked
   sends have disabled, and resumes none that has nothing queued or that only
   got the descriptor of a closed one. *)
ReadinessIsCurrent ==
  /\ tmpRecv \subseteq recvFds
  /\ tmpSend \cap Pending \subseteq sendFds
  /\ sendFds \subseteq {fd \in allFds : sendq[fd] # <<>>}

(* The removals in progress are of different sockets that are all still open:
   whatever the client closes from its callbacks, the loop does not call
   on_close for it again, or close a descriptor that is not its own. *)
RemovedOnce == IsInjective(closing) /\ ToSet(closing) \subseteq allFds

(* Each connection is a reliable stream: no byte is lost, repeated, reordered
   or left over from the connection that used the descriptor before. *)
Stream == INSTANCE ByteStream WITH Socket <- Fd, open <- allFds

StreamsReliable == Stream!Spec

(* The queue of fd has a blocked send of a socket that has been removed. *)
LeftOver(fd) ==
  \E k \in DOMAIN sendq[fd] : fd \notin allFds \/ sendq[fd][k].gen # gen[fd]

(* A byte the client has sent reaches the kernel, unless the socket is closed
   first, or its descriptor has the queue of a socket that has been removed. *)
EverythingSent ==
  \A fd \in Fd :
    fd \in allFds /\ Len(wire[fd]) < accepted[fd]
      ~> fd \notin allFds \/ Len(wire[fd]) = accepted[fd] \/ LeftOver(fd)

(* A socket that is not read because of blocked sends is read again, unless it
   is closed, or one of these sends is in the queue of a removed socket. *)
InputResumes ==
  \A fd \in Fd :
    fd \in allFds \ recvFds
      ~> \/ fd \in recvFds \/ fd \notin allFds
         \/ \E f \in Fd : LeftOver(f) /\ \E i \in DOMAIN sendq[f] : sendq[f][i].recvFd = fd

(* Once the program has been asked to stop, every socket is closed. *)
CleanupEnds == mode = "cleanup" ~> allFds = {}

-----------------------------------------------------------------------------
(* "send_fds: blocked sends, same as fd_to_sendq.keys". *)
SendFdsAreQueued == sendFds = {fd \in Fd : sendq[fd] # <<>>}
=============================================================================
