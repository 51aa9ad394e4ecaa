---------------------------- MODULE SocketProofs ----------------------------
(***************************************************************************)
(* The safety of the select loop for any descriptors, any number of        *)
(* connections on each and any bytes: the types, the descriptor sets that  *)
(* follow the blocked sends, the readiness that follows the descriptor     *)
(* sets, and the removals in progress.  On top of that the socket manager  *)
(* implements ByteStream: what the kernel is given for a connection is     *)
(* what its client sent, from the start and in order, whatever was queued, *)
(* and whatever the connection before left in the queue of its descriptor. *)
(***************************************************************************)
EXTENDS SocketManager, SequenceTheorems, TLAPS

(* What else is true of every state: when the loop is outside its callbacks no
   removal is in progress, blocked sends that are being resent belong to a
   marked socket, and only open sockets cause blocked sends. *)
LoopAgrees ==
  /\ mode \in {"resend", "accept", "select"} => closing = <<>>
  /\ mode = "resend" => cur \in sendFds
  /\ mode \in {"recv", "callback", "received"} => cur \in Fd
  /\ \A fd \in allFds : gen[fd] # 0
  /\ Causes(sendq) \subseteq allFds

Inv == TypeOK /\ RecvFdsExact /\ ReadinessIsCurrent /\ RemovedOnce /\ LoopAgrees

-----------------------------------------------------------------------------
(* The stack of removals. *)

(* A descriptor that is not being removed goes on top. *)
LEMMA Pushed ==
  ASSUME NEW S, NEW s \in Seq(S), IsInjective(s), NEW x \in S, x \notin ToSet(s)
  PROVE  /\ Append(s, x) \in Seq(S)
         /\ IsInjective(Append(s, x))
         /\ ToSet(Append(s, x)) = ToSet(s) \cup {x}
         /\ Append(s, x) # <<>>
<1> DEFINE t == Append(s, x)
           n == Len(s)
<1>1. n \in Nat /\ DOMAIN s = 1..n
  BY LenProperties
<1>2. t \in Seq(S) /\ Len(t) = n + 1 /\ DOMAIN t = 1..(n + 1)
  BY AppendProperties, LenProperties
<1>3. \A i \in 1..(n + 1) : t[i] = IF i = n + 1 THEN x ELSE s[i]
  BY <1>1, AppendProperties
<1>4. \A i \in 1..n : s[i] # x
  BY <1>1 DEF ToSet
<1>5. \A i \in 1..n : \A j \in 1..n : s[i] = s[j] => i = j
  BY <1>1 DEF IsInjective
<1> HIDE DEF t, n
<1>6. \A i \in 1..(n + 1) : i = n + 1 \/ i \in 1..n
  BY <1>1
<1>7. \A i \in 1..(n + 1) : \A j \in 1..(n + 1) : t[i] = t[j] => i = j
  BY <1>3, <1>4, <1>5, <1>6
<1>8. IsInjective(t)
  BY <1>2, <1>7 DEF IsInjective
<1>9. ToSet(t) = ToSet(s) \cup {x}
  <2>1. \A i \in 1..n : i \in 1..(n + 1) /\ i # n + 1
    BY <1>1
  <2>2. n + 1 \in 1..(n + 1)
    BY <1>1
  <2>3. ToSet(t) = {t[i] : i \in 1..(n + 1)} /\ ToSet(s) = {s[i] : i \in 1..n}
    BY <1>1, <1>2 DEF ToSet
  <2> QED
    BY <1>3, <1>6, <2>1, <2>2, <2>3
<1>10. t # <<>>
  BY <1>1, <1>2, EmptySeq
<1> QED
  BY <1>2, <1>8, <1>9, <1>10 DEF t

(* The topmost goes. *)
LEMMA Popped ==
  ASSUME NEW S, NEW s \in Seq(S), IsInjective(s), s # <<>>
  PROVE  /\ Front(s) \in Seq(S)
         /\ IsInjective(Front(s))
         /\ ToSet(Front(s)) = ToSet(s) \ {Last(s)}
         /\ Last(s) \in ToSet(s) /\ Last(s) \in S
<1> DEFINE t == Front(s)
           n == Len(s)
<1>1. n \in Nat \ {0} /\ DOMAIN s = 1..n
  BY LenProperties, EmptySeq
<1>2. /\ t \in Seq(S) /\ Len(t) = n - 1 /\ DOMAIN t = 1..(n - 1)
      /\ \A i \in 1..(n - 1) : t[i] = s[i]
  <2>1. t = SubSeq(s, 1, n - 1)
    BY DEF Front
  <2>2. 1 \in 1..(n + 1) /\ n - 1 \in 0..n
    BY <1>1
  <2>3. t \in Seq(S) /\ Len(t) = n - 1
    BY <1>1, <2>1, <2>2, SubSeqProperties
  <2>4. \A i \in 1..(n - 1) : t[i] = s[i]
    BY <1>1, <2>1, <2>2, SubSeqProperties
  <2> QED
    BY <2>3, <2>4, LenProperties
<1>3. Last(s) = s[n] /\ n \in 1..n
  BY <1>1 DEF Last
<1>4. s[n] \in S
  BY <1>1, <1>3, ElementOfSeq
<1>5. \A i \in 1..n : \A j \in 1..n : s[i] = s[j] => i = j
  BY <1>1 DEF IsInjective
<1> HIDE DEF t, n
<1>6. \A i \in 1..(n - 1) : i \in 1..n /\ i # n
  BY <1>1
<1>7. \A i \in 1..n : i = n \/ i \in 1..(n - 1)
  BY <1>1
<1>8. IsInjective(t)
  BY <1>2, <1>5, <1>6 DEF IsInjective
<1>9. ToSet(t) = ToSet(s) \ {s[n]}
  <2>1. ToSet(t) = {t[i] : i \in 1..(n - 1)} /\ ToSet(s) = {s[i] : i \in 1..n}
    BY <1>1, <1>2 DEF ToSet
  <2> QED
    BY <1>2, <1>3, <1>5, <1>6, <1>7, <2>1
<1>10. s[n] \in ToSet(s)
  BY <1>1, <1>3 DEF ToSet
<1> QED
  BY <1>2, <1>3, <1>4, <1>8, <1>9, <1>10 DEF t
-----------------------------------------------------------------------------
(* The causes of blocked sends. *)

Queues == [Fd -> Seq(Blocked)]

(* A cause is named by some blocked send. *)
LEMMA CauseIsNamed ==
  ASSUME NEW q, NEW c
  PROVE  c \in Causes(q) <=> c # 0 /\ \E fd \in Fd : \E i \in DOMAIN q[fd] : q[fd][i].recvFd = c
  BY DEF Causes

(* A blocked send adds its cause. *)
LEMMA CausesOfAppend ==
  ASSUME NEW q \in Queues, NEW fd \in Fd, NEW item \in Blocked
  PROVE  Causes([q EXCEPT ![fd] = Append(@, item)]) = Causes(q) \cup ({item.recvFd} \ {0})
<1> DEFINE r == [q EXCEPT ![fd] = Append(@, item)]
           n == Len(q[fd])
<1>1. q[fd] \in Seq(Blocked)
  BY DEF Queues
<1>2. n \in Nat /\ DOMAIN q[fd] = 1..n
  BY <1>1, LenProperties
<1>3. r[fd] = Append(q[fd], item) /\ \A f \in Fd \ {fd} : r[f] = q[f]
  BY DEF Queues
<1>4. /\ DOMAIN r[fd] = 1..(n + 1)
      /\ \A i \in 1..n : r[fd][i] = q[fd][i]
      /\ r[fd][n + 1] = item
  BY <1>1, <1>3, AppendProperties, LenProperties
<1> HIDE DEF r, n
<1>5. \A i \in 1..(n + 1) : i = n + 1 \/ i \in 1..n
  BY <1>2
<1>6. n + 1 \in 1..(n + 1) /\ \A i \in 1..n : i \in 1..(n + 1)
  BY <1>2
<1>7. ASSUME NEW c
      PROVE  (\E f \in Fd : \E i \in DOMAIN r[f] : r[f][i].recvFd = c)
               <=> \/ \E f \in Fd : \E i \in DOMAIN q[f] : q[f][i].recvFd = c
                   \/ item.recvFd = c
  BY <1>2, <1>3, <1>4, <1>5, <1>6
<1>8. \A c : c \in Causes(r) <=> c \in Causes(q) \cup ({item.recvFd} \ {0})
  BY <1>7, CauseIsNamed
<1> QED
  BY <1>8 DEF r

(* A removed descriptor is no cause any more, and nothing else changes. *)
LEMMA CausesOfForget ==
  ASSUME sendq \in Queues, NEW fd \in Fd, ForgetCause(fd)
  PROVE  /\ sendq' \in Queues
         /\ Causes(sendq') = Causes(sendq) \ {fd}
         /\ \A f \in Fd : sendq'[f] = <<>> <=> sendq[f] = <<>>
<1> DEFINE Forgotten(item) == IF item.recvFd = fd THEN [item EXCEPT !.recvFd = 0] ELSE item
<1>1. sendq' = [f \in Fd |-> [i \in DOMAIN sendq[f] |-> Forgotten(sendq[f][i])]]
  BY DEF ForgetCause
<1>2. \A item \in Blocked : Forgotten(item) \in Blocked
  BY DEF Blocked
<1>3. ASSUME NEW item \in Blocked
      PROVE  Forgotten(item).recvFd = IF item.recvFd = fd THEN 0 ELSE item.recvFd
  BY DEF Blocked
<1> HIDE DEF Forgotten
<1>4. ASSUME NEW f \in Fd
      PROVE  /\ sendq'[f] \in Seq(Blocked)
             /\ DOMAIN sendq'[f] = DOMAIN sendq[f]
             /\ \A i \in DOMAIN sendq[f] : sendq'[f][i] = Forgotten(sendq[f][i])
             /\ \A i \in DOMAIN sendq[f] : sendq[f][i] \in Blocked
             /\ sendq'[f] = <<>> <=> sendq[f] = <<>>
  <2> DEFINE n == Len(sendq[f])
  <2>1. sendq[f] \in Seq(Blocked)
    BY DEF Queues
  <2>2. n \in Nat /\ DOMAIN sendq[f] = 1..n /\ \A i \in 1..n : sendq[f][i] \in Blocked
    BY <2>1, LenProperties, ElementOfSeq
  <2>3. sendq'[f] = [i \in 1..n |-> Forgotten(sendq[f][i])]
    BY <1>1, <2>2
  <2> HIDE DEF n
  <2>4. sendq'[f] \in [1..n -> Blocked]
    BY <1>2, <2>2, <2>3
  <2>5. sendq'[f] \in Seq(Blocked)
    BY <2>2, <2>4, SeqDef
  <2>6. DOMAIN sendq'[f] = 1..n
    BY <2>4
  <2>7. sendq'[f] = <<>> <=> n = 0
    BY <2>2, <2>5, <2>6, EmptySeq, LenProperties
  <2>8. sendq[f] = <<>> <=> n = 0
    BY <2>1, <2>2, EmptySeq, LenProperties
  <2> QED
    BY <2>2, <2>3, <2>5, <2>6, <2>7, <2>8
<1>5. sendq' \in Queues
  BY <1>1, <1>4 DEF Queues
<1>6. ASSUME NEW c, c # 0
      PROVE  (\E f \in Fd : \E i \in DOMAIN sendq'[f] : sendq'[f][i].recvFd = c)
               <=> c # fd /\ \E f \in Fd : \E i \in DOMAIN sendq[f] : sendq[f][i].recvFd = c
  BY <1>3, <1>4, <1>6, SMTT(30)
<1>7. \A c : c \in Causes(sendq') <=> c \in Causes(sendq) \ {fd}
  BY <1>6, CauseIsNamed
<1> QED
  BY <1>4, <1>5, <1>7

(* Serving the oldest blocked send of a queue keeps the causes if the send is not
   done, and takes at most its cause if it is. *)
LEMMA CausesOfServed ==
  ASSUME NEW q \in Queues, NEW fd \in Fd, q[fd] # <<>>, NEW from \in 1..MaxBytes
  PROVE  /\ Causes([q EXCEPT ![fd] = [@ EXCEPT ![1].from = from]]) = Causes(q)
         /\ Causes([q EXCEPT ![fd] = Tail(@)]) \subseteq Causes(q)
         /\ Causes(q) \subseteq Causes([q EXCEPT ![fd] = Tail(@)]) \cup {Head(q[fd]).recvFd}
<1> DEFINE n == Len(q[fd])
<1>1. q[fd] \in Seq(Blocked)
  BY DEF Queues
<1>2. n \in Nat \ {0} /\ DOMAIN q[fd] = 1..n /\ \A i \in 1..n : q[fd][i] \in Blocked
  BY <1>1, LenProperties, EmptySeq, ElementOfSeq
<1>3. Causes([q EXCEPT ![fd] = [@ EXCEPT ![1].from = from]]) = Causes(q)
  <2> DEFINE r == [q EXCEPT ![fd] = [@ EXCEPT ![1].from = from]]
  <2>1. r[fd] = [q[fd] EXCEPT ![1].from = from] /\ \A f \in Fd \ {fd} : r[f] = q[f]
    BY DEF Queues
  <2>2. DOMAIN r[fd] = 1..n /\ \A i \in 1..n : r[fd][i].recvFd = q[fd][i].recvFd
    BY <1>2, <2>1 DEF Blocked
  <2> HIDE DEF r, n
  <2>3. ASSUME NEW f \in Fd
        PROVE  DOMAIN r[f] = DOMAIN q[f] /\ \A i \in DOMAIN q[f] : r[f][i].recvFd = q[f][i].recvFd
    BY <1>2, <2>1, <2>2
  <2>4. \A c : (\E f \in Fd : \E i \in DOMAIN r[f] : r[f][i].recvFd = c)
                 <=> (\E f \in Fd : \E i \in DOMAIN q[f] : q[f][i].recvFd = c)
    BY <2>3
  <2>5. \A c : c \in Causes(r) <=> c \in Causes(q)
    BY <2>4, CauseIsNamed
  <2> QED
    BY <2>5 DEF r
<1>4. /\ Causes([q EXCEPT ![fd] = Tail(@)]) \subseteq Causes(q)
      /\ Causes(q) \subseteq Causes([q EXCEPT ![fd] = Tail(@)]) \cup {Head(q[fd]).recvFd}
  <2> DEFINE r == [q EXCEPT ![fd] = Tail(@)]
  <2>1. r[fd] = Tail(q[fd]) /\ \A f \in Fd \ {fd} : r[f] = q[f]
    BY DEF Queues
  <2>2. /\ DOMAIN r[fd] = 1..(n - 1) /\ \A i \in 1..(n - 1) : r[fd][i] = q[fd][i + 1]
        /\ Head(q[fd]) = q[fd][1]
    <3> DEFINE t == Tail(q[fd])
    <3>1. t \in Seq(Blocked) /\ Len(t) = n - 1 /\ \A i \in 1..Len(t) : t[i] = q[fd][i + 1]
      BY <1>1, <1>2, HeadTailProperties
    <3>2. DOMAIN t = 1..(n - 1)
      BY <3>1, LenProperties
    <3>3. Head(q[fd]) = q[fd][1]
      BY <1>1, <1>2
    <3> HIDE DEF t, n
    <3>4. \A i \in 1..(n - 1) : t[i] = q[fd][i + 1]
      BY <3>1
    <3> QED
      BY <2>1, <3>2, <3>3, <3>4 DEF t
  <2> HIDE DEF r, n
  <2>3. \A i \in 1..(n - 1) : i + 1 \in 1..n
    BY <1>2
  <2>4. \A i \in 1..n : i = 1 \/ (i - 1 \in 1..(n - 1) /\ (i - 1) + 1 = i)
    BY <1>2
  <2>5. ASSUME NEW c \in Causes(r)
        PROVE  c \in Causes(q)
    <3>1. PICK f \in Fd : \E i \in DOMAIN r[f] : r[f][i].recvFd = c
      BY <2>5, CauseIsNamed
    <3>2. CASE f = fd
      <4>1. PICK i \in 1..(n - 1) : r[fd][i].recvFd = c
        BY <2>2, <3>1, <3>2
      <4>2. i + 1 \in DOMAIN q[fd] /\ q[fd][i + 1].recvFd = c
        BY <1>2, <2>2, <2>3, <4>1
      <4> QED
        BY <2>5, <4>2, CauseIsNamed
    <3>3. CASE f # fd
      BY <2>1, <2>5, <3>1, <3>3, CauseIsNamed
    <3> QED
      BY <3>2, <3>3
  <2>6. ASSUME NEW c \in Causes(q), c # Head(q[fd]).recvFd
        PROVE  c \in Causes(r)
    <3>1. PICK f \in Fd : \E i \in DOMAIN q[f] : q[f][i].recvFd = c
      BY <2>6, CauseIsNamed
    <3>2. CASE f = fd
      <4>1. PICK i \in 1..n : q[fd][i].recvFd = c
        BY <1>2, <3>1, <3>2
      <4>2. i - 1 \in 1..(n - 1) /\ (i - 1) + 1 = i
        BY <2>2, <2>4, <2>6, <4>1
      <4>3. r[fd][i - 1] = q[fd][(i - 1) + 1]
        BY <2>2, <4>2
      <4>4. r[fd][i - 1] = q[fd][i]
        BY <4>2, <4>3
      <4>5. i - 1 \in DOMAIN r[fd] /\ r[fd][i - 1].recvFd = c
        BY <2>2, <4>1, <4>2, <4>4
      <4> QED
        BY <2>6, <4>5, CauseIsNamed
    <3>3. CASE f # fd
      BY <2>1, <2>6, <3>1, <3>3, CauseIsNamed
    <3> QED
      BY <3>2, <3>3
  <2> QED
    BY <2>5, <2>6 DEF r
<1> QED
  BY <1>3, <1>4
-----------------------------------------------------------------------------
(* The invariant holds initially and is preserved by every action. *)

LEMMA InitInv == Init => Inv
<1> SUFFICES ASSUME Init PROVE Inv
  OBVIOUS
<1>1. \A S : <<>> \in Seq(S)
  BY EmptySeq
<1>2. DOMAIN <<>> = {}
  BY EmptySeq, LenProperties
<1>3. Causes(sendq) = {}
  BY <1>2 DEF Init, Causes
<1>4. TypeOK
  BY <1>1, SocketAssumption DEF Init, TypeOK
<1>5. RecvFdsExact
  BY <1>3 DEF Init, RecvFdsExact
<1>6. ReadinessIsCurrent
  BY DEF Init, ReadinessIsCurrent, Pending
<1>7. RemovedOnce
  BY <1>2 DEF Init, RemovedOnce, IsInjective, ToSet
<1>8. LoopAgrees
  BY <1>3, SocketAssumption DEF Init, LoopAgrees
<1> QED
  BY <1>4, <1>5, <1>6, <1>7, <1>8 DEF Inv

(* Bytes that are given to the kernel keep the type of the wire. *)
LEMMA WireType ==
  ASSUME NEW w \in Seq(0..MaxBytes), NEW taken \in Nat, NEW b,
         b \in [1..taken -> 0..MaxBytes]
  PROVE  w \o b \in Seq(0..MaxBytes)
<1>1. b \in Seq(0..MaxBytes)
  BY SeqDef
<1> QED
  BY <1>1, ConcatProperties

LEMMA SendInv ==
  ASSUME Inv, NEW fd \in Fd, NEW n \in 1..MaxBytes, ClientSend(fd, n)
  PROVE  Inv'
<1>1. PICK taken \in Taken(fd, n) : Send(fd, n, taken)
  BY DEF ClientSend
<1> DEFINE to == accepted[fd] + n
           item == [recvFd |-> currRecv, gen |-> gen[fd],
                    from |-> accepted[fd] + taken + 1, to |-> to]
<1>2. /\ to <= MaxBytes
      /\ accepted' = [accepted EXCEPT ![fd] = to]
      /\ wire' = [wire EXCEPT ![fd] = @ \o [k \in 1..taken |-> accepted[fd] + k]]
      /\ UNCHANGED <<allFds, serverFds, tmpSend, tmpFail, currRecv, mode, cur, closing, gen>>
  BY <1>1 DEF Send, loopVars
<1>3. /\ n \in Nat /\ n >= 1 /\ taken \in 0..n /\ MaxBytes \in Nat
      /\ accepted[fd] \in Nat /\ to \in 1..MaxBytes
  BY <1>1, <1>2, SocketAssumption DEF Taken, Inv, TypeOK
<1>4. fd \in allFds /\ currRecv \in allFds \cup {0}
  BY DEF ClientSend, InputAlive
<1>5. accepted' \in [Fd -> 0..MaxBytes]
  BY <1>2, <1>3, SMTT(30) DEF Inv, TypeOK
<1>6. wire' \in [Fd -> Seq(0..MaxBytes)]
  <2>1. \A k \in 1..taken : accepted[fd] + k \in 0..MaxBytes
    BY <1>2, <1>3
  <2>2. [k \in 1..taken |-> accepted[fd] + k] \in [1..taken -> 0..MaxBytes]
    BY <2>1
  <2>3. wire[fd] \in Seq(0..MaxBytes) /\ taken \in Nat
    BY <1>3 DEF Inv, TypeOK
  <2>4. wire[fd] \o [k \in 1..taken |-> accepted[fd] + k] \in Seq(0..MaxBytes)
    BY <2>2, <2>3, WireType
  <2> QED
    BY <1>2, <2>4 DEF Inv, TypeOK
<1>7. CASE taken = n /\ UNCHANGED <<sendq, sendFds, recvFds, tmpRecv>>
  <2>1. TypeOK'
    BY <1>2, <1>5, <1>6, <1>7 DEF Inv, TypeOK
  <2>2. RecvFdsExact' /\ ReadinessIsCurrent' /\ RemovedOnce' /\ LoopAgrees'
    BY <1>2, <1>7 DEF Inv, RecvFdsExact, ReadinessIsCurrent, Pending, RemovedOnce, LoopAgrees, Causes
  <2> QED
    BY <2>1, <2>2 DEF Inv
<1>8. CASE /\ taken < n
           /\ sendq' = [sendq EXCEPT ![fd] = Append(@, item)]
           /\ MarkBlocked(fd)
           /\ Disable({currRecv} \cap recvFds)
  <2>1. gen[fd] \in 1..MaxGen
    BY <1>4, SocketAssumption DEF Inv, TypeOK, LoopAgrees
  <2>2. item \in Blocked
    <3>1. accepted[fd] + taken + 1 \in 1..MaxBytes
      BY <1>2, <1>3, <1>8
    <3> QED
      BY <1>3, <2>1, <3>1 DEF Blocked, Inv, TypeOK
  <2>3. sendq[fd] \in Seq(Blocked) /\ sendq \in Queues
    BY DEF Inv, TypeOK, Queues
  <2>4. Append(sendq[fd], item) \in Seq(Blocked) /\ Append(sendq[fd], item) # <<>>
    BY <2>2, <2>3, AppendProperties
  <2>5. item.recvFd = currRecv
    OBVIOUS
  <2> HIDE DEF item, to
  <2>6. Causes(sendq') = Causes(sendq) \cup ({currRecv} \ {0})
    BY <1>8, <2>2, <2>3, <2>5, CausesOfAppend
  <2>7. /\ sendq' \in [Fd -> Seq(Blocked)] /\ sendq'[fd] # <<>>
        /\ \A f \in Fd \ {fd} : sendq'[f] = sendq[f]
    BY <1>8, <2>4 DEF Inv, TypeOK
  <2>8. /\ recvFds' = recvFds \ {currRecv} /\ tmpRecv' = tmpRecv \ ({currRecv} \cap recvFds)
        /\ sendFds' = IF sendq[fd] = <<>> THEN sendFds \cup {fd} ELSE sendFds
    BY <1>8 DEF Disable, MarkBlocked
  <2>9. TypeOK'
    BY <1>2, <1>4, <1>5, <1>6, <2>7, <2>8 DEF Inv, TypeOK
  <2>10. RecvFdsExact'
    <3>1. 0 \notin allFds
      BY SocketAssumption DEF Inv, TypeOK
    <3> QED
      BY <1>2, <2>6, <2>8, <3>1 DEF Inv, RecvFdsExact
  <2>11. ReadinessIsCurrent'
    <3>1. tmpRecv' \subseteq recvFds'
      BY <2>8 DEF Inv, ReadinessIsCurrent
    <3>2. (tmpSend \cap Pending)' \subseteq sendFds'
      BY <1>2, <2>8 DEF Inv, ReadinessIsCurrent, Pending
    <3>3. sendFds' \subseteq {f \in allFds' : sendq'[f] # <<>>}
      BY <1>2, <1>4, <2>7, <2>8 DEF Inv, TypeOK, ReadinessIsCurrent
    <3> QED
      BY <3>1, <3>2, <3>3 DEF ReadinessIsCurrent
  <2>12. RemovedOnce'
    BY <1>2 DEF Inv, RemovedOnce
  <2>13. LoopAgrees'
    BY <1>2, <1>4, <2>6, <2>8 DEF Inv, LoopAgrees
  <2> QED
    BY <2>9, <2>10, <2>11, <2>12, <2>13 DEF Inv
<1> QED
  BY <1>1, <1>7, <1>8 DEF Send

(* A removal begins, of a descriptor that is not being removed, or none does. *)
AtMostOneMore == closing' = closing \/ \E fd \in Fd \ ToSet(closing) : BeginRemove(fd)

LEMMA ClosingStays ==
  ASSUME Inv, AtMostOneMore, allFds' = allFds
  PROVE  closing' \in Seq(Fd) /\ RemovedOnce'
<1>1. CASE closing' = closing
  BY <1>1 DEF Inv, TypeOK, RemovedOnce
<1>2. ASSUME NEW fd \in Fd \ ToSet(closing), BeginRemove(fd)
      PROVE  closing' \in Seq(Fd) /\ RemovedOnce'
  <2>1. CASE fd \notin allFds
    BY <1>1, <1>2, <2>1 DEF BeginRemove
  <2>2. CASE fd \in allFds
    <3>1. closing' = Append(closing, fd)
      BY <1>2, <2>2 DEF BeginRemove
    <3>2. /\ Append(closing, fd) \in Seq(Fd) /\ IsInjective(Append(closing, fd))
          /\ ToSet(Append(closing, fd)) = ToSet(closing) \cup {fd}
      BY <1>2, Pushed DEF Inv, TypeOK, RemovedOnce
    <3> QED
      BY <2>2, <3>1, <3>2 DEF Inv, RemovedOnce
  <2> QED
    BY <2>1, <2>2
<1> QED
  BY <1>1, <1>2 DEF AtMostOneMore

(* A step that leaves the descriptor sets, the queues and the streams alone. *)
LEMMA QuietInv ==
  ASSUME Inv, UNCHANGED <<setVars, sendq, streamVars>>, AtMostOneMore,
         tmpRecv' \subseteq recvFds /\ tmpSend' \subseteq allFds /\ tmpFail' \subseteq allFds,
         tmpSend' \cap Pending' \subseteq sendFds,
         currRecv' \in Fd \cup {0} /\ cur' \in Fd \cup {0},
         mode' \in {"select", "scan", "resend", "recv", "callback", "received", "accept",
                    "cleanup"},
         mode' \in {"resend", "accept", "select"} => closing' = <<>>,
         mode' = "resend" => cur' \in sendFds,
         mode' \in {"recv", "callback", "received"} => cur' \in Fd
  PROVE  Inv'
<1>1. UNCHANGED <<allFds, serverFds, sendFds, recvFds, gen, accepted, wire>>
  BY DEF setVars, streamVars
<1>2. closing' \in Seq(Fd) /\ RemovedOnce'
  BY <1>1, ClosingStays
<1>3. TypeOK'
  BY <1>1, <1>2 DEF Inv, TypeOK
<1>4. RecvFdsExact'
  BY <1>1 DEF Inv, RecvFdsExact, Causes
<1>5. ReadinessIsCurrent'
  BY <1>1 DEF Inv, ReadinessIsCurrent
<1>6. LoopAgrees'
  BY <1>1 DEF Inv, LoopAgrees, Causes
<1> QED
  BY <1>2, <1>3, <1>4, <1>5, <1>6 DEF Inv

(* The calls of the client, and what the loop does between them. *)
LEMMA ClientRemoveInv ==
  ASSUME Inv, NEW fd \in Fd, ClientRemove(fd)
  PROVE  Inv'
<1>1. AtMostOneMore
  BY DEF ClientRemove, AtMostOneMore
<1>2. UNCHANGED <<setVars, tmpRecv, tmpSend, tmpFail, sendq, currRecv, mode, cur, streamVars>>
  BY DEF ClientRemove, tmpVars, loopVars
<1>3. mode \notin {"resend", "accept", "select"}
  BY DEF ClientRemove, InClient, Inv, LoopAgrees
<1>4. tmpSend' \cap Pending' \subseteq sendFds
  BY <1>2 DEF Inv, ReadinessIsCurrent, Pending
<1> QED
  BY <1>1, <1>2, <1>3, <1>4, QuietInv DEF Inv, TypeOK, ReadinessIsCurrent, LoopAgrees

LEMMA SelectInv ==
  ASSUME Inv, Select \/ ScanEnds \/ Quit
  PROVE  Inv'
<1>1. CASE Select
  <2>1. UNCHANGED <<setVars, sendq, streamVars>> /\ closing' = closing /\ currRecv' = currRecv
    BY <1>1 DEF Select
  <2>2. /\ tmpRecv' \subseteq recvFds /\ tmpSend' \subseteq sendFds /\ tmpFail' \subseteq allFds
        /\ mode' = "scan" /\ cur' = 0
    BY <1>1 DEF Select
  <2> QED
    BY <2>1, <2>2, QuietInv DEF Inv, TypeOK, AtMostOneMore
<1>2. CASE ScanEnds
  <2>1. /\ UNCHANGED <<setVars, sendq, streamVars>> /\ closing' = closing /\ currRecv' = currRecv
        /\ closing = <<>>
        /\ mode' = "select" /\ cur' = 0 /\ tmpSend' = {} /\ tmpRecv' = {} /\ tmpFail' = {}
    BY <1>2 DEF ScanEnds
  <2> QED
    BY <2>1, QuietInv DEF Inv, TypeOK, AtMostOneMore
<1>3. CASE Quit
  <2>1. /\ UNCHANGED <<setVars, tmpRecv, tmpSend, tmpFail, sendq, currRecv, cur, closing, streamVars>>
        /\ mode' = "cleanup"
    BY <1>3 DEF Quit, tmpVars
  <2>2. tmpSend' \cap Pending' \subseteq sendFds
    BY <2>1 DEF Inv, ReadinessIsCurrent, Pending
  <2> QED
    BY <2>1, <2>2, QuietInv DEF Inv, TypeOK, ReadinessIsCurrent, AtMostOneMore
<1> QED
  BY <1>1, <1>2, <1>3

(* What is left of the readiness when the loop comes to a descriptor. *)
LEMMA Advanced ==
  ASSUME Inv, Advance
  PROVE  /\ tmpRecv' \subseteq tmpRecv /\ tmpSend' \subseteq tmpSend /\ tmpFail' \subseteq tmpFail
         /\ cur' \in Fd /\ (tmpSend' \cap Pending' \subseteq sendFds)
         /\ (cur' \in tmpSend' => cur' \in sendFds)
<1>1. /\ cur' \in Pending
      /\ tmpRecv' = {fd \in tmpRecv : fd >= cur'}
      /\ tmpSend' = {fd \in tmpSend : fd >= cur'}
      /\ tmpFail' = {fd \in tmpFail : fd >= cur'}
  BY DEF Advance
<1>2. cur' \in Fd /\ cur' > cur
  BY <1>1 DEF Pending, Inv, TypeOK
<1>3. cur \in Nat /\ cur' \in Nat /\ Fd \subseteq Nat
  BY <1>2, SocketAssumption, SMTT(30) DEF Inv, TypeOK
<1>4. \A fd \in Fd : fd > cur' => fd > cur
  BY <1>2, <1>3
<1>5. tmpSend' \cap Pending' \subseteq tmpSend \cap Pending
  BY <1>1, <1>2, <1>3, <1>4 DEF Pending, Inv, TypeOK
<1> QED
  BY <1>1, <1>2, <1>5 DEF Inv, ReadinessIsCurrent

LEMMA NextInv ==
  ASSUME Inv, FailNext \/ ServerNext \/ SocketNext
  PROVE  Inv'
<1>1. Advance
  BY DEF FailNext, ServerNext, SocketNext
<1>2. /\ UNCHANGED <<setVars, sendq, currRecv, streamVars>> /\ closing = <<>> /\ mode = "scan"
  BY <1>1 DEF Advance
<1>3. ToSet(closing) = {}
  BY <1>2, EmptySeq, LenProperties DEF ToSet
<1>4. /\ tmpRecv' \subseteq recvFds /\ tmpSend' \subseteq allFds /\ tmpFail' \subseteq allFds
      /\ cur' \in Fd /\ (tmpSend' \cap Pending' \subseteq sendFds)
      /\ (cur' \in tmpSend' => cur' \in sendFds)
  BY <1>1, Advanced DEF Inv, TypeOK, ReadinessIsCurrent
<1>5. CASE FailNext
  <2>1. mode' = "scan" /\ AtMostOneMore
    BY <1>2, <1>3, <1>4, <1>5 DEF FailNext, AtMostOneMore
  <2> QED
    BY <1>2, <1>4, <2>1, QuietInv DEF Inv, TypeOK
<1>6. CASE ServerNext
  <2>1. mode' = "accept" /\ closing' = closing
    BY <1>6 DEF ServerNext
  <2> QED
    BY <1>2, <1>4, <2>1, QuietInv DEF Inv, TypeOK, AtMostOneMore
<1>7. CASE SocketNext
  <2>1. /\ mode' = IF cur' \in tmpSend THEN "resend" ELSE "recv"
        /\ closing' = closing
    BY <1>7 DEF SocketNext
  <2>2. cur' \in tmpSend => cur' \in tmpSend'
    BY <1>1, <1>4, SocketAssumption DEF Advance
  <2> QED
    BY <1>2, <1>4, <2>1, <2>2, QuietInv DEF Inv, TypeOK, AtMostOneMore
<1> QED
  BY <1>5, <1>6, <1>7

LEMMA EndRemoveInv ==
  ASSUME Inv, EndRemove
  PROVE  Inv'
<1> DEFINE fd == Last(closing)
<1>1. /\ closing # <<>> /\ closing' = Front(closing)
      /\ DropFd(fd) /\ ForgetCause(fd)
      /\ UNCHANGED <<currRecv, mode, cur, gen, accepted, wire>>
  BY DEF EndRemove, loopVars, streamVars
<1>2. /\ Front(closing) \in Seq(Fd) /\ IsInjective(Front(closing))
      /\ ToSet(Front(closing)) = ToSet(closing) \ {fd}
      /\ fd \in ToSet(closing) /\ fd \in Fd
  BY <1>1, Popped DEF Inv, TypeOK, RemovedOnce
<1> HIDE DEF fd
<1>3. sendq \in Queues
  BY DEF Inv, TypeOK, Queues
<1>4. /\ sendq' \in Queues /\ Causes(sendq') = Causes(sendq) \ {fd}
      /\ \A f \in Fd : sendq'[f] = <<>> <=> sendq[f] = <<>>
  BY <1>1, <1>2, <1>3, CausesOfForget
<1>5. /\ allFds' = allFds \ {fd} /\ serverFds' = serverFds \ {fd}
      /\ sendFds' = sendFds \ {fd} /\ recvFds' = recvFds \ {fd}
      /\ tmpSend' = tmpSend \ {fd} /\ tmpRecv' = tmpRecv \ {fd} /\ tmpFail' = tmpFail \ {fd}
  BY <1>1 DEF DropFd
<1>6. TypeOK'
  BY <1>1, <1>2, <1>4, <1>5 DEF Inv, TypeOK, Queues
<1>7. RecvFdsExact'
  BY <1>4, <1>5 DEF Inv, RecvFdsExact
<1>8. ReadinessIsCurrent'
  <2>1. tmpRecv' \subseteq recvFds'
    BY <1>5 DEF Inv, ReadinessIsCurrent
  <2>2. (tmpSend \cap Pending)' \subseteq sendFds'
    BY <1>1, <1>5 DEF Inv, ReadinessIsCurrent, Pending
  <2>3. sendFds' \subseteq {f \in allFds' : sendq'[f] # <<>>}
    BY <1>4, <1>5 DEF Inv, TypeOK, ReadinessIsCurrent
  <2> QED
    BY <2>1, <2>2, <2>3 DEF ReadinessIsCurrent
<1>9. RemovedOnce'
  BY <1>1, <1>2, <1>5 DEF Inv, RemovedOnce
<1>10. LoopAgrees'
  BY <1>1, <1>4, <1>5 DEF Inv, LoopAgrees
<1> QED
  BY <1>6, <1>7, <1>8, <1>9, <1>10 DEF Inv

(* A descriptor is given out again: nothing of its last connection is left in
   the descriptor sets, and no blocked send names it. *)
LEMMA AddFdInv ==
  ASSUME Inv, NEW fd \in Fd, NEW server \in BOOLEAN, AddFd(fd, server),
         UNCHANGED <<sendq, loopVars, closing>>
  PROVE  Inv'
<1>1. /\ fd \notin allFds /\ gen[fd] < MaxGen
      /\ allFds' = allFds \cup {fd}
      /\ serverFds' = IF server THEN serverFds \cup {fd} ELSE serverFds
      /\ sendFds' = sendFds \ {fd} /\ recvFds' = recvFds \cup {fd}
      /\ tmpSend' = tmpSend \ {fd} /\ tmpRecv' = tmpRecv \ {fd} /\ tmpFail' = tmpFail \ {fd}
      /\ gen' = [gen EXCEPT ![fd] = @ + 1]
      /\ accepted' = [accepted EXCEPT ![fd] = 0]
      /\ wire' = [wire EXCEPT ![fd] = <<>>]
  BY DEF AddFd
<1>2. UNCHANGED <<sendq, currRecv, mode, cur, closing>>
  BY DEF loopVars
<1>3. fd \notin Causes(sendq)
  BY <1>1 DEF Inv, LoopAgrees
<1>4. gen[fd] + 1 \in 0..MaxGen /\ gen[fd] + 1 # 0 /\ 0 \in 0..MaxBytes
  BY <1>1, SocketAssumption, SMTT(30) DEF Inv, TypeOK
<1>5. TypeOK'
  <2>1. <<>> \in Seq(0..MaxBytes)
    BY EmptySeq
  <2> QED
    BY <1>1, <1>2, <1>4, <2>1 DEF Inv, TypeOK
<1>6. RecvFdsExact'
  BY <1>1, <1>2, <1>3 DEF Inv, RecvFdsExact
<1>7. ReadinessIsCurrent'
  BY <1>1, <1>2 DEF Inv, ReadinessIsCurrent, Pending
<1>8. RemovedOnce'
  BY <1>1, <1>2 DEF Inv, RemovedOnce
<1>9. LoopAgrees'
  <2>1. \A f \in allFds' : gen'[f] # 0
    BY <1>1, <1>4 DEF Inv, TypeOK, LoopAgrees
  <2>2. mode' = "resend" => cur' \in sendFds'
    BY <1>1, <1>2 DEF Inv, TypeOK, ReadinessIsCurrent, LoopAgrees
  <2> QED
    BY <1>1, <1>2, <2>1, <2>2 DEF Inv, LoopAgrees
<1> QED
  BY <1>5, <1>6, <1>7, <1>8, <1>9 DEF Inv

(* The loop reads, accepts, comes back from a callback, or closes what is left. *)
LEMMA LoopInv ==
  ASSUME Inv, ResendFails \/ RecvChunk \/ CallbackReturns \/ RecvFails \/ RecvEnds
                \/ AcceptEnds \/ CleanupNext
  PROVE  Inv'
<1>1. /\ UNCHANGED <<setVars, tmpRecv, tmpSend, tmpFail, sendq, cur, streamVars>>
      /\ closing = <<>>
      /\ mode' \in {"scan", "recv", "callback", "received", "cleanup"}
      /\ mode' \in {"recv", "callback", "received"} => cur \in Fd
      /\ currRecv' \in {currRecv, cur, 0}
  BY DEF ResendFails, RecvChunk, CallbackReturns, RecvFails, RecvEnds, AcceptEnds, CleanupNext,
         Receiving, tmpVars, loopVars, Inv, TypeOK, LoopAgrees, ReadinessIsCurrent
<1>2. ToSet(closing) = {}
  BY <1>1, EmptySeq, LenProperties DEF ToSet
<1>3. closing' = closing \/ BeginRemove(cur) \/ \E fd \in allFds : BeginRemove(fd)
  BY DEF ResendFails, RecvChunk, CallbackReturns, RecvFails, RecvEnds, AcceptEnds, CleanupNext
<1>4. AtMostOneMore
  <2>1. CASE closing' = closing
    BY <2>1 DEF AtMostOneMore
  <2>2. CASE BeginRemove(cur)
    <3>1. CASE cur \in Fd
      BY <1>2, <2>2, <3>1 DEF AtMostOneMore
    <3>2. CASE cur \notin Fd
      BY <2>2, <3>2 DEF BeginRemove, AtMostOneMore, Inv, TypeOK
    <3> QED
      BY <3>1, <3>2
  <2>3. CASE \E fd \in allFds : BeginRemove(fd)
    BY <1>2, <2>3 DEF AtMostOneMore, Inv, TypeOK
  <2> QED
    BY <1>3, <2>1, <2>2, <2>3
<1>5. tmpSend' \cap Pending' \subseteq sendFds
  BY <1>1 DEF Inv, ReadinessIsCurrent, Pending
<1> QED
  BY <1>1, <1>4, <1>5, QuietInv DEF Inv, TypeOK, ReadinessIsCurrent

(* One round of sm_resend: a send that is done frees the socket that caused it,
   unless another blocked send names that socket. *)
LEMMA ResendInv ==
  ASSUME Inv, NEW taken \in 0..MaxBytes, ResendOne(taken)
  PROVE  Inv'
<1> DEFINE q == sendq[cur]
           item == Head(q)
           n == item.to - item.from + 1
           byte(k) == IF item.gen = gen[cur] THEN item.from + k - 1 ELSE 0
           rest == IF taken = n THEN Tail(q) ELSE [q EXCEPT ![1].from = @ + taken]
<1>1. /\ mode = "resend" /\ q # <<>> /\ taken <= n
      /\ wire' = [wire EXCEPT ![cur] = @ \o [k \in 1..taken |-> byte(k)]]
      /\ sendq' = [sendq EXCEPT ![cur] = rest]
      /\ Unblock(cur, rest)
      /\ recvFds' = IF taken = n THEN recvFds \cup Resume(item.recvFd, sendq') ELSE recvFds
      /\ mode' = IF taken = n /\ rest # <<>> THEN "resend"
                 ELSE IF cur \in tmpRecv THEN "recv" ELSE "scan"
  BY DEF ResendOne
<1>2. UNCHANGED <<allFds, serverFds, tmpSend, tmpRecv, tmpFail, currRecv, cur, closing, gen, accepted>>
  BY DEF ResendOne, tmpVars
<1>3. cur \in Fd /\ cur \in sendFds /\ closing = <<>> /\ sendq \in Queues /\ MaxBytes \in Nat
  BY <1>1, SocketAssumption DEF Inv, TypeOK, LoopAgrees, Queues
<1>4. q \in Seq(Blocked)
  BY <1>3 DEF Queues
<1>5. /\ item \in Blocked /\ item = q[1] /\ Len(q) \in Nat \ {0} /\ DOMAIN q = 1..Len(q)
      /\ Tail(q) \in Seq(Blocked)
  BY <1>1, <1>4, EmptySeq, LenProperties, ElementOfSeq, HeadTailProperties
<1>6. item.from \in 1..MaxBytes /\ item.to \in 1..MaxBytes /\ taken \in Nat
  BY <1>3, <1>5 DEF Blocked
<1>7. wire' \in [Fd -> Seq(0..MaxBytes)]
  <2>1. \A k \in 1..taken : byte(k) \in 0..MaxBytes
    <3>1. taken <= item.to - item.from + 1
      BY <1>1
    <3> HIDE DEF item
    <3> TAKE k \in 1..taken
    <3>2. item.from + k - 1 \in 0..MaxBytes
      BY <1>3, <1>6, <3>1
    <3> QED
      BY <1>3, <3>2
  <2>2. [k \in 1..taken |-> byte(k)] \in [1..taken -> 0..MaxBytes]
    BY <2>1
  <2>3. wire[cur] \in Seq(0..MaxBytes)
    BY <1>3 DEF Inv, TypeOK
  <2> HIDE DEF byte
  <2>4. wire[cur] \o [k \in 1..taken |-> byte(k)] \in Seq(0..MaxBytes)
    BY <1>6, <2>2, <2>3, WireType
  <2> QED
    BY <1>1, <2>4 DEF Inv, TypeOK
<1>8. CASE taken = n
  <2>1. rest = Tail(q) /\ rest \in Seq(Blocked)
    BY <1>5, <1>8
  <2>2. sendq' = [sendq EXCEPT ![cur] = Tail(@)]
    BY <1>1, <2>1
  <2>3. /\ Causes(sendq') \subseteq Causes(sendq)
        /\ Causes(sendq) \subseteq Causes(sendq') \cup {item.recvFd}
    BY <1>1, <1>3, <1>6, <2>2, CausesOfServed
  <2>4. /\ recvFds' = recvFds \cup ({item.recvFd} \cap (allFds \ Causes(sendq')))
        /\ mode' = IF rest # <<>> THEN "resend" ELSE IF cur \in tmpRecv THEN "recv" ELSE "scan"
    BY <1>1, <1>8 DEF Resume
  <2>5. sendFds' = IF rest = <<>> THEN sendFds \ {cur} ELSE sendFds
    BY <1>1 DEF Unblock
  <2>6. /\ sendq'[cur] = rest /\ sendq' \in [Fd -> Seq(Blocked)]
        /\ \A f \in Fd \ {cur} : sendq'[f] = sendq[f]
    BY <1>1, <1>3, <2>1 DEF Queues
  <2> HIDE DEF item, n, q, byte, rest
  <2>7. TypeOK'
    BY <1>2, <1>7, <2>4, <2>5, <2>6 DEF Inv, TypeOK
  <2>8. RecvFdsExact'
    BY <1>2, <2>3, <2>4 DEF Inv, RecvFdsExact
  <2>9. ReadinessIsCurrent'
    <3>1. tmpRecv' \subseteq recvFds'
      BY <1>2, <2>4 DEF Inv, ReadinessIsCurrent
    <3>2. cur \notin Pending
      BY <1>3, SocketAssumption DEF Pending
    <3>3. (tmpSend \cap Pending)' \subseteq sendFds'
      BY <1>2, <2>5, <3>2 DEF Inv, ReadinessIsCurrent, Pending
    <3>4. sendFds' \subseteq {f \in allFds' : sendq'[f] # <<>>}
      BY <1>2, <2>5, <2>6 DEF Inv, TypeOK, ReadinessIsCurrent
    <3> QED
      BY <3>1, <3>3, <3>4 DEF ReadinessIsCurrent
  <2>10. RemovedOnce'
    BY <1>2 DEF Inv, RemovedOnce
  <2>11. LoopAgrees'
    BY <1>2, <1>3, <2>3, <2>4, <2>5 DEF Inv, LoopAgrees
  <2> QED
    BY <2>7, <2>8, <2>9, <2>10, <2>11 DEF Inv
<1>9. CASE taken # n
  <2> DEFINE from == item.from + taken
  <2>1. from \in 1..MaxBytes
    BY <1>1, <1>3, <1>6, <1>9, SMTT(30)
  <2>2. rest = [q EXCEPT ![1].from = from]
    BY <1>5, <1>9
  <2>3. rest \in Seq(Blocked) /\ rest # <<>>
    <3>1. [q[1] EXCEPT !.from = from] \in Blocked
      BY <1>5, <2>1 DEF Blocked
    <3>2. rest = [q EXCEPT ![1] = [q[1] EXCEPT !.from = from]]
      BY <1>5, <2>2
    <3> HIDE DEF from, rest, item, n
    <3>3. rest \in Seq(Blocked) /\ Len(rest) = Len(q)
      BY <1>4, <1>5, <3>1, <3>2, ExceptSeq
    <3> QED
      BY <1>5, <3>3, EmptySeq
  <2>4. sendq' = [sendq EXCEPT ![cur] = [@ EXCEPT ![1].from = from]]
    BY <1>1, <2>2
  <2>5. Causes(sendq') = Causes(sendq)
    <3>1. sendq[cur] # <<>>
      BY <1>1
    <3> HIDE DEF from, q, item, n, byte, rest
    <3> QED
      BY <1>3, <2>1, <2>4, <3>1, CausesOfServed
  <2>6. recvFds' = recvFds /\ mode' = IF cur \in tmpRecv THEN "recv" ELSE "scan"
    BY <1>1, <1>9
  <2>7. sendFds' = sendFds
    BY <1>1, <2>3 DEF Unblock
  <2>8. /\ sendq'[cur] = rest /\ sendq' \in [Fd -> Seq(Blocked)]
        /\ \A f \in Fd \ {cur} : sendq'[f] = sendq[f]
    BY <1>1, <1>3, <2>3 DEF Queues
  <2> HIDE DEF item, n, q, byte, rest, from
  <2>9. TypeOK'
    BY <1>2, <1>7, <2>6, <2>7, <2>8 DEF Inv, TypeOK
  <2>10. RecvFdsExact'
    BY <1>2, <2>5, <2>6 DEF Inv, RecvFdsExact
  <2>11. ReadinessIsCurrent'
    <3>1. tmpRecv' \subseteq recvFds'
      BY <1>2, <2>6 DEF Inv, ReadinessIsCurrent
    <3>2. (tmpSend \cap Pending)' \subseteq sendFds'
      BY <1>2, <2>7 DEF Inv, ReadinessIsCurrent, Pending
    <3>3. sendFds' \subseteq {f \in allFds' : sendq'[f] # <<>>}
      BY <1>2, <2>3, <2>7, <2>8 DEF Inv, TypeOK, ReadinessIsCurrent
    <3> QED
      BY <3>1, <3>2, <3>3 DEF ReadinessIsCurrent
  <2>12. RemovedOnce'
    BY <1>2 DEF Inv, RemovedOnce
  <2>13. LoopAgrees'
    BY <1>2, <1>3, <2>5, <2>6 DEF Inv, LoopAgrees
  <2> QED
    BY <2>9, <2>10, <2>11, <2>12, <2>13 DEF Inv
<1> QED
  BY <1>8, <1>9

(* Every action preserves the invariant. *)
LEMMA StepInv == Inv /\ [Next]_vars => Inv'
<1> SUFFICES ASSUME Inv, [Next]_vars PROVE Inv'
  OBVIOUS
<1>1. ASSUME NEW fd \in Fd, NEW n \in 1..MaxBytes, ClientSend(fd, n) PROVE Inv'
  BY <1>1, SendInv
<1>2. ASSUME NEW fd \in Fd, ClientRemove(fd) PROVE Inv'
  BY <1>2, ClientRemoveInv
<1>3. ASSUME NEW fd \in Fd, NEW server \in BOOLEAN, ClientAdd(fd, server) PROVE Inv'
  <2>1. AddFd(fd, server) /\ UNCHANGED <<sendq, loopVars, closing>>
    BY <1>3 DEF ClientAdd
  <2> QED
    BY <2>1, AddFdInv
<1>4. ASSUME NEW fd \in Fd, AcceptOne(fd) PROVE Inv'
  <2>1. AddFd(fd, FALSE) /\ UNCHANGED <<sendq, loopVars, closing>>
    BY <1>4 DEF AcceptOne
  <2> QED
    BY <2>1, AddFdInv
<1>5. ASSUME NEW taken \in 0..MaxBytes, ResendOne(taken) PROVE Inv'
  BY <1>5, ResendInv
<1>6. CASE EndRemove
  BY <1>6, EndRemoveInv
<1>7. CASE UNCHANGED vars
  <2>1. /\ UNCHANGED <<allFds, serverFds, sendFds, recvFds, tmpSend, tmpRecv, tmpFail>>
        /\ UNCHANGED <<sendq, currRecv, mode, cur, closing, gen, accepted, wire>>
    BY <1>7 DEF vars, setVars, tmpVars, loopVars, streamVars
  <2>2. TypeOK'
    BY <2>1 DEF Inv, TypeOK
  <2>3. Causes(sendq)' = Causes(sendq) /\ Pending' = Pending
    BY <2>1 DEF Causes, Pending
  <2>4. RecvFdsExact' /\ ReadinessIsCurrent'
    BY <2>1, <2>3 DEF Inv, RecvFdsExact, ReadinessIsCurrent
  <2>5. RemovedOnce' /\ LoopAgrees'
    BY <2>1, <2>3 DEF Inv, RemovedOnce, LoopAgrees
  <2> QED
    BY <2>2, <2>4, <2>5 DEF Inv
<1> QED
  BY <1>1, <1>2, <1>3, <1>4, <1>5, <1>6, <1>7, SelectInv, NextInv, LoopInv
    DEF Next, Client, Loop

LEMMA AlwaysInv == Spec => []Inv
<1>1. Init => Inv
  BY InitInv
<1>2. Inv /\ [Next]_vars => Inv'
  BY StepInv
<1> QED
  BY <1>1, <1>2, PTL DEF Spec

-----------------------------------------------------------------------------
(* Every variable of the select loop has its type; in particular only open
   descriptors are in the sets, and sockets are connected at most MaxGen times. *)
THEOREM SocketTypes == Spec => []TypeOK
  BY AlwaysInv, PTL DEF Inv

(* A socket is read exactly when none of the blocked sends it caused is queued:
   sm_send, sm_resend and sm_remove_fd keep recv_fds what its comment says, for
   any nesting of removals and any reuse of descriptors. *)
THEOREM ReadingFollowsQueues == Spec => []RecvFdsExact
  BY AlwaysInv, PTL DEF Inv

(* The readiness that one select reported stays about the sockets it looked at,
   whatever the callbacks disable, close or open while sm_select goes through it. *)
THEOREM ReadinessStaysCurrent == Spec => []ReadinessIsCurrent
  BY AlwaysInv, PTL DEF Inv

(* However removals nest in callbacks, none of them is of a socket that is
   already being removed or closed. *)
THEOREM EachRemovedOnce == Spec => []RemovedOnce
  BY AlwaysInv, PTL DEF Inv

-----------------------------------------------------------------------------
(* The kernel was given the first bytes of the connection. *)
InOrder(fd) ==
  /\ wire[fd] = [k \in 1..Len(wire[fd]) |-> k]
  /\ Len(wire[fd]) <= accepted[fd]

(* The queue holds the bytes of this connection that the kernel was not given yet. *)
Contiguous(fd) ==
  LET q == sendq[fd] IN
  /\ \A i \in DOMAIN q :
       /\ q[i].gen = gen[fd] /\ q[i].from <= q[i].to /\ q[i].to <= accepted[fd]
       /\ q[i].from = (IF i = 1 THEN Len(wire[fd]) ELSE q[i - 1].to) + 1
  /\ q[Len(q)].to = accepted[fd]

(* A connection whose descriptor is not marked has nothing queued, or is behind the
   queue of an earlier connection, which is not served. *)
StreamInv ==
  /\ \A fd \in Fd : InOrder(fd)
  /\ \A fd \in sendFds : Contiguous(fd)
  /\ \A fd \in allFds : sendq[fd] = <<>> => Len(wire[fd]) = accepted[fd]
StreamStep == [Stream!Next]_<<allFds, accepted, wire>>

-----------------------------------------------------------------------------

LEMMA StreamInitInv == Init => StreamInv /\ Stream!Init
<1> SUFFICES ASSUME Init PROVE StreamInv /\ Stream!Init
  OBVIOUS
<1>1. wire = [fd \in Fd |-> <<>>] /\ accepted = [fd \in Fd |-> 0] /\ sendFds = {} /\ allFds \subseteq Fd
  BY SocketAssumption DEF Init
<1>2. Len(<<>>) = 0 /\ <<>> = [k \in 1..0 |-> k]
  OBVIOUS
<1>3. \A fd \in Fd : InOrder(fd) /\ Len(wire[fd]) = accepted[fd]
  BY <1>1, <1>2 DEF InOrder
<1> QED
  BY <1>1, <1>3 DEF StreamInv, Stream!Init

(* A step that leaves queues and streams alone is none of the abstract connections. *)
LEMMA QuietStream ==
  ASSUME StreamInv, UNCHANGED <<allFds, sendFds, sendq, gen, accepted, wire>>
  PROVE  StreamInv' /\ StreamStep
BY DEF StreamInv, InOrder, Contiguous, StreamStep

(* The kernel takes the bytes that come next. *)
LEMMA GivenMore ==
  ASSUME NEW w \in Seq(0..MaxBytes), w = [k \in 1..Len(w) |-> k], NEW taken \in Nat
  PROVE  /\ w \o [k \in 1..taken |-> Len(w) + k] = [k \in 1..(Len(w) + taken) |-> k]
         /\ Len(w \o [k \in 1..taken |-> Len(w) + k]) = Len(w) + taken
<1> DEFINE n == Len(w)
           b == [k \in 1..taken |-> n + k]
           s == [k \in 1..(n + taken) |-> k]
<1>1. n \in Nat /\ n + taken \in Nat
  BY LenProperties
<1>2. w \in Seq(Nat)
  <2>1. \A k \in 1..n : k \in Nat
    BY <1>1
  <2> HIDE DEF n
  <2>2. [k \in 1..n |-> k] \in [1..n -> Nat]
    BY <2>1
  <2> QED
    BY <1>1, <2>2, SeqDef DEF n
<1> HIDE DEF n
<1>3. b \in Seq(Nat) /\ Len(b) = taken /\ \A k \in 1..taken : b[k] = n + k
  <2>1. b \in [1..taken -> Nat]
    BY <1>1
  <2>2. b \in Seq(Nat)
    BY <2>1, SeqDef
  <2> QED
    BY <2>1, <2>2, LenProperties
<1>4. s \in Seq(Nat) /\ Len(s) = n + taken /\ \A k \in 1..(n + taken) : s[k] = k
  <2>1. s \in [1..(n + taken) -> Nat]
    BY <1>1
  <2>2. s \in Seq(Nat)
    BY <1>1, <2>1, SeqDef
  <2> QED
    BY <1>1, <2>1, <2>2, LenProperties
<1>5. \A k \in 1..n : w[k] = k
  BY DEF n
<1> HIDE DEF b, s
<1>6. /\ w \o b \in Seq(Nat) /\ Len(w \o b) = n + taken
      /\ \A k \in 1..(n + taken) : (w \o b)[k] = IF k <= n THEN w[k] ELSE b[k - n]
  <2>1. Len(w) = n
    BY DEF n
  <2>2. \A x, y \in Seq(Nat) :
          /\ x \o y \in Seq(Nat) /\ Len(x \o y) = Len(x) + Len(y)
          /\ \A k \in 1..(Len(x) + Len(y)) : (x \o y)[k] = IF k <= Len(x) THEN x[k] ELSE y[k - Len(x)]
    BY ConcatProperties
  <2> QED
    BY <1>2, <1>3, <2>1, <2>2
<1>7. \A k \in 1..(n + taken) : (w \o b)[k] = s[k]
  <2> TAKE k \in 1..(n + taken)
  <2>1. CASE k <= n
    BY <1>1, <1>4, <1>5, <1>6, <2>1
  <2>2. CASE ~(k <= n)
    <3>1. k - n \in 1..taken /\ n + (k - n) = k
      BY <1>1, <2>2
    <3> QED
      BY <1>3, <1>4, <1>6, <2>2, <3>1
  <2> QED
    BY <2>1, <2>2
<1>8. w \o b = s
  BY <1>4, <1>6, <1>7, SeqEqual
<1> QED
  BY <1>6, <1>8 DEF n, b, s

-----------------------------------------------------------------------------
(* A client sends. *)

LEMMA SendStream ==
  ASSUME Inv, StreamInv, NEW fd \in Fd, NEW n \in 1..MaxBytes, ClientSend(fd, n)
  PROVE  StreamInv' /\ StreamStep
<1>1. PICK taken \in Taken(fd, n) : Send(fd, n, taken)
  BY DEF ClientSend
<1> DEFINE w == wire[fd]
           to == accepted[fd] + n
           more == [k \in 1..taken |-> accepted[fd] + k]
           item == [recvFd |-> currRecv, gen |-> gen[fd],
                    from |-> accepted[fd] + taken + 1, to |-> to]
<1>2. /\ accepted' = [accepted EXCEPT ![fd] = to]
      /\ wire' = [wire EXCEPT ![fd] = w \o more]
      /\ UNCHANGED <<allFds, gen>>
  BY <1>1 DEF Send
<1>3. /\ fd \in allFds /\ n \in Nat \ {0} /\ taken \in 0..n /\ accepted[fd] \in Nat
      /\ (sendq[fd] # <<>> => taken = 0)
      /\ w \in Seq(0..MaxBytes) /\ Len(w) \in Nat
  BY <1>1, SocketAssumption, LenProperties DEF ClientSend, Taken, Inv, TypeOK
<1>4. /\ w = [k \in 1..Len(w) |-> k] /\ Len(w) <= accepted[fd]
      /\ (sendq[fd] = <<>> => Len(w) = accepted[fd])
  BY <1>3 DEF StreamInv, InOrder
<1>5. w \o more = [k \in 1..(Len(w) + taken) |-> k] /\ Len(w \o more) = Len(w) + taken
  <2>1. sendq[fd] = <<>> \/ taken = 0
    BY <1>3
  <2>2. more = [k \in 1..taken |-> Len(w) + k]
    <3>1. CASE sendq[fd] = <<>>
      BY <1>4, <3>1
    <3>2. CASE taken = 0
      BY <3>2
    <3> QED
      BY <2>1, <3>1, <3>2
  <2> HIDE DEF w, more
  <2> QED
    BY <1>3, <1>4, <2>2, GivenMore
<1>6. /\ wire'[fd] = [k \in 1..(Len(w) + taken) |-> k] /\ Len(wire'[fd]) = Len(w) + taken
      /\ accepted'[fd] = to
      /\ \A f \in Fd \ {fd} : wire'[f] = wire[f] /\ accepted'[f] = accepted[f]
      /\ wire' = [wire EXCEPT ![fd] = [k \in 1..(Len(w) + taken) |-> k]]
  BY <1>2, <1>5 DEF Inv, TypeOK
<1>7. Len(w) + taken <= to /\ to \in Nat /\ to >= accepted[fd] /\ Len(w) + taken \in Nat
  BY <1>3, <1>4
<1>8. \A f \in Fd : InOrder(f)'
  BY <1>6, <1>7 DEF StreamInv, InOrder
<1>9. StreamStep
  <2>1. to \in accepted[fd]..accepted'[fd] /\ Len(w) + taken \in Len(wire[fd])..accepted'[fd]
    BY <1>3, <1>6, <1>7
  <2> HIDE DEF to, w, more, item
  <2>2. Stream!Transfer(fd)
    BY <1>2, <1>3, <1>6, <2>1 DEF Stream!Transfer, w
  <2> QED
    BY <2>2 DEF StreamStep, Stream!Next
<1>10. CASE taken = n /\ UNCHANGED <<sendq, sendFds, recvFds, tmpRecv>>
  <2>1. sendq[fd] = <<>>
    BY <1>3, <1>10
  <2>2. fd \notin sendFds
    BY <2>1 DEF Inv, ReadinessIsCurrent
  <2>3. \A f \in sendFds' : Contiguous(f)'
    <3> TAKE f \in sendFds'
    <3>1. f \in sendFds /\ f \in Fd \ {fd}
      BY <1>10, <2>2 DEF Inv, TypeOK
    <3>2. sendq'[f] = sendq[f] /\ wire'[f] = wire[f] /\ accepted'[f] = accepted[f] /\ gen' = gen
      BY <1>2, <1>6, <1>10, <3>1
    <3> QED
      BY <3>1, <3>2 DEF StreamInv, Contiguous
  <2>4. Len(wire'[fd]) = accepted'[fd]
    BY <1>3, <1>4, <1>6, <1>10, <2>1
  <2>5. \A f \in allFds' : sendq'[f] = <<>> => Len(wire'[f]) = accepted'[f]
    BY <1>2, <1>6, <1>10, <2>4 DEF StreamInv, Inv, TypeOK
  <2> QED
    BY <1>8, <1>9, <2>3, <2>5 DEF StreamInv
<1>11. CASE /\ taken < n
            /\ sendq' = [sendq EXCEPT ![fd] = Append(@, item)]
            /\ MarkBlocked(fd)
            /\ Disable({currRecv} \cap recvFds)
  <2> DEFINE q == sendq[fd]
             m == Len(q)
  <2>1. /\ q \in Seq(Blocked) /\ m \in Nat /\ DOMAIN q = 1..m
        /\ (q = <<>> <=> m = 0)
    BY EmptySeq, LenProperties DEF Inv, TypeOK
  <2>2. /\ sendq'[fd] = Append(q, item) /\ \A f \in Fd \ {fd} : sendq'[f] = sendq[f]
    BY <1>11 DEF Inv, TypeOK
  <2>3. /\ item.gen = gen[fd] /\ item.from = accepted[fd] + taken + 1 /\ item.to = to
    OBVIOUS
  <2>4. item \in [recvFd: Fd \cup {0}, gen: 1..MaxGen, from: 1..MaxBytes, to: 1..MaxBytes]
    <3>1. gen[fd] \in 1..MaxGen
      BY <1>3, SocketAssumption DEF Inv, TypeOK, LoopAgrees
    <3>2. to <= MaxBytes
      BY <1>1 DEF Send
    <3>3. accepted[fd] + taken + 1 \in 1..MaxBytes /\ to \in 1..MaxBytes
      BY <1>3, <1>11, <3>2, SocketAssumption
    <3> QED
      BY <3>1, <3>3 DEF Inv, TypeOK
  <2>5. item \in Blocked
    BY <2>4 DEF Blocked
  <2> HIDE DEF item
  <2>6. /\ sendq'[fd] # <<>> /\ Len(sendq'[fd]) = m + 1 /\ DOMAIN sendq'[fd] = 1..(m + 1)
        /\ sendq'[fd][m + 1] = item /\ \A i \in 1..m : sendq'[fd][i] = q[i]
    BY <2>1, <2>2, <2>5, AppendProperties, LenProperties
  <2>7. sendFds' = IF q = <<>> THEN sendFds \cup {fd} ELSE sendFds
    BY <1>11 DEF MarkBlocked
  <2>8. ASSUME fd \in sendFds'
        PROVE  Contiguous(fd)'
    <3>1. m # 0 => Contiguous(fd)
      BY <2>1, <2>7, <2>8 DEF StreamInv
    <3>2. ASSUME NEW i \in 1..m
          PROVE  /\ sendq'[fd][i].gen = gen'[fd] /\ sendq'[fd][i].from <= sendq'[fd][i].to
                 /\ sendq'[fd][i].to <= accepted'[fd]
                 /\ sendq'[fd][i].from
                      = (IF i = 1 THEN Len(wire'[fd]) ELSE sendq'[fd][i - 1].to) + 1
      <4>1. Contiguous(fd) /\ i \in DOMAIN q /\ taken = 0
        BY <1>3, <2>1, <3>1, <3>2
      <4>2. i # 1 => i - 1 \in 1..m
        BY <2>1, <3>2
      <4>3. q[i].to \in Nat
        <5>1. q[i] \in Blocked
          BY <2>1, <3>2, ElementOfSeq
        <5> HIDE DEF q
        <5> QED
          BY <5>1 DEF Blocked
      <4>4. q[i].to <= accepted[fd] /\ q[i].from <= q[i].to /\ q[i].gen = gen[fd]
        BY <4>1 DEF Contiguous
      <4>5. q[i].to <= to
        BY <1>3, <4>3, <4>4
      <4>6. q[i].from = (IF i = 1 THEN Len(w) ELSE q[i - 1].to) + 1
        BY <4>1 DEF Contiguous
      <4>7. Len(wire'[fd]) = Len(w)
        BY <1>3, <1>6, <4>1
      <4> HIDE DEF q, to, w, more
      <4> QED
        BY <1>2, <1>6, <2>6, <4>2, <4>4, <4>5, <4>6, <4>7
    <3>3. /\ item.gen = gen'[fd] /\ item.from <= item.to /\ item.to <= accepted'[fd]
      BY <1>2, <1>3, <1>6, <1>7, <1>11, <2>3
    <3>4. item.from = (IF m + 1 = 1 THEN Len(wire'[fd]) ELSE sendq'[fd][m].to) + 1
      <4>1. CASE m = 0
        <5>1. Len(w) = accepted[fd]
          BY <1>4, <2>1, <4>1
        <5> HIDE DEF q, m, to, w, more
        <5> QED
          BY <1>3, <1>6, <2>3, <4>1, <5>1
      <4>2. CASE m # 0
        <5>1. Contiguous(fd) /\ taken = 0 /\ m \in 1..m
          BY <1>3, <2>1, <3>1, <4>2
        <5>2. q[m].to = accepted[fd] /\ sendq'[fd][m] = q[m]
          BY <2>6, <5>1 DEF Contiguous
        <5> QED
          BY <1>3, <2>1, <2>3, <4>2, <5>1, <5>2
      <4> QED
        BY <4>1, <4>2
    <3>5. \A i \in 1..(m + 1) : i = m + 1 \/ i \in 1..m
      BY <2>1
    <3>6. (m + 1) - 1 = m
      BY <2>1
    <3> HIDE DEF q, m, to, w, more
    <3> QED
      BY <1>6, <2>3, <2>6, <3>2, <3>3, <3>4, <3>5, <3>6, ZenonT(40) DEF Contiguous
  <2>9. \A f \in sendFds' : Contiguous(f)'
    <3> TAKE f \in sendFds'
    <3>1. CASE f = fd
      BY <2>8, <3>1
    <3>2. CASE f # fd
      <4>1. f \in sendFds /\ f \in Fd
        BY <2>7, <3>2 DEF Inv, TypeOK
      <4>2. sendq'[f] = sendq[f] /\ wire'[f] = wire[f] /\ accepted'[f] = accepted[f] /\ gen' = gen
        BY <1>2, <1>6, <2>2, <3>2, <4>1
      <4> QED
        BY <4>1, <4>2 DEF StreamInv, Contiguous
    <3> QED
      BY <3>1, <3>2
  <2>10. \A f \in allFds' : sendq'[f] = <<>> => Len(wire'[f]) = accepted'[f]
    BY <1>2, <1>6, <2>2, <2>6 DEF StreamInv, Inv, TypeOK
  <2> QED
    BY <1>8, <1>9, <2>9, <2>10 DEF StreamInv
<1> QED
  BY <1>1, <1>10, <1>11 DEF Send

-----------------------------------------------------------------------------
(* A socket closes: its queue stays behind, and what the others have queued only
   loses a cause. *)
LEMMA CloseStream ==
  ASSUME Inv, StreamInv, EndRemove
  PROVE  StreamInv' /\ StreamStep
<1> DEFINE fd == Last(closing)
<1>1. /\ closing # <<>> /\ DropFd(fd) /\ ForgetCause(fd) /\ UNCHANGED <<gen, accepted, wire>>
  BY DEF EndRemove, streamVars
<1>2. fd \in allFds /\ fd \in Fd
  BY <1>1, Popped DEF Inv, TypeOK, RemovedOnce
<1> HIDE DEF fd
<1>3. allFds' = allFds \ {fd} /\ sendFds' = sendFds \ {fd}
  BY <1>1 DEF DropFd
<1>4. \A f \in Fd : sendq'[f] = <<>> <=> sendq[f] = <<>>
  BY <1>1, <1>2, CausesOfForget DEF Inv, TypeOK, Queues
<1>5. StreamStep
  <2>1. Stream!Close(fd)
    BY <1>1, <1>2, <1>3 DEF Stream!Close
  <2> QED
    BY <1>2, <2>1 DEF StreamStep, Stream!Next
<1>6. ASSUME NEW f \in sendFds'
      PROVE  Contiguous(f)'
  <2> DEFINE q == sendq[f]
             r == sendq'[f]
             m == Len(q)
  <2>1. f \in Fd /\ Contiguous(f) /\ q \in Seq(Blocked)
    BY <1>3 DEF Inv, TypeOK, StreamInv
  <2>2. m \in Nat /\ DOMAIN q = 1..m /\ \A i \in 1..m : q[i] \in Blocked
    BY <2>1, LenProperties, ElementOfSeq
  <2>3. r = [i \in DOMAIN q |-> IF q[i].recvFd = fd THEN [q[i] EXCEPT !.recvFd = 0] ELSE q[i]]
    BY <1>1, <2>1 DEF ForgetCause
  <2>4. r \in Seq(Blocked)
    BY <1>1, <1>2, <2>1, CausesOfForget DEF Inv, TypeOK, Queues
  <2>5. ASSUME NEW i \in 1..m
        PROVE  r[i].gen = q[i].gen /\ r[i].from = q[i].from /\ r[i].to = q[i].to
    <3> DEFINE item == q[i]
    <3>1. item \in Blocked /\ r[i] = IF item.recvFd = fd THEN [item EXCEPT !.recvFd = 0] ELSE item
      BY <2>2, <2>3
    <3> HIDE DEF item, r, q, m
    <3>2. r[i].gen = item.gen /\ r[i].from = item.from /\ r[i].to = item.to
      BY <3>1 DEF Blocked
    <3> QED
      BY <3>2 DEF item
  <2>6. DOMAIN r = 1..m /\ Len(r) = m
    BY <2>2, <2>3, <2>4, LenProperties
  <2>7. m # 0
    <3>1. q # <<>>
      BY <1>3 DEF Inv, ReadinessIsCurrent
    <3> QED
      BY <2>1, <3>1, EmptySeq
  <2>8. /\ \A i \in 1..m :
             /\ q[i].gen = gen[f] /\ q[i].from <= q[i].to /\ q[i].to <= accepted[f]
             /\ q[i].from = (IF i = 1 THEN Len(wire[f]) ELSE q[i - 1].to) + 1
        /\ q[m].to = accepted[f]
    BY <2>1, <2>2 DEF Contiguous
  <2> HIDE DEF q, r, m
  <2>9. \A i \in 1..m : i # 1 => i - 1 \in 1..m
    BY <2>2
  <2>10. m \in 1..m
    BY <2>2, <2>7
  <2>11. /\ \A i \in DOMAIN r :
              /\ r[i].gen = gen[f] /\ r[i].from <= r[i].to /\ r[i].to <= accepted[f]
              /\ r[i].from = (IF i = 1 THEN Len(wire[f]) ELSE r[i - 1].to) + 1
         /\ r[Len(r)].to = accepted[f]
    BY <2>5, <2>6, <2>8, <2>9, <2>10
  <2> QED
    BY <1>1, <2>11 DEF Contiguous, r
<1>7. \A f \in Fd : InOrder(f)'
  BY <1>1 DEF StreamInv, InOrder
<1>8. \A f \in allFds' : sendq'[f] = <<>> => Len(wire'[f]) = accepted'[f]
  BY <1>1, <1>3, <1>4 DEF StreamInv, Inv, TypeOK
<1> QED
  BY <1>5, <1>6, <1>7, <1>8 DEF StreamInv

(* A descriptor is given to a new connection, whatever its queue holds. *)
LEMMA OpenStream ==
  ASSUME Inv, StreamInv, NEW fd \in Fd, NEW server \in BOOLEAN, AddFd(fd, server),
         UNCHANGED sendq
  PROVE  StreamInv' /\ StreamStep
<1>1. /\ fd \notin allFds /\ allFds' = allFds \cup {fd} /\ sendFds' = sendFds \ {fd}
      /\ gen' = [gen EXCEPT ![fd] = @ + 1]
      /\ accepted' = [accepted EXCEPT ![fd] = 0]
      /\ wire' = [wire EXCEPT ![fd] = <<>>]
  BY DEF AddFd
<1>2. /\ wire'[fd] = <<>> /\ accepted'[fd] = 0
      /\ \A f \in Fd \ {fd} : wire'[f] = wire[f] /\ accepted'[f] = accepted[f] /\ gen'[f] = gen[f]
  BY <1>1 DEF Inv, TypeOK
<1>3. Len(<<>>) = 0 /\ <<>> = [k \in 1..0 |-> k]
  OBVIOUS
<1>4. \A f \in Fd : InOrder(f)'
  BY <1>2, <1>3 DEF StreamInv, InOrder
<1>5. \A f \in sendFds' : Contiguous(f)'
  <2> TAKE f \in sendFds'
  <2>1. f \in sendFds /\ f \in Fd \ {fd}
    BY <1>1 DEF Inv, TypeOK
  <2>2. /\ sendq'[f] = sendq[f] /\ wire'[f] = wire[f] /\ accepted'[f] = accepted[f]
        /\ gen'[f] = gen[f]
    BY <1>2, <2>1
  <2> QED
    BY <2>1, <2>2 DEF StreamInv, Contiguous
<1>6. \A f \in allFds' : sendq'[f] = <<>> => Len(wire'[f]) = accepted'[f]
  BY <1>1, <1>2, <1>3 DEF StreamInv, Inv, TypeOK
<1>7. StreamStep
  <2>1. Stream!Open(fd)
    BY <1>1 DEF Stream!Open
  <2> QED
    BY <2>1 DEF StreamStep, Stream!Next
<1> QED
  BY <1>4, <1>5, <1>6, <1>7 DEF StreamInv

(* The kernel takes some of the oldest blocked send, which are the bytes that come
   next. *)
LEMMA ResendStream ==
  ASSUME Inv, StreamInv, NEW taken \in 0..MaxBytes, ResendOne(taken)
  PROVE  StreamInv' /\ StreamStep
<1> DEFINE q == sendq[cur]
           item == Head(q)
           n == item.to - item.from + 1
           byte(k) == IF item.gen = gen[cur] THEN item.from + k - 1 ELSE 0
           rest == IF taken = n THEN Tail(q) ELSE [q EXCEPT ![1].from = @ + taken]
           more == [k \in 1..taken |-> byte(k)]
           w == wire[cur]
           m == Len(q)
<1>1. /\ mode = "resend" /\ q # <<>> /\ taken <= n
      /\ wire' = [wire EXCEPT ![cur] = w \o more]
      /\ sendq' = [sendq EXCEPT ![cur] = rest]
      /\ Unblock(cur, rest)
      /\ UNCHANGED <<allFds, gen, accepted, cur>>
  BY DEF ResendOne
<1>2. cur \in Fd /\ cur \in sendFds /\ cur \in allFds /\ taken \in Nat
  BY <1>1, SocketAssumption DEF Inv, TypeOK, LoopAgrees
<1>3. /\ q \in Seq(Blocked) /\ m \in Nat \ {0} /\ DOMAIN q = 1..m /\ item = q[1]
      /\ \A i \in 1..m : q[i] \in Blocked
  BY <1>1, <1>2, EmptySeq, LenProperties, ElementOfSeq DEF Inv, TypeOK
<1>4. \A i \in 1..m : q[i].from \in Nat /\ q[i].to \in Nat
  <2> TAKE i \in 1..m
  <2>1. q[i] \in Blocked
    BY <1>3
  <2> HIDE DEF q
  <2> QED
    BY <2>1 DEF Blocked
<1>5. /\ w \in Seq(0..MaxBytes) /\ Len(w) \in Nat /\ accepted[cur] \in Nat
      /\ w = [k \in 1..Len(w) |-> k]
  BY <1>2, LenProperties DEF Inv, TypeOK, StreamInv, InOrder
<1>6. /\ \A i \in 1..m :
           /\ q[i].gen = gen[cur] /\ q[i].from <= q[i].to /\ q[i].to <= accepted[cur]
           /\ q[i].from = (IF i = 1 THEN Len(w) ELSE q[i - 1].to) + 1
      /\ q[m].to = accepted[cur]
  BY <1>2, <1>3 DEF StreamInv, Contiguous
<1>7. 1 \in 1..m /\ m \in 1..m
  BY <1>3
<1>8. /\ item.gen = gen[cur] /\ item.from = Len(w) + 1 /\ item.to <= accepted[cur]
      /\ item.from \in Nat /\ item.to \in Nat
  BY <1>3, <1>4, <1>6, <1>7
<1>9. /\ w \o more = [k \in 1..(Len(w) + taken) |-> k] /\ Len(w \o more) = Len(w) + taken
  <2>1. more = [k \in 1..taken |-> Len(w) + k]
    <3>1. \A k \in 1..taken : byte(k) = Len(w) + k
      BY <1>2, <1>5, <1>8
    <3> HIDE DEF byte, w, item
    <3> QED
      BY <3>1
  <2> HIDE DEF w, more
  <2> QED
    BY <1>2, <1>5, <2>1, GivenMore
<1>10. /\ wire'[cur] = [k \in 1..(Len(w) + taken) |-> k] /\ Len(wire'[cur]) = Len(w) + taken
       /\ \A f \in Fd \ {cur} : wire'[f] = wire[f] /\ sendq'[f] = sendq[f]
       /\ wire' = [wire EXCEPT ![cur] = [k \in 1..(Len(w) + taken) |-> k]]
       /\ sendq'[cur] = rest
  BY <1>1, <1>2, <1>9 DEF Inv, TypeOK
<1>11. Len(w) + taken <= accepted[cur] /\ Len(w) + taken <= item.to /\ Len(w) + taken \in Nat
  <2>1. taken <= item.to - item.from + 1
    BY <1>1
  <2> HIDE DEF item, w
  <2> QED
    BY <1>2, <1>5, <1>8, <2>1
<1>12. \A f \in Fd : InOrder(f)'
  <2> HIDE DEF w
  <2> QED
    BY <1>1, <1>10, <1>11, ZenonT(40) DEF StreamInv, InOrder
<1>13. StreamStep
  <2>1. /\ accepted[cur] \in accepted[cur]..accepted'[cur]
        /\ Len(w) + taken \in Len(wire[cur])..accepted'[cur]
    BY <1>1, <1>2, <1>5, <1>11
  <2>2. accepted' = [accepted EXCEPT ![cur] = accepted[cur]]
    BY <1>1 DEF Inv, TypeOK
  <2>3. Stream!Transfer(cur)
    BY <1>1, <1>2, <1>10, <2>1, <2>2 DEF Stream!Transfer
  <2> QED
    BY <1>2, <2>3 DEF StreamStep, Stream!Next
<1>14. /\ sendFds' = (IF rest = <<>> THEN sendFds \ {cur} ELSE sendFds)
       /\ \A f \in sendFds' \ {cur} : Contiguous(f)'
       /\ \A f \in allFds' \ {cur} : sendq'[f] = <<>> => Len(wire'[f]) = accepted'[f]
  <2>1. sendFds' = (IF rest = <<>> THEN sendFds \ {cur} ELSE sendFds)
    BY <1>1 DEF Unblock
  <2>2. ASSUME NEW f \in sendFds' \ {cur}
        PROVE  Contiguous(f)'
    <3>1. f \in sendFds /\ f \in Fd \ {cur}
      BY <2>1, <2>2 DEF Inv, TypeOK
    <3>2. sendq'[f] = sendq[f] /\ wire'[f] = wire[f] /\ accepted' = accepted /\ gen' = gen
      BY <1>1, <1>10, <3>1
    <3> QED
      BY <3>1, <3>2 DEF StreamInv, Contiguous
  <2>3. \A f \in allFds' \ {cur} : sendq'[f] = <<>> => Len(wire'[f]) = accepted'[f]
    <3> TAKE f \in allFds' \ {cur}
    <3>1. f \in allFds /\ f \in Fd \ {cur}
      BY <1>1 DEF Inv, TypeOK
    <3>2. sendq'[f] = sendq[f] /\ wire'[f] = wire[f] /\ accepted' = accepted
      BY <1>1, <1>10, <3>1
    <3> QED
      BY <3>1, <3>2 DEF StreamInv
  <2> QED
    BY <2>1, <2>2, <2>3
<1>15. /\ rest # <<>> => Contiguous(cur)'
       /\ rest = <<>> => Len(wire'[cur]) = accepted'[cur]
  <2>1. CASE taken = n
    <3>1. /\ rest = Tail(q) /\ rest \in Seq(Blocked) /\ Len(rest) = m - 1
          /\ DOMAIN rest = 1..(m - 1) /\ \A i \in 1..(m - 1) : rest[i] = q[i + 1]
      BY <1>1, <1>3, <2>1, HeadTailProperties, LenProperties
    <3>2. Len(w) + taken = item.to
      <4>1. taken = item.to - item.from + 1
        BY <2>1
      <4> HIDE DEF w, item
      <4> QED
        BY <1>5, <1>8, <4>1, SMTT(30)
    <3>3. rest = <<>> => m = 1
      <4> HIDE DEF rest, m, q, item
      <4>1. rest = <<>> => Len(rest) = 0
        BY EmptySeq
      <4> QED
        BY <1>3, <3>1, <4>1
    <3>4. rest # <<>> => m - 1 \in 1..(m - 1) /\ (m - 1) + 1 = m
      BY <1>3, <3>1, EmptySeq
    <3> HIDE DEF rest, q, w, m, n, more, item, byte
    <3>5. \A i \in 1..(m - 1) :
            /\ i + 1 \in 1..m /\ i + 1 # 1 /\ (i + 1) - 1 = i
            /\ i # 1 => i - 1 \in 1..(m - 1) /\ (i - 1) + 1 = i
      BY <1>3
    <3>6. ASSUME NEW i \in 1..(m - 1)
          PROVE  /\ rest[i].gen = gen[cur] /\ rest[i].from <= rest[i].to
                 /\ rest[i].to <= accepted[cur]
                 /\ rest[i].from = (IF i = 1 THEN Len(wire'[cur]) ELSE rest[i - 1].to) + 1
      <4>1. rest[i] = q[i + 1] /\ i + 1 \in 1..m
        BY <3>1, <3>5
      <4>2. q[i + 1].from = q[i].to + 1
        BY <1>6, <3>5
      <4>3. i = 1 => q[i].to = Len(wire'[cur])
        BY <1>3, <1>10, <3>2
      <4>4. i # 1 => rest[i - 1] = q[(i - 1) + 1]
        BY <3>1, <3>5
      <4>5. i # 1 => rest[i - 1] = q[i]
        BY <3>5, <4>4
      <4>6. /\ q[i + 1].gen = gen[cur] /\ q[i + 1].from <= q[i + 1].to
            /\ q[i + 1].to <= accepted[cur]
        BY <1>6, <4>1
      <4> QED
        BY <4>1, <4>2, <4>3, <4>5, <4>6
    <3>7. rest # <<>> => rest[m - 1].to = accepted[cur]
      <4>1. rest # <<>> => rest[m - 1] = q[(m - 1) + 1]
        BY <3>1, <3>4
      <4>2. rest # <<>> => rest[m - 1] = q[m]
        BY <3>4, <4>1
      <4> QED
        BY <1>6, <4>2
    <3>8. rest # <<>> => Contiguous(cur)'
      <4>1. Len(rest) = m - 1 /\ DOMAIN rest = 1..(m - 1)
        BY <3>1
      <4>2. ASSUME rest # <<>>
            PROVE  /\ \A i \in DOMAIN rest :
                        /\ rest[i].gen = gen[cur] /\ rest[i].from <= rest[i].to
                        /\ rest[i].to <= accepted[cur]
                        /\ rest[i].from = (IF i = 1 THEN Len(wire'[cur]) ELSE rest[i - 1].to) + 1
                   /\ rest[Len(rest)].to = accepted[cur]
        BY <3>6, <3>7, <4>1, <4>2
      <4>3. sendq'[cur] = rest /\ gen' = gen /\ accepted' = accepted /\ cur' = cur
        BY <1>1, <1>10
      <4> QED
        BY <4>2, <4>3 DEF Contiguous
    <3>9. rest = <<>> => Len(wire'[cur]) = accepted'[cur]
      BY <1>1, <1>3, <1>6, <1>10, <3>2, <3>3
    <3> QED
      BY <3>8, <3>9
  <2>2. CASE taken # n
    <3> DEFINE first == [item EXCEPT !.from = item.from + taken]
    <3>1. rest = [q EXCEPT ![1] = first]
      BY <1>3, <2>2
    <3>2. /\ first.gen = item.gen /\ first.to = item.to /\ first.from = item.from + taken
      <4>1. item \in Blocked
        BY <1>3, <1>7
      <4> HIDE DEF item
      <4> QED
        BY <4>1 DEF Blocked
    <3>3. first.from <= first.to
      <4>1. taken <= item.to - item.from + 1 /\ taken # item.to - item.from + 1
        BY <1>1, <2>2
      <4> HIDE DEF item, first
      <4> QED
        BY <1>2, <1>8, <3>2, <4>1
    <3>4. DOMAIN rest = 1..m /\ rest[1] = first /\ \A i \in 1..m : i # 1 => rest[i] = q[i]
      BY <1>3, <1>7, <3>1
    <3>5. Len(rest) = m
      BY <1>3, <3>4
    <3>6. first.from = Len(wire'[cur]) + 1
      <4> HIDE DEF w, item, first
      <4> QED
        BY <1>2, <1>5, <1>8, <1>10, <3>2
    <3>7. \A i \in 1..m : i # 1 => i - 1 \in 1..m
      BY <1>3
    <3> HIDE DEF rest, q, w, m, n, more, item, byte, first
    <3>8. \A i \in 1..m : rest[i].to = q[i].to
      BY <1>3, <3>2, <3>4
    <3>9. ASSUME NEW i \in 1..m
          PROVE  /\ rest[i].gen = gen[cur] /\ rest[i].from <= rest[i].to
                 /\ rest[i].to <= accepted[cur]
                 /\ rest[i].from = (IF i = 1 THEN Len(wire'[cur]) ELSE rest[i - 1].to) + 1
      <4>1. CASE i = 1
        BY <1>3, <1>6, <1>7, <1>8, <3>2, <3>3, <3>4, <3>6, <4>1
      <4>2. CASE i # 1
        <5>1. rest[i] = q[i] /\ rest[i - 1].to = q[i - 1].to
          BY <3>4, <3>7, <3>8, <4>2
        <5> QED
          BY <1>6, <4>2, <5>1
      <4> QED
        BY <4>1, <4>2
    <3>10. rest[m].to = accepted[cur]
      BY <1>6, <1>7, <3>8
    <3>11. Contiguous(cur)'
      <4>1. /\ \A i \in DOMAIN rest :
                 /\ rest[i].gen = gen[cur] /\ rest[i].from <= rest[i].to
                 /\ rest[i].to <= accepted[cur]
                 /\ rest[i].from = (IF i = 1 THEN Len(wire'[cur]) ELSE rest[i - 1].to) + 1
            /\ rest[Len(rest)].to = accepted[cur]
        BY <3>4, <3>5, <3>9, <3>10
      <4>2. sendq'[cur] = rest /\ gen' = gen /\ accepted' = accepted /\ cur' = cur
        BY <1>1, <1>10
      <4> QED
        BY <4>1, <4>2 DEF Contiguous
    <3>12. rest # <<>>
      BY <1>3, <3>5
    <3> QED
      BY <3>11, <3>12
  <2> QED
    BY <2>1, <2>2
<1> HIDE DEF rest, q, w, m, n, more, item, byte
<1>16. \A f \in sendFds' : Contiguous(f)'
  <2> TAKE f \in sendFds'
  <2>1. CASE f = cur
    <3>1. rest # <<>>
      BY <1>14, <2>1
    <3> QED
      BY <1>1, <1>15, <2>1, <3>1 DEF Contiguous
  <2>2. CASE f # cur
    BY <1>14, <2>2
  <2> QED
    BY <2>1, <2>2
<1>17. \A f \in allFds' : sendq'[f] = <<>> => Len(wire'[f]) = accepted'[f]
  BY <1>10, <1>14, <1>15
<1> QED
  BY <1>12, <1>13, <1>16, <1>17 DEF StreamInv

-----------------------------------------------------------------------------

LEMMA StreamStepInv == Inv /\ StreamInv /\ [Next]_vars => StreamInv' /\ StreamStep
<1> SUFFICES ASSUME Inv, StreamInv, [Next]_vars PROVE StreamInv' /\ StreamStep
  OBVIOUS
<1>1. ASSUME NEW fd \in Fd, NEW n \in 1..MaxBytes, ClientSend(fd, n)
      PROVE  StreamInv' /\ StreamStep
  BY <1>1, SendStream
<1>2. ASSUME NEW fd \in Fd, NEW server \in BOOLEAN, ClientAdd(fd, server)
      PROVE  StreamInv' /\ StreamStep
  <2>1. AddFd(fd, server) /\ UNCHANGED sendq
    BY <1>2 DEF ClientAdd
  <2> QED
    BY <2>1, OpenStream
<1>3. ASSUME NEW fd \in Fd, AcceptOne(fd)
      PROVE  StreamInv' /\ StreamStep
  <2>1. AddFd(fd, FALSE) /\ UNCHANGED sendq
    BY <1>3 DEF AcceptOne
  <2> QED
    BY <2>1, OpenStream
<1>4. ASSUME NEW taken \in 0..MaxBytes, ResendOne(taken)
      PROVE  StreamInv' /\ StreamStep
  BY <1>4, ResendStream
<1>5. CASE EndRemove
  BY <1>5, CloseStream
<1>6. CASE \/ Select \/ ScanEnds \/ FailNext \/ ServerNext \/ SocketNext \/ ResendFails
           \/ RecvChunk \/ CallbackReturns \/ RecvFails \/ RecvEnds \/ AcceptEnds
           \/ CleanupNext \/ Quit \/ (\E fd \in Fd : ClientRemove(fd))
  <2>1. UNCHANGED <<setVars, sendq, streamVars>>
    BY <1>6 DEF Select, ScanEnds, FailNext, ServerNext, SocketNext, Advance, ResendFails, RecvChunk,
                CallbackReturns, RecvFails, RecvEnds, AcceptEnds, CleanupNext, Quit, ClientRemove
  <2> QED
    BY <2>1, QuietStream DEF setVars, streamVars
<1>7. CASE UNCHANGED vars
  BY <1>7, QuietStream DEF vars, setVars, streamVars
<1> QED
  BY <1>1, <1>2, <1>3, <1>4, <1>5, <1>6, <1>7 DEF Next, Client, Loop

(* Every connection is a reliable stream: no byte is lost, repeated, reordered or left
   over from the connection that used the descriptor before (sm_send, sm_resend,
   sm_remove_fd). *)
THEOREM SocketsImplementStreams == Spec => StreamsReliable
<1>1. Init => StreamInv /\ Stream!Init
  BY StreamInitInv
<1>2. Inv /\ StreamInv /\ [Next]_vars => StreamInv' /\ [Stream!Next]_<<allFds, accepted, wire>>
  BY StreamStepInv DEF StreamStep
<1>3. Spec => []Inv
  BY AlwaysInv
<1> QED
  BY <1>1, <1>2, <1>3, PTL DEF Spec, StreamsReliable, Stream!Spec
=============================================================================
