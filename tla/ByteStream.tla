----------------------------- MODULE ByteStream -----------------------------
(***************************************************************************)
(* What the socket manager promises of the bytes its client sends on a     *)
(* socket: every connection is a reliable stream.  The bytes of a          *)
(* connection are numbered 1, 2, ... as the client hands them over; wire   *)
(* is what the kernel has been given, and it is always an initial part of  *)
(* them, whatever connection used the same descriptor before.              *)
(***************************************************************************)
EXTENDS Integers, Sequences

CONSTANT Socket   \* descriptors, used by one connection after the other

VARIABLES
  open,       \* the sockets that have a connection
  accepted,   \* how many bytes the client has handed over, by socket
  wire        \* the bytes given to the kernel, in order, by socket

Init ==
  /\ open \subseteq Socket
  /\ accepted = [s \in Socket |-> 0]
  /\ wire = [s \in Socket |-> <<>>]

Open(s) ==
  /\ s \notin open
  /\ open' = open \cup {s}
  /\ accepted' = [accepted EXCEPT ![s] = 0]
  /\ wire' = [wire EXCEPT ![s] = <<>>]

(* The client hands over bytes, the kernel is given bytes, or both; the bytes
   that the kernel does not take now are kept for later. *)
Transfer(s) ==
  /\ s \in open
  /\ \E n \in accepted[s]..accepted'[s] : accepted' = [accepted EXCEPT ![s] = n]
  /\ \E n \in Len(wire[s])..accepted'[s] :
       wire' = [wire EXCEPT ![s] = [k \in 1..n |-> k]]
  /\ UNCHANGED open

(* A connection may close at any time, and its unsent bytes with it. *)
Close(s) ==
  /\ s \in open
  /\ open' = open \ {s}
  /\ UNCHANGED <<accepted, wire>>

Next == \E s \in Socket : Open(s) \/ Transfer(s) \/ Close(s)

Spec == Init /\ [][Next]_<<open, accepted, wire>>
=============================================================================
