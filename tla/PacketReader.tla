---------------------------- MODULE PacketReader ----------------------------
(***************************************************************************)
(* The receive loop that webinspector.c and device_listener.c share in     *)
(* form: packets that start with their length arrive over a stream socket, *)
(* in reads that may end anywhere, and are handled one by one.             *)
(*                                                                         *)
(* One read is several steps: it appends to the unread octets, the loop    *)
(* takes whole packets from their front, and what is left stays for the    *)
(* next read.  (How the char_buffer keeps it is in WebsocketStream.)       *)
(***************************************************************************)
EXTENDS Naturals, Sequences, SequencesExt

CONSTANTS
  LengthOctets,  \* octets of the length field, 4 in the code
  Inclusive      \* whether the length counts its own octets (device_listener)

ASSUME PacketAssumption == LengthOctets \in Nat \ {0} /\ Inclusive \in BOOLEAN

VARIABLES
  wire,        \* octets sent to the reader that no read has returned yet
  unread,      \* octets read and not yet handled
  reading,     \* a read is being handled
  hasLength,   \* has_length
  bodyLength   \* body_length

readerVars == <<wire, unread, reading, hasLength, bodyLength>>

(* An octet starts with its role; each one of a length field holds the length. *)
Packet(body) ==
  LET n == Len(body) + (IF Inclusive THEN LengthOctets ELSE 0)
  IN  [i \in 1..LengthOctets |-> <<"length", n>>] \o body

ReaderInit ==
  /\ wire = <<>> /\ unread = <<>> /\ reading = FALSE
  /\ hasLength = FALSE /\ bodyLength = 0

Read(n) ==
  /\ ~reading /\ n \in DOMAIN wire
  /\ unread' = unread \o SubSeq(wire, 1, n)
  /\ wire' = SubSeq(wire, n + 1, Len(wire))
  /\ reading' = TRUE
  /\ UNCHANGED <<hasLength, bodyLength>>

LengthReady == reading /\ ~hasLength /\ Len(unread) >= LengthOctets

(* The length stays in front of the packet. *)
TakeLength ==
  /\ LengthReady
  /\ bodyLength' = unread[1][2] /\ hasLength' = TRUE
  /\ UNCHANGED <<wire, unread, reading>>

Total == bodyLength + (IF Inclusive THEN 0 ELSE LengthOctets)

PacketReady == reading /\ hasLength /\ Len(unread) >= Total

Body == SubSeq(unread, LengthOctets + 1, Total)

(* Faulty: a read handles one packet. *)
TakeOnePacket(ok) ==
  /\ PacketReady
  /\ unread' = SubSeq(unread, Total + 1, Len(unread))
  /\ hasLength' = FALSE /\ bodyLength' = 0
  /\ reading' = FALSE
  /\ UNCHANGED wire

(* A packet that is refused ends the loop. *)
TakePacket(ok) ==
  /\ PacketReady
  /\ unread' = SubSeq(unread, Total + 1, Len(unread))
  /\ hasLength' = FALSE /\ bodyLength' = 0
  /\ reading' = ok
  /\ UNCHANGED wire

NeedMore ==
  /\ reading /\ ~LengthReady /\ ~PacketReady
  /\ reading' = FALSE
  /\ UNCHANGED <<wire, unread, hasLength, bodyLength>>

=============================================================================
