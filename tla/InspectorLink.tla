---------------------------- MODULE InspectorLink ----------------------------
(***************************************************************************)
(* The link to an inspector of webinspector.c.  A message is a plist of    *)
(* rpc.c, here a sequence of octets; a sender cuts it into packets, and a  *)
(* receiver collects it from them and hands the plist to rpc.c, which      *)
(* calls the proxy.  Both ends cut messages in the same way: the model     *)
(* sends with wi_send_plist and receives with wi_on_recv, the device being *)
(* the other end of each.                                                  *)
(***************************************************************************)
EXTENDS PacketReader, Rpc

CONSTANTS
  Messages,  \* the messages sent: sequences of octets
  Contents,  \* a sequence of what the octets of the messages may say: for every
             \* message its plist, and the calls that the device means by it
  MaxRpc,    \* MAX_RPC_LEN, the octets of a message that one packet holds
  MaxBody,   \* MAX_BODY_LENGTH, the length of a packet that is refused
  MaxSent    \* bound on the messages sent

ASSUME LinkAssumption ==
  /\ ~Inclusive /\ MaxSent \in Nat
  /\ MaxRpc \in Nat \ {0} /\ MaxBody \in Nat /\ MaxRpc < MaxBody
  /\ \A m \in Messages : m \in Seq(STRING) /\ m # <<>>

VARIABLES
  partials,  \* partials_supported: a device whose iOS is older than 11
  sent,      \* the messages given to send_plist
  broken,    \* sending has failed
  partial,   \* my->partial: what is collected of a message
  received,  \* the messages given to recv_plist
  failed,    \* why on_recv failed, which closes the inspector, or "no"
  content,   \* which of Contents holds
  calls      \* the calls that each message received makes, at most one

linkVars == <<partials, sent, broken, partial, received, failed, content, calls>>
vars == <<readerVars, linkVars>>

Init ==
  /\ ReaderInit
  /\ partials \in BOOLEAN
  /\ sent = <<>> /\ broken = FALSE
  /\ partial = <<>> /\ received = <<>> /\ failed = "no"
  /\ content \in DOMAIN Contents /\ calls = <<>>

-----------------------------------------------------------------------------
(* wi_send_plist *)

Data(m) == [i \in DOMAIN m |-> <<"data", m[i]>>]

(* A message of exactly MaxRpc octets is one final packet. *)
IsPartial(m, i) == Len(m) - i > MaxRpc

(* How often the loop runs: at least once, and again after a partial packet. *)
NumParts(m) == (Len(m) + MaxRpc - 1) \div MaxRpc

Part(m, i) ==
  IF IsPartial(m, i)
  THEN << <<"key", "partial">> >> \o Data(SubSeq(m, i + 1, i + MaxRpc))
  ELSE << <<"key", "final">> >> \o Data(SubSeq(m, i + 1, Len(m)))

Packets(m) ==
  IF partials
  THEN [k \in 1..NumParts(m) |-> Packet(Part(m, (k - 1) * MaxRpc))]
  ELSE << Packet(Data(m)) >>

(* The packets are sent one by one; a send that fails ends the loop with the
   message half sent, and the socket takes nothing afterwards. *)
SendPlist(m, taken) ==
  /\ ~broken /\ failed = "no" /\ Len(sent) < MaxSent
  /\ taken <= Len(Packets(m))
  /\ sent' = Append(sent, m)
  /\ wire' = wire \o FlattenSeq(SubSeq(Packets(m), 1, taken))
  /\ broken' = (taken < Len(Packets(m)))
  /\ UNCHANGED <<unread, reading, hasLength, bodyLength, partials, partial, received, failed,
                 content, calls>>

-----------------------------------------------------------------------------
(* wi_on_recv *)

OnRecv(n) == failed = "no" /\ Read(n) /\ UNCHANGED linkVars

(* Faulty: a packet of the greatest length is refused. *)
TooLongFromMax(n) == n >= MaxBody

TooLong(n) == n > MaxBody

LoopLength ==
  \/ LengthReady /\ ~TooLong(unread[1][2]) /\ TakeLength /\ UNCHANGED linkVars
  \/ /\ LengthReady /\ TooLong(unread[1][2])
     /\ unread' = SubSeq(unread, LengthOctets + 1, Len(unread))
     /\ reading' = FALSE /\ failed' = "length"
     /\ UNCHANGED <<wire, hasLength, bodyLength, partials, sent, broken, partial, received,
                    content, calls>>

Plain(octets) == [i \in DOMAIN octets |-> octets[i][2]]

(* Faulty: what was collected of a message stays. *)
CollectedAfterFinalKept(whole) == whole

CollectedAfterFinal(whole) == <<>>

(* The calls that messages make; libplist reads no plist from other octets. *)
Made == [c \in DOMAIN Contents |-> [m \in Messages |-> RecvPlist(Contents[c][m].plist)]]

CallsOf(octets) == IF octets \in Messages THEN Made[content][octets] ELSE RecvPlist(NoNode)

(* The handlers of the proxy that may fail: they send. *)
CanFail == {"applicationConnected", "applicationUpdated",
            "applicationSentListing", "applicationSentData"}

(* wi_parse_plist: a partial packet is collected; a final one, or a packet
   without partials, completes the message, which goes to rpc_recv_plist.  A
   message that is refused, or whose handler fails, closes the inspector. *)
LoopPacket(handled) ==
  /\ PacketReady
  /\ IF partials /\ Body[1] = <<"key", "partial">>
     THEN /\ TakePacket(TRUE)
          /\ partial' = partial \o Plain(Tail(Body))
          /\ UNCHANGED <<received, failed, calls>>
     ELSE LET whole == partial \o Plain(IF partials THEN Tail(Body) ELSE Body)
              made == CallsOf(whole)
              accepted == made # {} /\ (handled \/ \A call \in made : call.on \notin CanFail)
          IN  /\ TakePacket(accepted)
              /\ received' = Append(received, whole)
              /\ partial' = CollectedAfterFinal(whole)
              /\ failed' = IF accepted THEN failed ELSE "refused"
              /\ calls' = Append(calls, made)
  /\ UNCHANGED <<partials, sent, broken, content>>

LoopEnds == NeedMore /\ UNCHANGED linkVars

-----------------------------------------------------------------------------

RecvNext ==
  \/ \E n \in DOMAIN wire : OnRecv(n)
  \/ LoopLength
  \/ \E handled \in BOOLEAN : LoopPacket(handled)
  \/ LoopEnds

Next ==
  \/ \E m \in Messages : \E taken \in 0..Len(m) : SendPlist(m, taken)
  \/ RecvNext

Spec == Init /\ [][Next]_vars

FairSpec == Spec /\ WF_vars(RecvNext)

-----------------------------------------------------------------------------
(* Properties *)

(* What the receiver hands on are the messages that were sent, whole and in
   order, however they were cut into packets and the packets into reads, and
   up to the message whose sending failed (wi_send_plist, wi_parse_plist). *)
ReceivedWhole == IsPrefix(received, sent)

(* A length that the receiver refuses is that of a message too long for one
   packet, sent to a device that has no partial packets: the octets of a
   message are never taken for a length (wi_parse_length, wi_recv_loop). *)
FailsForLengthOnly ==
  failed = "length" => ~partials /\ \E k \in DOMAIN sent : Len(sent[k]) > MaxBody

(* The proxy is called for what the device meant, in the order in which it was
   sent: every message in order makes the call that its sender meant, one that is
   not in order makes none, and nothing is handed on after it (wi_recv_loop,
   rpc_recv_plist). *)
CallsAsMeant ==
  /\ calls = [k \in DOMAIN received |-> Contents[content][received[k]].meant]
  /\ \A k \in DOMAIN calls : calls[k] = {} => k = Len(calls) /\ failed = "refused"

(* A listing that reaches the proxy names a page twice only under two keys that
   spell one number, as "1" and "0x1" do for strtol.  Such a listing would give one
   page two numbers and two clients: iwdp_on_applicationSentListing looks for a page
   among those of earlier listings only, and relies on rpc_parse_pages, which
   compares each page with its own key and no key with another. *)
ListedOnce ==
  \A k \in DOMAIN calls : \A call \in calls[k] :
    call.on = "applicationSentListing" =>
      \A i, j \in DOMAIN call.pages :
        call.pages[i].id = call.pages[j].id => Number[i] = Number[j]

(* A message whose packets were all sent is received, without waiting for
   another one to come (wi_recv_loop). *)
SentIsReceived ==
  \A k \in 1..MaxSent :
    Len(sent) >= k /\ ~broken ~> Len(received) >= k \/ failed # "no"
=============================================================================
