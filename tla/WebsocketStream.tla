--------------------------- MODULE WebsocketStream ---------------------------
(***************************************************************************)
(* The receive side of websocket.c on octets: ws_on_recv is given whatever *)
(* a read of the socket returned, the char_buffer keeps what cannot be     *)
(* parsed yet, and ws_recv_loop finds requests and frames in it.  It       *)
(* implements module Websocket, which takes a unit at a time: where the    *)
(* reads split the client's octets makes no difference.                    *)
(*                                                                         *)
(* An octet is a tuple that starts with its role.  A line of a request is  *)
(* one octet, its line end ("crlf") another; the mask is MaskOctets long   *)
(* and an extended length ExtOctets long (4, and 2 or 8, in the code).     *)
(***************************************************************************)
EXTENDS Websocket, Integers

CONSTANTS MaskOctets, ExtOctets

ASSUME StreamAssumption == MaskOctets \in Nat \ {0} /\ ExtOctets \in Nat \ {0}

VARIABLES
  wire,    \* octets the client sent that no read has returned yet
  kept,    \* octets in the char_buffer
  input,   \* octets the parser has not consumed: in_head to in_tail
  shared,  \* the parser works on the caller's buffer, not on the char_buffer
  pc,      \* "idle", "loop" or "end" of ws_on_recv
  needed,  \* my->needed_length
  length   \* my->frame_length

streamVars == <<wire, kept, input, shared, pc, needed, length>>
allVars == <<vars, streamVars>>

-----------------------------------------------------------------------------
(* The octets of a unit *)

Crlf == <<"crlf">>

RequestOctets(r) ==
  << <<"line", r.resource>>, Crlf >>
  \o (IF r.upgrade THEN << <<"header", "upgrade">>, Crlf >> ELSE <<>>)
  \o (IF r.key THEN << <<"header", "key">>, Crlf >> ELSE <<>>)
  \o << Crlf >>

Extended == MaxShort + 1   \* stands for the length codes 126 and 127

Code(n) == IF n > MaxShort THEN Extended ELSE n

FrameOctets(f) ==
  LET n == Len(f.payload) IN
  << <<"first", f.op, f.fin>>, <<"second", f.mask # "none", Code(n)>> >>
  \o (IF n > MaxShort THEN [i \in 1..ExtOctets |-> <<"length", n>>] ELSE <<>>)
  \o (IF f.mask # "none" THEN [i \in 1..MaskOctets |-> <<"mask", f.mask>>] ELSE <<>>)
  \o [i \in 1..n |-> <<"data", f.payload[i], f.mask>>]

Octets(u) == IF u \in Requests THEN RequestOctets(u) ELSE FrameOctets(u)

-----------------------------------------------------------------------------
(* The char_buffer *)

(* Faulty: the caller's buffer is used although octets are kept. *)
BeginInputShared(chunk) ==
  /\ shared' = TRUE
  /\ kept' = kept
  /\ input' = kept \o chunk

(* The caller's buffer is used as it is when nothing is kept; otherwise its
   octets are copied behind those kept. *)
BeginInput(chunk) ==
  /\ shared' = (kept = <<>>)
  /\ kept' = IF kept = <<>> THEN <<>> ELSE kept \o chunk
  /\ input' = kept \o chunk

(* What the parser left stays in the char_buffer. *)
EndInput ==
  /\ pc = "end"
  /\ kept' = IF shared THEN kept \o input
             ELSE SubSeq(kept, Len(kept) - Len(input) + 1, Len(kept))
  /\ input' = <<>> /\ shared' = FALSE /\ pc' = "idle"
  /\ UNCHANGED <<vars, wire, needed, length>>

OnRecv(n) ==
  /\ pc = "idle" /\ ~Dead /\ n \in DOMAIN wire
  /\ BeginInput(SubSeq(wire, 1, n))
  /\ wire' = SubSeq(wire, n + 1, Len(wire))
  /\ pc' = "loop"
  /\ UNCHANGED <<vars, needed, length>>

-----------------------------------------------------------------------------
(* ws_recv_loop: a handler consumes octets and the loop goes on, unless the
   connection ended or no octets are left; or it needs more input. *)

Skip(n) == SubSeq(input, n + 1, Len(input))

Consume(n) ==
  /\ input' = Skip(n)
  /\ pc' = IF ws'.state \in {"closed", "error"} \/ input' = <<>> THEN "end" ELSE "loop"
  /\ UNCHANGED <<wire, kept, shared>>

(* Faulty: a unit that is not whole is an error. *)
NeedMoreFails ==
  /\ pc' = "end" /\ Fail
  /\ UNCHANGED <<sent, handled, page, out, forwarded, data, wire, kept, input, shared>>

NeedMore ==
  /\ pc' = "end"
  /\ UNCHANGED <<vars, wire, kept, input, shared>>

(* strnstr: where a line end, or an empty line, starts. *)
Crlfs == {i \in DOMAIN input : input[i] = Crlf}
First(S) == CHOOSE i \in S : \A j \in S : i <= j

RequestLine == input[First(Crlfs) - 1][2]

(* The line end of the request stays, for a request without headers. *)
LoopRequest ==
  /\ ws.state = "request" /\ UNCHANGED <<needed, length>>
  /\ \/ Crlfs = {} /\ NeedMore
     \/ /\ Crlfs # {}
        /\ RecvRequest([resource |-> RequestLine])
        /\ Consume(First(Crlfs) - 1)

(* Faulty: the end of the request line does not count as a line end. *)
EmptyLinesAfterLine == {i \in Crlfs : i > 1 /\ i + 1 \in Crlfs}

EmptyLines == {i \in Crlfs : i + 1 \in Crlfs}

Headers == {input[i][2] : i \in {j \in 1..First(EmptyLines) : input[j][1] = "header"}}

LoopHeaders ==
  /\ ws.state = "headers" /\ UNCHANGED <<needed, length>>
  /\ \/ EmptyLines = {} /\ NeedMore
     \/ /\ EmptyLines # {}
        /\ LET r == [resource |-> ws.resource, upgrade |-> "upgrade" \in Headers,
                     key |-> "key" \in Headers]
           IN  \E b, sends \in BOOLEAN :
                 PlainRequest(r, b, sends) \/ UpgradeRequest(r, b, sends)
        /\ Consume(First(EmptyLines) + 1)

-----------------------------------------------------------------------------
(* Frames *)

Masked == input[2][2]
ExtLength == IF input[2][3] = Extended THEN ExtOctets ELSE 0
MaskLength == IF Masked THEN MaskOctets ELSE 0
PayloadLength == IF ExtLength = 0 THEN input[2][3] ELSE input[3][2]

(* ws_read_frame_length looks at the first two octets for errors, before the
   rest of the frame is there. *)
LoopFrameLength ==
  /\ ws.state = "length"
  /\ \/ /\ Len(input) < 2
        /\ needed' = 2 /\ length' = 0 /\ NeedMore
     \/ /\ Len(input) >= 2
        /\ InvalidStart(input[1][2], input[1][3], input[2][3] = Extended)
        /\ Fail /\ needed' = 0 /\ length' = 0
        /\ UNCHANGED <<sent, handled, page, out, forwarded, data>>
        /\ Consume(0)
     \/ /\ Len(input) >= 2
        /\ ~InvalidStart(input[1][2], input[1][3], input[2][3] = Extended)
        /\ IF Len(input) < 2 + ExtLength
           THEN needed' = 2 + ExtLength /\ length' = 0 /\ NeedMore
           ELSE /\ needed' = 0
                /\ length' = 2 + ExtLength + MaskLength + PayloadLength
                /\ ws' = [ws EXCEPT !.state = "frame"]
                /\ UNCHANGED <<sent, handled, page, out, forwarded, data>>
                /\ Consume(0)

(* The payload is what is left of frame_length; each of its octets is
   unmasked with the mask that came before. *)
FrameRead ==
  LET at == 2 + ExtLength + MaskLength
      mask == IF Masked THEN input[at][2] ELSE "none"
      plain(o) == IF o[1] = "data" /\ o[3] = mask THEN o[2] ELSE 255
  IN  [op |-> input[1][2], fin |-> input[1][3], mask |-> mask,
       payload |-> [i \in 1..(length - at) |-> plain(input[at + i])]]

ShortOfFrame == needed # 0 \/ length = 0 \/ Len(input) < length

LoopFrame ==
  /\ ws.state = "frame" /\ UNCHANGED <<needed, length>>
  /\ \/ ShortOfFrame /\ NeedMore
     \/ ~ShortOfFrame /\ FrameNext(FrameRead) /\ Consume(length)

-----------------------------------------------------------------------------

StreamInit ==
  /\ Init
  /\ wire = <<>> /\ kept = <<>> /\ input = <<>> /\ shared = FALSE
  /\ pc = "idle" /\ needed = 0 /\ length = 0

Loop == pc = "loop" /\ (LoopRequest \/ LoopHeaders \/ LoopFrameLength \/ LoopFrame)

Network(u) ==
  /\ ClientSends(u)
  /\ wire' = wire \o Octets(u)
  /\ UNCHANGED <<kept, input, shared, pc, needed, length>>

StreamNext ==
  \/ \E u \in Requests \cup Frames : Network(u)
  \/ \E n \in DOMAIN wire : OnRecv(n)
  \/ Loop
  \/ EndInput
  \/ pc = "idle" /\ InspectorNext /\ UNCHANGED streamVars

StreamSpec == StreamInit /\ [][StreamNext]_allVars

-----------------------------------------------------------------------------
(* Properties *)

W == INSTANCE Websocket WITH
       ws <- [ws EXCEPT !.state = IF @ = "frame" THEN "length" ELSE @]

(* Wherever the reads split the client's octets, and however many units one
   read returns, the connection does what it would do given one whole unit
   after another (ws_on_recv, ws_recv_loop, cb_begin_input, cb_end_input). *)
ChunksDoNotMatter == W!Spec

(* The parser works either on the caller's buffer, with nothing in the
   char_buffer, or on the last octets of the char_buffer (cb_begin_input). *)
StreamTypeOK ==
  /\ pc \in {"idle", "loop", "end"} /\ shared \in BOOLEAN
  /\ pc = "idle" => input = <<>> /\ ~shared
  /\ IF shared THEN kept = <<>> ELSE IsSuffix(input, kept)
  /\ needed \in 0..(2 + ExtOctets) /\ length \in Nat

(* A unit that is whole does not wait in the buffer for the next read: between
   reads the buffer of an open connection holds less than the next unit. *)
NothingWaits ==
  pc = "idle" /\ ~Dead /\ handled < Len(sent)
  => LET rest == Len(Octets(sent[handled + 1])) - (IF ws.state = "headers" THEN 1 ELSE 0)
     IN  Len(kept) < rest
==============================================================================
