----------------------------- MODULE Websocket -----------------------------
(***************************************************************************)
(* One browser connection of websocket.c with the callbacks that           *)
(* ios_webkit_debug_proxy.c gives it: HTTP requests, the upgrade, then     *)
(* frames in both directions.  The client's input is a sequence of units,  *)
(* whole requests and whole frames; module WebsocketStream adds the        *)
(* octets, the reads that split them anywhere, and the receive buffer.     *)
(*                                                                         *)
(* A connection whose state is "closed" or "error" makes on_recv fail, and *)
(* the socket manager then closes the socket.                              *)
(***************************************************************************)
EXTENDS Naturals, Sequences, SequencesExt, Utf8

CONSTANTS
  Requests,  \* the HTTP requests a client may send
  Frames,    \* the frames a client may send
  Texts,     \* the payloads the inspector sends
  MaxShort,  \* longest payload of a control frame, 125 in the code
  MaxUnits,  \* bound on the units the client sends
  MaxAhead,  \* bound on those of them that wait to be handled
  MaxData    \* bound on the payloads the inspector sends

Control == {"close", "ping", "pong"}
Opcode == {"cont", "text", "binary", "unknown"} \cup Control
Resource == {"list", "static", "page", "malformed"}

Request == [resource: Resource, upgrade: BOOLEAN, key: BOOLEAN]
Frame == [op: Opcode, fin: BOOLEAN, mask: {"none", "zero", "key"}, payload: Seq(Octet)]

ASSUME WebsocketAssumption ==
  /\ Requests \subseteq Request /\ Frames \subseteq Frame
  /\ Texts \subseteq Seq(Octet)
  /\ MaxShort \in Nat /\ MaxUnits \in Nat /\ MaxAhead \in Nat /\ MaxData \in Nat

VARIABLES
  sent,       \* the units the client sent
  handled,    \* how many of them have been handled
  ws,         \* the connection
  page,       \* the page of its client: "never" had one, "held" or "lost"
  out,        \* what the connection sent: HTTP answers, the upgrade, frames
  forwarded,  \* the messages given to the inspector, and the last unit of each
  data        \* how many payloads the inspector sent

vars == <<sent, handled, ws, page, out, forwarded, data>>

Http == [what |-> "http", op |-> "none", fin |-> TRUE, data |-> <<>>]
Upgrade == [what |-> "upgrade", op |-> "none", fin |-> TRUE, data |-> <<>>]
FrameOut(op, payload) == [what |-> "frame", op |-> op, fin |-> TRUE, data |-> payload]

Init ==
  /\ sent = <<>> /\ handled = 0
  /\ ws = [state |-> "request", resource |-> "none", key |-> FALSE,
           continued |-> "none", data |-> <<>>, sentClose |-> FALSE]
  /\ page = "never" /\ out = <<>> /\ forwarded = <<>> /\ data = 0

Dead == ws.state \in {"closed", "error"}
Upgraded == ws.state \in {"length", "frame"}   \* "frame": its length is known
Fail == ws' = [ws EXCEPT !.state = "error"]

-----------------------------------------------------------------------------
(* A browser asks for one thing at a time, upgrades once and sends frames
   when the upgrade has been answered. *)

ClientSends(u) ==
  /\ Len(sent) < MaxUnits /\ Len(sent) - handled < MaxAhead
  /\ \/ u \in Requests /\ \A n \in DOMAIN sent : sent[n] \in Requests /\ ~sent[n].upgrade
     \/ u \in Frames /\ \E n \in DOMAIN out : out[n] = Upgrade
  /\ sent' = Append(sent, u)
  /\ UNCHANGED <<handled, ws, page, out, forwarded, data>>

-----------------------------------------------------------------------------
(* Requests *)

RecvRequest(r) ==
  /\ ws.state = "request"
  /\ IF r.resource = "malformed" THEN Fail
     ELSE ws' = [ws EXCEPT !.state = "headers", !.resource = r.resource]
  /\ UNCHANGED <<sent, handled, page, out, forwarded, data>>

(* The key of an earlier request stays with the connection. *)
IsWebsocket(r) == r.upgrade /\ (r.key \/ ws.key)

(* A plain request is answered and the connection closes, except that a file
   fetched from a remote frontend (remote) arrives later and keeps it open. *)
PlainRequest(r, remote, sends) ==
  /\ ws.state = "headers" /\ ~IsWebsocket(r)
  /\ remote => r.resource \in {"static", "page"}
  /\ handled' = handled + 1
  /\ ws' = [ws EXCEPT !.key = @ \/ r.key,
                      !.state = IF ~sends THEN "error"
                                ELSE IF remote THEN "request" ELSE "closed"]
  /\ out' = IF sends /\ ~remote THEN Append(out, Http) ELSE out
  /\ UNCHANGED <<sent, page, forwarded, data>>

(* Faulty: the page is looked up after the upgrade. *)
AnswerLate(found) == <<Upgrade>> \o (IF found THEN <<>> ELSE <<Http>>)

(* An upgrade goes ahead even if its page is not found and that was the
   answer to the request. *)
Answer(found) == (IF found THEN <<>> ELSE <<Http>>) \o <<Upgrade>>

UpgradeRequest(r, found, sends) ==
  /\ ws.state = "headers" /\ IsWebsocket(r)
  /\ found => r.resource = "page"
  /\ handled' = handled + 1
  /\ ws' = [ws EXCEPT !.key = TRUE, !.state = IF sends THEN "length" ELSE "error"]
  /\ page' = IF found THEN "held" ELSE page
  /\ out' = IF sends THEN out \o Answer(found) ELSE out
  /\ UNCHANGED <<sent, forwarded, data>>

-----------------------------------------------------------------------------
(* Sending a frame *)

(* A data frame sent while the client is within a message counts as a
   continuation: continued_opcode belongs to both directions. *)
WireOp(op) == IF op \notin Control /\ ws.continued # "none" THEN "cont" ELSE op

(* Faulty: a frame may follow the close frame. *)
CanSendAfterClose(op, payload) ==
  /\ op \in Control => Len(payload) <= MaxShort
  /\ op \notin Control /\ ws.continued # "none" => op = ws.continued
  /\ WireOp(op) = "text" => ~Rejects(payload)

CanSend(op, payload) ==
  /\ ~ws.sentClose
  /\ op \in Control => Len(payload) <= MaxShort
  /\ op \notin Control /\ ws.continued # "none" => op = ws.continued
  /\ WireOp(op) = "text" => ~Rejects(payload)

-----------------------------------------------------------------------------
(* Frames *)

(* Faulty: a data frame may interrupt a message. *)
InvalidStartLoose(op, fin, long) ==
  \/ op = "unknown"
  \/ op \in Control /\ (~fin \/ long)
  \/ op = "cont" /\ ws.continued = "none"

InvalidStart(op, fin, long) ==
  \/ op = "unknown"
  \/ op \in Control /\ (~fin \/ long)
  \/ op = "cont" /\ ws.continued = "none"
  \/ op \notin Control \cup {"cont"} /\ ws.continued # "none"

Meaning(f) == IF f.op = "cont" THEN ws.continued ELSE f.op

(* Faulty: only the first frame of a text is scanned. *)
InvalidFirst(f) == f.op = "text" /\ Rejects(f.payload)

(* Faulty: the last octet must end a character. *)
InvalidUnfinished(f) ==
  Meaning(f) = "text" /\ FoldLeft(validate_utf8, "S0", f.payload) # "S0"

(* Each frame of a text is scanned by itself. *)
InvalidPayload(f) == Meaning(f) = "text" /\ Rejects(f.payload)

Valid(f) ==
  /\ Upgraded
  /\ ~InvalidStart(f.op, f.fin, Len(f.payload) > MaxShort)
  /\ ~InvalidPayload(f)

(* The payload is appended to what the connection holds of earlier fragments,
   that of a control frame as well. *)
Gathered(f) == ws.data \o f.payload

(* Faulty: what was handled stays in the buffer. *)
AfterUncleared(f) ==
  [ws EXCEPT !.state = IF Meaning(f) = "close" THEN "closed" ELSE "length",
             !.data = Gathered(f),
             !.continued = IF f.fin THEN "none" ELSE Meaning(f)]

(* The last frame of a message, or a control frame, ends what is held. *)
After(f) ==
  [ws EXCEPT !.state = IF Meaning(f) = "close" THEN "closed" ELSE "length",
             !.data = IF f.fin THEN <<>> ELSE Gathered(f),
             !.continued = IF f.fin THEN "none" ELSE Meaning(f)]

Reply(f, op, payload, sends) ==
  /\ IF CanSend(op, payload) /\ sends
     THEN /\ ws' = [After(f) EXCEPT !.sentClose = @ \/ op = "close"]
          /\ out' = Append(out, FrameOut(op, payload))
     ELSE Fail /\ UNCHANGED out
  /\ handled' = handled + 1
  /\ UNCHANGED <<sent, page, forwarded, data>>

RefuseFrame(f) ==
  /\ Upgraded /\ ~Valid(f)
  /\ Fail
  /\ UNCHANGED <<sent, handled, page, out, forwarded, data>>

RecvFragment(f) ==
  /\ Valid(f) /\ f.op \notin Control /\ ~f.fin
  /\ ws' = After(f)
  /\ handled' = handled + 1
  /\ UNCHANGED <<sent, page, out, forwarded, data>>

(* A mask of four zeros counts as none. *)
Acceptable(f) == f.mask = "key" /\ page = "held"

RejectMessage(f, sends) ==
  /\ Valid(f) /\ f.op \notin Control /\ f.fin /\ ~Acceptable(f)
  /\ Reply(f, "close", <<>>, sends)

ForwardMessage(f, sends) ==
  /\ Valid(f) /\ f.op \notin Control /\ f.fin /\ Acceptable(f)
  /\ IF sends
     THEN /\ ws' = After(f)
          /\ forwarded' = Append(forwarded, [data |-> Gathered(f), last |-> handled + 1])
     ELSE Fail /\ UNCHANGED forwarded
  /\ handled' = handled + 1
  /\ UNCHANGED <<sent, page, out, data>>

RecvControl(f, sends) ==
  /\ Valid(f) /\ f.op \in Control
  /\ \/ f.op = "close" /\ Reply(f, "close", <<>>, sends)
     \/ f.op = "ping" /\ Reply(f, "pong", Gathered(f), sends)
     \/ /\ f.op = "pong"
        /\ ws' = After(f) /\ handled' = handled + 1
        /\ UNCHANGED <<sent, page, out, forwarded, data>>

-----------------------------------------------------------------------------
(* The inspector *)

(* iwdp_on_applicationSentData: a payload that cannot be sent closes the
   inspector and with it this connection. *)
InspectorSends(payload, sends) ==
  /\ Upgraded /\ page # "never" /\ data < MaxData
  /\ data' = data + 1
  /\ IF CanSend("text", payload) /\ sends
     THEN out' = Append(out, FrameOut(WireOp("text"), payload)) /\ UNCHANGED ws
     ELSE Fail /\ UNCHANGED out
  /\ UNCHANGED <<sent, handled, page, forwarded>>

PageLost ==
  /\ Upgraded /\ page = "held"
  /\ page' = "lost"
  /\ UNCHANGED <<sent, handled, ws, out, forwarded, data>>

-----------------------------------------------------------------------------

RequestNext(r) ==
  \/ RecvRequest(r)
  \/ \E remote, sends \in BOOLEAN : PlainRequest(r, remote, sends)
  \/ \E found, sends \in BOOLEAN : UpgradeRequest(r, found, sends)

FrameNext(f) ==
  \/ RefuseFrame(f)
  \/ RecvFragment(f)
  \/ \E sends \in BOOLEAN :
       RejectMessage(f, sends) \/ ForwardMessage(f, sends) \/ RecvControl(f, sends)

RecvUnit(u) ==
  \/ ws.state \in {"request", "headers"} /\ RequestNext(u)
  \/ Upgraded /\ FrameNext(u)

InspectorNext ==
  \/ \E payload \in Texts, sends \in BOOLEAN : InspectorSends(payload, sends)
  \/ PageLost

Next ==
  \/ \E u \in Requests \cup Frames : ClientSends(u)
  \/ handled < Len(sent) /\ RecvUnit(sent[handled + 1])
  \/ InspectorNext

Spec == Init /\ [][Next]_vars

-----------------------------------------------------------------------------
(* Properties *)

(* The fragments sent[first..last] are one message of the client. *)
IsMessage(first, last) ==
  /\ sent[first].op \in {"text", "binary"}
  /\ sent[last].fin
  /\ \A n \in first..last : n < last => ~sent[n].fin
  /\ \A n \in first..last : n > first => sent[n].op = "cont"

(* What reaches the inspector is one whole message of the client, its
   fragments joined in order with nothing missing and nothing of a control
   frame in it, and no two messages share a fragment
   (ws_recv_frame, iwdp_on_frame). *)
ForwardedWhole ==
  \A k \in DOMAIN forwarded :
    LET last == forwarded[k].last IN
    \E first \in 1..last :
      /\ sent[first] \in Frames /\ sent[last] \in Frames
      /\ \A n \in first..last : sent[n] \in Frames
      /\ IsMessage(first, last)
      /\ k > 1 => forwarded[k - 1].last < first
      /\ forwarded[k].data =
           FlattenSeq([n \in 1..(last - first + 1) |-> sent[first + n - 1].payload])

(* Of a text, only frames that are UTF-8 up to an unfinished character at their end
   reach the inspector, its continuations included, and only such texts of the
   inspector reach the client (ws_read_frame, ws_send_frame). *)
TextWithinUtf8 ==
  /\ \A k \in DOMAIN forwarded, n \in DOMAIN sent :
       /\ n <= forwarded[k].last /\ \A j \in n..forwarded[k].last : sent[j] \in Frames
       /\ sent[n].op = "text" /\ \A j \in (n + 1)..forwarded[k].last : sent[j].op = "cont"
       => \A j \in n..forwarded[k].last : StartsText(sent[j].payload)
  /\ \A n \in DOMAIN out : out[n].op = "text" => StartsText(out[n].data)

(* A frame is not refused for its payload when that is UTF-8, or would be with more
   octets after it (ws_read_frame). *)
TextTaken ==
  \A f \in Frames :
    /\ handled < Len(sent) /\ sent[handled + 1] = f /\ Upgraded
    /\ ~InvalidStart(f.op, f.fin, Len(f.payload) > MaxShort)
    /\ StartsText(f.payload) /\ ws' # ws /\ data' = data
    => handled' = handled + 1

(* A text that is UTF-8 is taken, whatever else the two sides do (ws_read_frame). *)
Utf8IsTaken == [][TextTaken]_vars

(* A close frame is the last thing a connection sends, whichever side wanted
   to close and whatever the inspector still has to say (ws_send_frame). *)
ClosedLast ==
  \A n \in DOMAIN out : out[n].op = "close" => n = Len(out)

(* The connection speaks HTTP before its upgrade and frames after it, and
   upgrades once, over kept-alive requests too (ws_recv_headers). *)
FramesAfterUpgrade ==
  \A n \in DOMAIN out :
    /\ out[n].what = "frame" => \E k \in 1..(n - 1) : out[k] = Upgrade
    /\ out[n] = Upgrade => \A k \in DOMAIN out : k > n => out[k].what = "frame"

(* A ping is answered with its own payload, unless it interrupted a
   fragmented message; then the answer starts with what was held of it. *)
PingEchoed ==
  \A f \in Frames :
    /\ handled' = handled + 1 /\ sent[handled'] = f /\ f.op = "ping"
    /\ Len(out') > Len(out)
    => \/ out'[Len(out')].data = f.payload
       \/ ws.continued # "none"

(* Pings are echoed, before and after any other traffic (iwdp_on_frame). *)
PongsEcho == [][PingEchoed]_vars
=============================================================================
