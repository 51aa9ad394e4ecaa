--------------------------- MODULE DeviceListener ---------------------------
(***************************************************************************)
(* device_listener.c: the subscription to usbmuxd, which tells of devices  *)
(* by number.  The listener keeps which device has which number, in a hash *)
(* table, and calls on_attach and on_detach of the proxy, whose open ports *)
(* are "served".                                                           *)
(*                                                                         *)
(* usbmuxd is external: a device may have several numbers at a time (one   *)
(* per connection), numbers are not used again, and its messages arrive in *)
(* order.  Messages that the code does not expect of it are counted, odd.  *)
(***************************************************************************)
EXTENDS PacketReader, HashTable

CONSTANTS
  Serial,   \* serial numbers of devices
  Long,     \* the ones of 24 characters
  MaxNum,   \* bound on the numbers usbmuxd gives out
  MaxOdd    \* bound on the unexpected messages

ASSUME ListenerAssumption ==
  /\ Inclusive /\ Long \subseteq Serial /\ Null \notin Serial
  /\ MaxNum \in Nat /\ MaxOdd \in Nat /\ 0..(MaxNum + 1) \subseteq Key

VARIABLES
  plugged,   \* usbmuxd: from the numbers of connected devices to their serials
  lastNum,   \* usbmuxd: the last number given out
  odd,       \* usbmuxd: how many unexpected messages it has sent
  listener,  \* the connection: "off", "up" or "down"
  table,     \* device_num_to_device_id, a hash table
  served     \* the device_ids that have an open port

usbmuxdVars == <<plugged, lastNum, odd>>
listenerVars == <<listener, table, served>>
vars == <<readerVars, usbmuxdVars, listenerVars>>

Init ==
  /\ ReaderInit
  /\ plugged = <<>> /\ lastNum = 0 /\ odd = 0
  /\ listener = "off" /\ table = New /\ served = {}

-----------------------------------------------------------------------------
(* usbmuxd *)

Message(type, num, serial) == [type |-> type, num |-> num, serial |-> serial]

(* Packets have different lengths. *)
PacketOf(m) ==
  Packet([i \in 1..(IF m.type = "Attached" THEN 2 ELSE 1) |-> <<"data", m>>])

Tell(messages) ==
  wire' = IF listener = "up"
          THEN wire \o FlattenSeq([i \in DOMAIN messages |-> PacketOf(messages[i])])
          ELSE wire

Plug(serial) ==
  /\ lastNum < MaxNum
  /\ lastNum' = lastNum + 1
  /\ plugged' = [n \in DOMAIN plugged \cup {lastNum'} |->
                   IF n = lastNum' THEN serial ELSE plugged[n]]
  /\ Tell(<< Message("Attached", lastNum', serial) >>)
  /\ UNCHANGED <<unread, reading, hasLength, bodyLength, odd, listenerVars>>

Unplug(num) ==
  /\ num \in DOMAIN plugged
  /\ plugged' = Restrict(plugged, DOMAIN plugged \ {num})
  /\ Tell(<< Message("Detached", num, Null) >>)
  /\ UNCHANGED <<unread, reading, hasLength, bodyLength, lastNum, odd, listenerVars>>

(* "Other" is any message that lacks what the code looks for, and any of a type
   it does not know; "Detached" here and "Attached" with a serial number repeat
   an earlier message. *)
OddMessages ==
  {Message("Binary", 0, Null), Message("Other", 0, Null), Message("Result", 1, Null)}
    \cup {Message("Attached", n, Null) : n \in 1..(lastNum + 1)}
    \cup {Message("Attached", n, plugged[n]) : n \in DOMAIN plugged}
    \cup {Message("Detached", n, Null) : n \in 1..lastNum \ DOMAIN plugged}

SendOdd ==
  /\ listener = "up" /\ odd < MaxOdd
  /\ odd' = odd + 1
  /\ \E m \in OddMessages : Tell(<< m >>)
  /\ UNCHANGED <<unread, reading, hasLength, bodyLength, plugged, lastNum, listenerVars>>

(* dl_start: usbmuxd acknowledges and tells of the devices that are there. *)
Start ==
  LET attached == [k \in 1..lastNum |->
                     IF k \in DOMAIN plugged
                     THEN << PacketOf(Message("Attached", k, plugged[k])) >> ELSE <<>>]
  IN  /\ listener = "off"
      /\ listener' = "up"
      /\ wire' = PacketOf(Message("Result", 0, Null)) \o FlattenSeq(FlattenSeq(attached))
      /\ UNCHANGED <<unread, reading, hasLength, bodyLength, usbmuxdVars, table, served>>

-----------------------------------------------------------------------------
(* dl_on_recv *)

OnRecv(n) ==
  listener = "up" /\ Read(n) /\ UNCHANGED <<usbmuxdVars, listenerVars>>

LoopLength == TakeLength /\ UNCHANGED <<usbmuxdVars, listenerVars>>

LoopEnds == NeedMore /\ UNCHANGED <<usbmuxdVars, listenerVars>>

(* A serial number of 24 characters gets a dash after the eighth. *)
DeviceId(serial) ==
  IF serial = Null THEN Null ELSE [serial |-> serial, dash |-> serial \in Long]

Ids == {DeviceId(s) : s \in Serial}

ASSUME IdsAreValues == Ids \subseteq Value

KnownId(num) == GetValue(table, num)

(* Faulty: a device without a port cannot be detached. *)
RefusedUnserved(m) ==
  \/ m.type = "Other"
  \/ m.type = "Result" /\ m.num # 0
  \/ m.type = "Attached" /\ m.serial = Null
  \/ m.type = "Detached" /\ KnownId(m.num) \notin served

(* The messages for which dl_recv_packet returns an error, after which the
   connection is closed. *)
Refused(m) ==
  \/ m.type = "Other"
  \/ m.type = "Result" /\ m.num # 0
  \/ m.type = "Attached" /\ m.serial = Null
  \/ m.type = "Detached" /\ KnownId(m.num) = Null

(* Faulty: a device that is detached keeps its number. *)
TableKept(m) ==
  IF m.type = "Attached" THEN PutKey(table, m.num, DeviceId(m.serial)) ELSE table

TableAfter(m) ==
  CASE m.type = "Attached" -> PutKey(table, m.num, DeviceId(m.serial))
    [] m.type = "Detached" -> RemoveKey(table, m.num)
    [] OTHER -> table

(* Faulty: what is detached is named by its serial number without the dash. *)
DetachedBySerial(m, listens) ==
  CASE m.type = "Attached" /\ m.serial # Null /\ listens -> served \cup {DeviceId(m.serial)}
    [] m.type = "Detached" -> {d \in served : d.dash \/ d # KnownId(m.num)}
    [] OTHER -> served

(* on_attach opens a port, or does not and reports no error: the port cannot be
   opened or is not configured, the inspector does not answer.  on_detach closes
   it, whichever number of the device is detached. *)
Served(m, listens) ==
  CASE m.type = "Attached" /\ m.serial # Null /\ listens -> served \cup {DeviceId(m.serial)}
    [] m.type = "Detached" -> served \ {KnownId(m.num)}
    [] OTHER -> served

LoopPacket(listens) ==
  /\ PacketReady
  /\ LET m == Body[1][2]
     IN  /\ TakePacket(~Refused(m))
         /\ listener' = IF Refused(m) THEN "down" ELSE listener
         /\ table' = TableAfter(m)
         /\ served' = Served(m, listens)
  /\ UNCHANGED usbmuxdVars

(* A port is closed because its inspector or its own socket fails. *)
PortCloses(id) ==
  /\ id \in served
  /\ served' = served \ {id}
  /\ UNCHANGED <<readerVars, usbmuxdVars, listener, table>>

-----------------------------------------------------------------------------

RecvNext ==
  \/ \E n \in DOMAIN wire : OnRecv(n)
  \/ LoopLength
  \/ \E listens \in BOOLEAN : LoopPacket(listens)
  \/ LoopEnds

Next ==
  \/ \E serial \in Serial : Plug(serial)
  \/ \E num \in 1..MaxNum : Unplug(num)
  \/ SendOdd
  \/ Start
  \/ RecvNext
  \/ \E id \in served : PortCloses(id)

Spec == Init /\ [][Next]_vars

(* The loop of main reads what arrives and its callbacks return. *)
FairSpec == Spec /\ WF_vars(RecvNext)

-----------------------------------------------------------------------------
(* Properties *)

deviceId == Contents(table)

(* The table of devices is a sound hash table after every sequence of messages:
   repeated, unknown and odd ones, and numbers that share a bucket. *)
TableSound == Sound(table)

(* When the listener has handled everything, its table names exactly the devices
   that are connected, whatever came, went and came again under other numbers,
   before the subscription or in the middle of a read (dl_recv_packet). *)
TableIsCurrent ==
  listener = "up" /\ wire = <<>> /\ unread = <<>>
    => deviceId = [n \in DOMAIN plugged |-> DeviceId(plugged[n])]

(* No device keeps its port once it has lost its last number: what is detached
   is named as it was when it was attached (on_detach).  (A message that closes the
   listener may take a number out of the table.) *)
ServedAreKnown == listener = "up" => served \subseteq Range(deviceId)

(* A usbmuxd that sends nothing unexpected keeps its listener, whichever of its
   devices have a port when they are detached (dl_recv_packet). *)
OnlyOddMessagesClose == listener = "down" => odd > 0

(* A device that is connected gets into the table without another message having
   to come, unless it leaves or the listener is closed (dl_recv_loop). *)
DevicesSeen ==
  \A n \in 1..MaxNum :
    listener = "up" /\ n \in DOMAIN plugged
      ~> Found(table, n) \/ n \notin DOMAIN plugged \/ listener = "down"
=============================================================================
