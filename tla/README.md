# Verification of ios_webkit_debug_proxy

`ios_webkit_debug_proxy` lets browsers debug the web pages of iOS devices. It subscribes to usbmuxd, opens a
TCP port for every device, speaks HTTP and WebSocket to browsers on these ports, and the Web Inspector protocol
to the devices. It is one thread around a `select` loop; everything else happens in callbacks of that loop.

This directory holds TLA+ models of the proxy, TLC runs that check them on small instances, and TLAPS proofs.
`PROJECT.json` lists the components, runs, findings, hazards and theorems, and maps every definition to the
lines it models.

    tlc -config Pages.cfg MCIwdp         # one of the runs below
    tlapm SocketProofs.tla               # the proofs of one module; the larger ones take some minutes

## The system

| component | state | operations | talks to |
|---|---|---|---|
| main and bridge (`ios_webkit_debug_proxy_main.c`) | the quit flag, the configuration file | the loop, signals, `select_port` | all |
| socket manager (`socket_manager.c`) | sets of descriptors, queues of blocked sends, the descriptor being read | `add_fd`, `remove_fd`, `send`, `select`, `cleanup` | kernel; calls `on_accept`, `on_recv`, `on_close` |
| proxy (`ios_webkit_debug_proxy.c`) | ports (iport), inspectors (iwi), pages (ipage), browser clients (iws), fetches (ifs) | attach, detach, accept, requests, frames, inspector messages, the close callbacks | all |
| port configuration (`port_config.c`) | list of `device:min-max` entries | add a line or file, select a port | proxy |
| device listener (`device_listener.c`) | table from device numbers to ids, partial packet | `start`, `on_recv` | usbmuxd; calls `on_attach`, `on_detach` |
| webinspector link (`webinspector.c`) | partial packet, partial message | `send_plist`, `on_recv` | device; calls `recv_plist` |
| rpc (`rpc.c`) | none | `recv_plist` and its message handlers; one `send_*` per message | link and proxy |
| websocket (`websocket.c`) | state of the request or frame, fragments held, `sent_close` | `on_recv`, `send_frame`, `send_close` | browser; calls `on_http_request`, `on_upgrade`, `on_frame` |
| char buffer (`char_buffer.c`) | unread octets, shared with the caller or owned | `begin_input`, `end_input` | the three receivers |
| hash table (`hash_table.c`) | buckets with chains of entries, the number of keys | `get`, `put`, `remove`, `keys`, `values` | proxy, socket manager, device listener |
| UTF-8 table (`validate_utf8.h`) | none | one table lookup per octet | websocket |
| page and port listings, base64, sha1, other compatibility headers, examples | | | not modelled |

### What is hard in it, and what makes it correct

* **Closing is a cascade inside a callback.** `remove_fd` calls `on_close` before it closes the socket; closing a
  port closes its clients, these close their fetches, the inspector closes its port, and each may be where the
  cascade starts. Correct means: each socket is closed once (`RemovedOnce`), a port is open exactly while its
  inspector is (`PortFollowsInspector`), no client outlives its port (`ClientsOnOpenPorts`), and one device's end
  does not touch another's (`FailureIsLocal`).
* **Pointers across objects of different owners.** A client points to a page, the page to a client; pages are
  stolen by other clients, claimed by inspectors on other computers, freed by listings; addresses are used again.
  Correct means: a client that has a page is that page's client (`ClientsOwnTheirPage`), and loses it only for a
  reason (`PagesTakenForAReason`).
* **Sessions at the other end.** The inspector is told of the start and of the end of every session between a client
  and a page; an end may come from a close, a theft, a listing or the end of an application, and nobody looks at its
  result. Correct means: the sessions that it knows are those of the clients that inspect a page, but for those of
  pages that a listing gave to another inspector client (`SessionsAccounted`). One more kind is left open, by a defect,
  and stated with the property: a session that its client lost through an earlier page with its address.
* **Identity over time.** Page numbers go into URLs and must keep their meaning (`PageNumbersStable`); a device
  that comes back gets its old port (`StickyPort`), and ports are never shared (`PortsDistinct`).
* **Blocked sends.** A send that would block is queued and stops the reading of the descriptor that caused it.
  Correct means: streams stay streams (`StreamsReliable`), exactly the causes of queued sends are not read
  (`RecvFdsExact`), everything is sent and read eventually (`EverythingSent`, `InputResumes`) -- while descriptors
  are closed and given out again by callbacks in the middle of a `select` pass (`ReadinessIsCurrent`).
* **Reads end anywhere.** Three receivers parse a stream of octets. Correct means that the division into reads
  makes no difference (`ChunksDoNotMatter`, `ReceivedWhole`, `TableIsCurrent`), and that nothing that is whole
  waits for more (`NothingWaits`, `SentIsReceived`, `DevicesSeen`).
* **What a peer may say.** A message of the device is a tree with optional, missing and wrong parts, and one bad entry
  refuses a whole list, which closes the inspector. Correct means: the proxy is called for what the device meant and
  for nothing else (`CallsAsMeant`), and a listing names a page twice only under keys that spell one number
  (`ListedOnce`). A payload is UTF-8 or refused:
  the scan of each fragment refuses exactly what no text starts with (`TextWithinUtf8`, `Utf8IsTaken`).
* **A table that rearranges itself.** Entries are unlinked and replaced where a search stops, a lookup relinks the chain
  it searches, and `num_keys` sizes the arrays that the listings of a table fill. Correct means that each entry is found
  where it is looked for, once, and counted (`TableSound`; the theorem `LookupKeepsContents` for lookups).
* **Two protocols on one connection.** HTTP until the upgrade, then frames in both directions, fragments
  interleaved with control frames, and inspector data at any time (`FramesAfterUpgrade`, `ForwardedWhole`,
  `ClosedLast`, `PongsEcho`).

`PROJECT.json` lists each hazard at its line, with the properties about it.

## Modules

| module | models | extends |
|---|---|---|
| `PortConfig` | entries, `pc_add*`, `pc_find`, `pc_select_port` | |
| `Iwdp` | the proxy object: every callback of `ios_webkit_debug_proxy.c` as one step | `PortConfig` |
| `IwdpProofs` | theorems about ports, pages and clients | `Iwdp` |
| `SessionProofs` | theorems about sessions, the identity and numbers of pages, and what one callback may do to others' ports, pages, clients and fetches | `IwdpProofs` |
| `ByteStream` | what a connection promises: a reliable stream of bytes (abstract) | |
| `SocketManager` | the select loop, callback by callback | implements `ByteStream` |
| `SocketProofs` | theorems about the sets of descriptors; `SocketManager` implements `ByteStream` | `SocketManager` |
| `Utf8` | the table of `validate_utf8.h`, and the grammar of RFC 3629 | |
| `Websocket` | a browser connection, a whole request or frame at a time | `Utf8` |
| `WebsocketProofs` | theorems: the scan of a payload follows the grammar; what a connection sends and forwards | `Websocket`, `InductionProofs` |
| `WebsocketStream` | the same on octets, with reads and the char buffer | `Websocket`, and implements it |
| `StreamProofs` | theorems: the buffer of the parser; `WebsocketStream` implements `Websocket` | `WebsocketStream`, `WebsocketProofs` |
| `PacketReader` | the receive loop for length-prefixed packets that two components share in form | |
| `Rpc` | `rpc_recv_plist`: which plists make which call | |
| `InspectorLink` | `wi_send_plist` and `wi_on_recv`, and what `rpc.c` makes of each message | `PacketReader`, `Rpc` |
| `LinkProofs` | theorems about the messages of a link and the calls they make | `InspectorLink`, `InductionProofs` |
| `HashTable` | `hash_table.c`, as operators on tables | |
| `DeviceListener` | the subscription to usbmuxd and its table | `PacketReader`, `HashTable` |
| `ListenerProofs` | theorems: a hash table is a function; the table of the listener is current | `DeviceListener`, `InductionProofs` |
| `InductionProofs` | lemmas about joined and divided sequences that the proofs of the three receivers share | |
| `MC...` | instances for TLC | the module of the name |

Operators whose comment starts with "Faulty:" are not part of a model. They are variants of the definition after
them, as a plausible mistake would write it, and serve to test that the properties notice (`mutants` in
`PROJECT.json`): every property of every passing run fails when one of them takes its definition's place.

### How the models correspond to the code

**Iwdp.** Each C struct is a function from addresses to records (`iport`, `iwi`, `ipage`, `iws`, `ifs`), a freed
object is the zero record, as the `_free` functions leave it, and an address may be used again. Operators on the
heap (`StopDevtools`, `ClosePort`, `TakeListing`, ...) are the C functions of similar names; they take a heap and
return one, so a callback with all the functions it calls, and the whole cascade of closes, is a single step. That is
what the code does: it has one thread, and a callback returns before the next one starts. What a callback cannot
know is nondeterministic: whether a connection or send works, what a listing says, when a socket ends, which ports
other processes hold. Requests for pages, listings, frames, inspector data, the fetches of static files, attaching,
detaching and edits of the configuration file are actions. An inspector message the code refuses closes the
inspector in the same step. The `CloseClients` and `ClosePort` cascades follow the order of the code as far as
anything depends on it; `NoFreedPageOnClose` is about the one place where it does.

What the inspector was told is a field of the page that the code does not have: `sessions` holds the clients that
`send_forwardSocketSetup` was called for and `send_forwardDidClose` was not. Addresses are used again, so a session that
nobody will end is renamed at the step that leaves it so. It becomes `Gone` when a listing gave its page to another
inspector client, whether the client keeps the page until `iwdp_stop_devtools` or loses it in the listing. It becomes
`Lost` when its client loses the page by the claim of a different page (`MergeListing`): the
claimed page had that address from an earlier client.

The configurations of the runs are the result of the parsing operators of `PortConfig` (`Entries`, `AddFile`, `AddLine`) on
a command line and a file, with lines that are not in order.

**SocketManager.** The five descriptor sets, `fd_to_sendq`, `curr_recv_fd` and the local copies of `sm_select` are
variables; `mode` says where in `sm_select` the thread is. Each call that can call back is split where the callback
runs: `BeginRemove` / `EndRemove` around `on_close`, with the removals under way on a stack (`closing`), and
`RecvChunk` / `CallbackReturns` around `on_recv`. In between the client does anything it may: send, remove, add.
`gen` tells successive connections of one descriptor apart, so that a byte of an earlier one shows as 0.

**Websocket and WebsocketStream.** The first takes one unit (request or frame) per step and has all the decisions:
what is refused, forwarded, answered, and in which state. The second has the octets: a read returns any number of
them, the parser keeps what it cannot use, and the four branches of `ws_recv_loop` are steps. A request line or
header is one octet and its line end another; the mask and the extended length have the lengths given by constants;
payloads are short sequences of octets, which the table of `Utf8` scans one by one, as the code does: it refuses a frame
at an invalid octet and not for ending within a character. On the wire `WebsocketStream` tells an octet that the mask
has garbled from the plain one, so that a payload unmasked at the wrong offset would show.

**Utf8.** The 9 by 256 numbers of the table are a function of state and octet, range by range. `Forms` is the grammar
that the comment of the table cites, written from RFC 3629 and not from the table.

**Rpc.** A plist is a tree of nodes as libplist returns it, and each parser of `rpc.c` an operator on nodes; a message is
refused, or makes one call. `RecvUpdated` looks at the name only without a host application, as the code does. The calls
are the actions of `Iwdp`: an application list, an application that comes or goes, a listing, data.

**HashTable.** A chain is a sequence of entries; `ht_get`, which relinks the chain it searches, has its result
(`GetValue`) and its effect (`MoveToFront`). `Contents` is the function that a table stands for. `DeviceListener` keeps
its devices in such a table. `device_listener.c` calls `ht_put` and `ht_remove` only, so `MoveToFront` is in no run: that
it keeps a table sound is the theorem `LookupKeepsContents`. The other modules use functions in place of the tables of
`ios_webkit_debug_proxy.c` and `socket_manager.c`, which is what `ListenerProofs` justifies.

**PacketReader, InspectorLink, DeviceListener.** `wi_recv_loop` and `dl_recv_loop` differ in whether the length counts
itself (`Inclusive`): `PacketReader` is mapped to `webinspector.c`, and `device_listener.c:285-332` has the same form. Both
ends of the link speak one format, so `InspectorLink` sends with `wi_send_plist` and
receives with `wi_on_recv`: this assumes that the device cuts messages as the proxy does. usbmuxd, in
`DeviceListener`, is external: it numbers devices upwards, may give a device two numbers, and keeps the order of its
messages. A message it should not send is counted in `odd`: one of another kind, a number that is not known, a number
that is attached again, with or without its serial number.

## Runs

All runs use `CHECK_DEADLOCK FALSE`: the models stop at the bounds on their inputs, and a proxy whose listener and
sockets are gone does nothing more.

| run | module, cfg | checks | shows |
|---|---|---|---|
| `pages` | `MCIwdp`, `Pages.cfg` | `TypeOK`, `ClientsOwnTheirPage`, `SessionsAccounted`, `PagesIdentified`, `PageNumbersStable`, `PagesTakenForAReason` | page ownership and sessions under thefts, claims, listings, failures and address reuse |
| `ports` | `MCIwdp`, `Ports.cfg` | `PortFollowsInspector`, `PortsDistinct`, `ClientsOnOpenPorts`, `FetchOfClient`, `StickyPort`, `FailureIsLocal` | ports, inspectors, clients and fetches of several devices under failures and reconfiguration |
| `sockets` | `MCSocketManager`, `Sockets.cfg` | `TypeOK`, `RemovedOnce`, `StreamsReliable` | accepting, nested removals, partly sent blocks |
| `reuse` | `MCSocketManager`, `Reuse.cfg` | `ReadinessIsCurrent`, `RecvFdsExact`, `StreamsReliable`, `EverythingSent`, `InputResumes`, `CleanupEnds` | descriptors that are given out again, and progress |
| `websocket` | `MCWebsocket`, `Websocket.cfg` | `ForwardedWhole`, `TextWithinUtf8`, `ClosedLast`, `FramesAfterUpgrade`, `PongsEcho`, `Utf8IsTaken` | the protocol of a browser connection, and which payloads it takes |
| `chunks` | `MCWebsocketStream`, `Chunks.cfg` | `StreamTypeOK`, `NothingWaits`, `ChunksDoNotMatter` | octets implement units |
| `link` | `MCInspectorLink`, `Link.cfg` | `ReceivedWhole`, `FailsForLengthOnly`, `CallsAsMeant`, `ListedOnce`, `SentIsReceived` | messages through packets through reads, and the calls they make |
| `listener` | `MCDeviceListener`, `Listener.cfg` | `TableSound`, `TableIsCurrent`, `ServedAreKnown`, `OnlyOddMessagesClose`, `DevicesSeen` | the table of devices stays sound and catches up with usbmuxd |

`MCWebsocket` also assumes, for TLC to evaluate in every run that extends it, that the UTF-8 table follows the grammar on
every payload of up to four octets taken from fifteen, at least one of each range the table tells apart
(`TableFollowsGrammar`). `ScanFollowsGrammar` proves the same of
every payload.

Four more runs end with a counterexample: three where the code is at odds with what its comments say, one where it fails
without any comment being wrong; see Findings.

### Bounds, and why they are enough

* `pages`: two clients, two applications, two page ids, two page numbers, one device. Two clients are the least for a
  theft and for an address that another client gets; two page numbers the least for a page that goes and comes back
  with a new number while the first is remembered. The symmetry is sound: no operator treats two clients,
  applications or page ids differently. `View` takes two states for one when they differ only in the names that sessions
  left open have (`Gone`, `Lost`): no action and no property reads these, and without it the run takes five minutes.
  A `Lost` session is among the states: it takes twelve steps, with a second client at the address of the first.
* `ports`: two devices and the simulator, three TCP ports of which another process may hold one, two configurations
  and two fetches. Devices compete for a range smaller than their number, the simulator has a range or is excluded,
  and each device may find its old port taken.
* `sockets`: three descriptors: a server, a connection, and one to accept, so that removals nest three deep. Two bytes
  make a partly sent block. `MaxGen = 1`: no reuse here.
* `reuse`: two descriptors with two connections each in turn, one byte per connection: queued bytes, old queues and
  causes of blocked sends meet a new connection.
* `websocket`: up to five units, which hold a fragmented message of three with a control frame inside; payloads up to
  one octet beyond the control limit, which `MaxShort` lowers from 125 to 2.
  The payloads include a character cut by a fragment's end, and six that no UTF-8 text starts with: an octet that never
  occurs, a tail without a start, an overlong form, a surrogate, a character beyond 10FFFF, a start without its tail.
* `chunks`: up to four units of up to seven octets, all of them ahead of the reader, and every division into reads. The
  mask has two octets and the extended length one, so that a read can end in the middle of a mask.
* `link`: a packet holds two octets, messages have one to five: below, at and above one and two packets.
  `MaxBody = 4` is also below and above. The messages carry four sets of five plists: each kind of message, complete,
  and with an item missing, of another type, or at odds with the key it is listed under; one listing names a page under
  both `"1"` and `"0x1"`, which `strtol` reads as one number (`MCNumber`). What the device means by each
  is written beside it and not computed from it.
* `listener`: two devices, two numbers, one unexpected message, a length of two octets. The table has one bucket, so that
  all keys share one chain, in which entries are replaced and unlinked. Three numbers were checked too, and take too long
  for a regular run.

### Fairness

`SocketManager!FairSpec` asks for weak fairness of the loop: the thread runs and callbacks return, which the code
gives, as it never blocks in a callback. It also asks of the peers that they read what they are sent (`PeerReads`,
strong fairness: select reports the socket writable, and the kernel takes bytes, again and again), and that no peer
sends so fast for ever that `sm_recv` never finds its socket empty, because `sm_recv` reads until then.
`InspectorLink!FairSpec` and `DeviceListener!FairSpec` ask for weak fairness of the receiving steps: select returns a
readable socket, and the loop goes on. Nothing is asked of senders, users, devices or usbmuxd. `EverythingSent` and
`InputResumes` except what is behind the queue of a removed socket (`LeftOver`): that is the finding
`send_fds_are_queued`, and without the exception both fail in the `reuse` run.

## Proofs

Every theorem holds for any values of the constants that satisfy the assumptions named in the modules
(`IwdpAssumption`, `NoneIsNoPage`, `SocketAssumption`, `WebsocketAssumption`, `StreamAssumption`, `PacketAssumption`,
`HashTableAssumption`, `ListenerAssumption`, `IdsAreValues`, `RpcAssumption`, `LinkAssumption`), which TLC evaluates in the
runs. All but one say what the constants are; `LinkAssumption` also has `MaxRpc < MaxBody`, without which a full packet
with its key would be refused for its length. Each property was model-checked first, and so were the inductive
invariants. Every property of the passing runs that does not need fairness is a theorem, both refinements included.

### Ports, pages and clients (`IwdpProofs`)

`Invariance` is `Spec => []Inv` for any devices, clients, fetches, applications, page ids, ports and configurations;
`TypeCorrect`, `Ownership`, `PortsFollowInspectors`, `ClientsAreServed`, `PortsAreDistinct` follow: the properties
`TypeOK`, `ClientsOwnTheirPage`, `PortFollowsInspector`, `ClientsOnOpenPorts` and `PortsDistinct` of the runs.

The invariant says of the heap that it is `Good`: well typed (`HeapType`); clients own the page they point to (`Own`);
a closed inspector is zeroed (`Zeroed`), without which opening one could revive old page numbers; ports and
inspectors are paired (`Paired`); clients are on open ports (`Served`); ports are distinct (`Distinct`). None of the
properties is inductive alone. Ownership needs that a page number a client remembers was given out, or a
listing could create a new page under the number of a client; that every port with clients is open needs the pairing,
as closing an inspector closes the clients through its port.

In a cascade the heap is not good: an inspector that closes has been zeroed while its port is still open and its clients
point to freed pages. `Closable(h, i)` says that the heap is good but for the port `i`, and the argument is two steps:
freeing an inspector makes a good heap closable (`FreeInspectorOwn`, `CloseInspectorGood`), and closing the port makes a
closable heap good (`ClosePortGood`). Every handler is a composition of such operators, each with a lemma that it
keeps `Good`; the lemmas `DeviceNextGood`, `ClientNextGood`, `InspectorNextGood`, `FetchNextGood` and `EnvNextGood`
put them together, one step per action. The model itself assumes that a listing names a page id once, which `ListedOnce`
has of `Rpc` but for keys that spell one number.

### Sessions, and the identity of pages (`SessionProofs`)

`SessionsAreAccounted` is `Spec => []SessionsAccounted`, from `Inv` and one more fact, that a client which has not become
a websocket has no page (`Idle`): without it a client could ask twice and own two pages, of which only one names it
back. Here the middle of a cascade is no exception, because `Accounted` speaks of pages and of who may still stop their
sessions, and both change together: every operator that closes or frees has a lemma that it keeps `Settled`. What it says
of a session that is left open is that it is `Gone` or `Lost`, which `MergeListing` and `EndSession` give out as described
above; it says nothing of when the inspector should forget it.

`PagesAreIdentified` needs that a listing keeps the pages it knows and makes one page of each id it does not know, for
an application that is connected; `PageNumbersAreStable` that numbers are given out upwards from what `Inv` bounds, and
that `seen`, which remembers the meaning of each number, grows only with a new page.

### What a callback leaves alone (`SessionProofs`)

`FetchesAreOfClients` is `FetchOfClient`: a fetch that a client knows names it back, and a fetch that is closed is zeroed,
so that an address used again starts without a client. `FailuresAreLocal`, `PortsAreSticky` and `LossesAreExplained` are the
action properties `FailureIsLocal`, `StickyPort` and `PagesTakenForAReason`. Each has a lemma per operator on heaps
that says what the operator leaves as it was -- of other devices, of the ports that devices remember, of the clients
that still have their page -- and these compose along the cascades as the operators do.

### The socket manager (`SocketProofs`)

`SocketTypes`, `ReadingFollowsQueues`, `ReadinessStaysCurrent` and `EachRemovedOnce` are `TypeOK`, `RecvFdsExact`,
`ReadinessIsCurrent` and `RemovedOnce`, for any descriptors, connections and bytes. Their conjunction becomes inductive
with `LoopAgrees`, which says where the loop can be: only open sockets are named as the cause of a blocked send, so that
a descriptor that is given out again starts enabled; `sm_resend` is at a socket that is marked as blocked, so that
completing its last send may unmark it; and no removal is in progress where the loop runs by itself. The lemmas about
`Causes` say what appending, forgetting and completing a blocked send do to the set of descriptors that are not read.

`SocketsImplementStreams` is the refinement, `Spec => StreamsReliable`: every step of the loop is a step of `ByteStream`
or leaves it alone. `StreamInv` relates the queue to the bytes: the kernel has the first bytes of the connection
(`InOrder`), and the queue of a marked descriptor has exactly the rest, in consecutive pieces of this connection
(`Contiguous`). For an open descriptor that is not marked and has a queue, the one that an earlier connection left, it
says nothing: that queue is never sent, which `ReadinessIsCurrent` provides.

### Texts and browser connections (`WebsocketProofs`)

`TableWithinCharacter` and `TableBetweenCharacters` say that every state of the UTF-8 table stands for what remains of a
character (`Remaining`), that an octet is accepted exactly when the grammar allows it next, and that the state after it
stands for what remains then. `ScanFollowsGrammar` takes this to the loop over a payload: it refuses a payload of any
length exactly when no UTF-8 text starts with it.

Two inductive invariants carry the rest. `Inv` is about what was sent: by the state of the connection, only HTTP answers,
or HTTP answers, one upgrade and frames after it (`Speaks`); the requests handled before the upgrade asked for none
(`Asked`); nothing follows a close frame, because `sentClose` is set with it (`Closing`); and nothing is held between
messages (`Held`). `NothingFollowsClose`, `UpgradesOnce` and `PingsAreEchoed` follow. `Whole` is about what was gathered of
the client's messages: what is held are the payloads of consecutive frames that start a message and go up to the last
one handled (`Pending`), and what was forwarded were such frames with a final one (`Forwarded`). A control frame between
two fragments ends what is held, and by `Held` with `continued`, so that the next fragment is an error and never forwarded. `MessagesAreForwardedWhole` and `TextsAreUtf8` follow, the second with `ScanFollowsGrammar`.

### The receive loop on octets (`StreamProofs`)

`ChunksImplementUnits` is the refinement, `StreamSpec => ChunksDoNotMatter`: for requests and frames of any length, masks
and extended lengths of any size and every division into reads, each step on octets is a step of `Websocket` or
leaves it alone. `ParserIsPlaced` and `WholeUnitsAreTaken` are `StreamTypeOK` and `NothingWaits`.

`StreamInv` is the invariant `Inv` of the connection, and of the buffers:

* `Flow`: what has been read and not used, followed by what is on the wire, are the octets of the units that have not
  been handled. A request whose line has been used and whose headers have not is in between; `Parsed` gives the line
  back. A connection that ended has no such relation, as it never reads on.
* `Placed`: the parser works on the caller's buffer while the `char_buffer` is empty, or on the end of the `char_buffer`.
  Without it `cb_end_input` could keep other octets than those left.
* `Waiting`: outside the loop less than the next unit has been read and not handled. That is `NothingWaits`, with the line
  of a request put back.
* `Measured`: in the state "frame", `frame_length` is the length of the next frame and `needed_length` is zero. Without it
  the length computed for one read could be used for another frame in the next.
* `Looping`: in the loop the connection is alive and there are octets.

`Flow` reduces what the parser finds to the shape of one unit (`FrameShape`, `RequestShape`): the first line end of the
input is that of the request line (`LineFound`), the first empty line is the end of the request also when it has no
headers (`HeadersFound`), and the places that the first two octets give are those of the length, the mask and the payload
(`FrameStart`, `FrameFound`). So each branch of `ws_recv_loop` handles the next unit, refuses it, or has less
than it (`RequestLoop`, `HeadersLoop`, `LengthLoop`, `FrameLoop`). A step that only learns the length of a frame
(`LengthKnown`) is none to `Websocket`, in which "length" stands for both states; `SameStep` has that every other decision
is the same for both, the scan of the payload included.

### The hash table and the listener (`ListenerProofs`)

`NewIsEmpty`, `RemoveTakesOut`, `PutSets` and `LookupKeepsContents` say that the operations keep a table `Sound`, and what
each does to `Contents`: nothing for a lookup, exactly its key for the others, which `PutSets` has of a value and of NULL,
for which `ht_put` removes the key. They hold for any hash function and any
number of buckets, so for every table of the program.

For the listener, `Inv` says that the octets not yet handled, in the buffer and on the wire, are those of some sequence
of messages (`Stream`); the division into reads is gone from the rest of the argument. Of every number, the last of these
messages about it, or else the table, says whether it is connected (`Current`), which gives `ListenerTableIsCurrent`
when none is left. A detachment of a number comes after its attachment or finds it in the table, unless an odd
message is under way (`Expected`), which gives `ListenerStaysUp`. `Consistent` has that the messages name the devices that
the numbers were given to, which `ListenerServesKnown` needs for a device under two numbers.

### The link (`LinkProofs`)

The invariant is that the octets between the two ends are those of *parts* of messages (`Stream`); that each part follows
the one before, in its message or at the start of the next, from the first that was not received to the last that was
sent (`Chained`); and that what has been collected is the start of the next message (`Collected`). So a packet that the
receiver completes is the next part, and `MessagesArriveWhole` and `LengthsAreLengths` follow for messages of any length,
packets of any size and any reads.

`LinkKeepsMeaning` is `CallsAsMeant` under the hypothesis that `rpc.c` makes of each plist by itself what its sender
means. That is a fact about `RecvPlist` and the data of an instance, which the `link` run evaluates for its plists; the
theorem adds that packets, reads, refusals and their order change nothing about it. `PagesAreListedOnce` is `ListedOnce`
for any messages and any reading of keys as numbers: a page has the number that its key spells, so that two entries for
one page have keys that spell the same number.

### Induction (`InductionProofs`)

The theorems of the library about induction take an operator as a parameter, which no installed prover can instantiate.
`LeastNumber`, that a set of numbers has a least element, takes a set, and each induction here is by the least
number for which its claim would fail. With it the lemmas say what `FlattenSeq` returns for every sequence, and how
joined octets are divided into packets again.

### Only model-checked

Liveness under fairness and `ENABLED` are out of the prover's reach: `EverythingSent`, `InputResumes`, `CleanupEnds`,
`SentIsReceived`, `DevicesSeen`. What the plists of the `link` run mean (the hypothesis of `LinkKeepsMeaning`) is a fact
about the data of that run.

## Findings

Each is a run that TLC ends with a counterexample.

* `page_client_is_live` -- the struct comment says that the owner of `ipage->iws` is `ws_id_to_iws`. When a listing
  shows the page claimed by another inspector client, only the client's pointer is cleared (line 1391); the page's
  stays, and points to a freed client once that client has closed. A later client with that address, of another page,
  loses its page to the next such listing: it closes without a `forwardDidClose`, and its session stays open at the
  inspector although nobody claimed its page (`Lost`).
* `data_keeps_inspector` -- a plain defect. A client that has been sent a close frame, for a protocol error or a stolen
  page, stays connected. Data for it makes `ws_send_frame` fail ("Already sent close_frame", `websocket.c:250`),
  `iwdp_on_applicationSentData` returns that error (line 1426), and the socket manager closes the inspector, with the
  port and all clients of the device. For data that has no client, the case before it, the handler returns success
  ("error but don't kill the inspector!", line 1423) and the code does as the comment says.
* `no_freed_page_on_close` -- a client points to a page "only if we own that page" (line 161). `iwdp_iwi_close` frees the
  pages, then closes the port and so the clients, and `iwdp_iws_close` reads the freed page.
* `send_fds_are_queued` -- `send_fds` is "same as fd_to_sendq.keys" (`socket_manager.c:54`). `sm_remove_fd` clears the set
  and keeps the queue. What a later connection with that descriptor sends is queued behind it and never sent, and the
  descriptor that caused the blocked send is not read again.

## Not modelled

* The retry rules of SSL, `sm_listen`, `sm_connect` and `wi_connect` beyond their result, `add_fd` failing, descriptors
  beyond `FD_SETSIZE`, allocation failures and memory that is lost.
* The sending half of `rpc.c`: it builds one dictionary per call and keeps no state. Its calls at the start and end of a
  session are in `Iwdp`, as sends that may fail.
* The content of HTTP answers and of inspector data, HTML and JSON listings, URL rewriting: conversions without state.
* What the proxy does with a listing that names a page twice (`ListedOnce` has when rpc.c lets one through), and the copies
  that `rpc_copy_app` makes.
* That the text joined from fragments is UTF-8: the code scans each fragment by itself and does not ask for the end of
  a character. The model does the same, and no property claims more of a message than of its frames.
* Command line, base64, sha1, `getline`, `strndup`, `strcasestr`, examples; `ws_send_connect`, which only examples use;
  `ht_clear`, which only precedes the end of a table.
* A link on which a send failed midway is taken to refuse everything afterwards.

## Plan

1. `Websocket` composed with `SocketManager`: what happens to an answer that the kernel did not take whole when the
   callback that sent it reports the connection closed.
2. `DeviceListener` composed with `Iwdp` through `served`, with one device under two numbers.
