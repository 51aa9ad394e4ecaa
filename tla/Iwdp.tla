-------------------------------- MODULE Iwdp --------------------------------
(***************************************************************************)
(* The proxy object of ios_webkit_debug_proxy.c: one browser port per      *)
(* device (iport), the inspector of the attached device (iwi) with its     *)
(* pages (ipage), the browser clients of a port (iws) and the static-file  *)
(* fetches they start (ifs).                                               *)
(*                                                                         *)
(* The program is one thread driven by callbacks of the socket manager, so *)
(* a callback is one step.  Closing a socket calls iwdp_on_close before it *)
(* returns, and that closes further sockets: the cascade belongs to the    *)
(* step.  A handler that fails makes the socket manager close the socket   *)
(* it was reading, which is part of the step as well.                      *)
(*                                                                         *)
(* An object is an address: a record of the function that holds its type.  *)
(* The free functions zero an object before they free it, so an address    *)
(* that holds no object reads as the zero record (NoClient, NoPage, ...),  *)
(* and a new object may be given the address of a freed one.               *)
(***************************************************************************)
EXTENDS PortConfig

CONSTANTS
  Simulator,  \* the device that iwdp_start attaches itself
  Client,     \* addresses of iws objects: the browser clients
  Fetch,      \* addresses of ifs objects: the static-file fetches
  App,        \* application ids the inspectors report
  PageId,     \* page ids the inspectors report
  MaxPage,    \* bound on the page numbers given out to one inspector
  Port,       \* the TCP ports of the host
  Busy,       \* the ports that other processes may take
  Configs,    \* the port configurations: sequences of Entry
  None,       \* NULL
  Gone,       \* the ws_id of a client that has been freed; a session left to others
  Lost        \* a session that its client lost by way of another page

ASSUME IwdpAssumption ==
  /\ Simulator \in Device /\ DeviceList \notin Device
  /\ MaxPage \in Nat /\ IsFiniteSet(PageId)
  /\ Port \subseteq Nat \ {0} /\ Busy \subseteq Port
  /\ None \notin Id \cup Client \cup Fetch \cup App \cup PageId \cup {Gone}
  /\ Gone \notin Client /\ Lost \notin Client

PageNum == 1..MaxPage
PageRef == Device \X PageNum   \* a page: the inspector that owns it, its number

ASSUME NoneIsNoPage == None \notin PageRef

VARIABLES
  listener,   \* the connection to usbmuxd: "off", "up" or "down"
  entries,    \* the port configuration that select_port reads
  taken,      \* ports that other processes listen on
  iport,      \* browser ports, by device id
  iwi,        \* inspectors, by device
  ipage,      \* pages of the inspectors
  iws,        \* browser clients
  ifs         \* static-file fetches

heapVars == <<iport, iwi, ipage, iws, ifs>>
vars == <<listener, entries, taken, heapVars>>

Heap == [iport |-> iport, iwi |-> iwi, ipage |-> ipage, iws |-> iws, ifs |-> ifs]

Become(h) ==
  /\ iport' = h.iport
  /\ iwi' = h.iwi
  /\ ipage' = h.ipage
  /\ iws' = h.iws
  /\ ifs' = h.ifs

-----------------------------------------------------------------------------
(* Objects.  iport.open says that the port has a listening socket (s_fd > 0).
   A client is "http" until it upgrades to a websocket: "devtools" when the
   inspector was given its ws_id, "ws" when no page was found for it.  A page
   is remote when its connection_id is that of another inspector client; no
   connection_id and that of this proxy are treated alike.  The sessions of a
   page are not in the struct: they are the ws_ids that the inspector was sent a
   forwardSocketSetup for and no forwardDidClose.  Gone stands for those that
   were left open on purpose, when a listing gave the page to another inspector
   client; Lost for those of pages that no listing gave away (MergeListing). *)

PortRec == [known: BOOLEAN, port: Port \cup {0}, open: BOOLEAN, sticky: BOOLEAN]
InspectorRec == [open: BOOLEAN, max: 0..MaxPage, apps: SUBSET App, app: App \cup {None}]
PageRec == [app: App \cup {None}, id: PageId \cup {None}, remote: BOOLEAN,
            iws: Client \cup {None}, sender: Client \cup {None, Gone},
            sessions: SUBSET (Client \cup {Gone, Lost})]
ClientRec == [iport: Id \cup {None}, phase: {"http", "ws", "devtools"},
              sentClose: BOOLEAN, pageNum: {0} \cup PageNum,
              ipage: PageRef \cup {None}, ifs: Fetch \cup {None}]
FetchRec == [open: BOOLEAN, iws: Client \cup {None}]

NoPort == [known |-> FALSE, port |-> 0, open |-> FALSE, sticky |-> FALSE]
NoInspector == [open |-> FALSE, max |-> 0, apps |-> {}, app |-> None]
NoPage == [app |-> None, id |-> None, remote |-> FALSE, iws |-> None, sender |-> None,
           sessions |-> {}]
NoClient == [iport |-> None, phase |-> "http", sentClose |-> FALSE,
             pageNum |-> 0, ipage |-> None, ifs |-> None]
NoFetch == [open |-> FALSE, iws |-> None]

Live(h, c) == c \in Client /\ h.iws[c].iport # None

ClientsOf(h, i) == {c \in Client : h.iws[c].iport = i}

PagesOf(d) == {p \in PageRef : p[1] = d}

-----------------------------------------------------------------------------
(* Devtools sessions: who inspects a page. *)

(* iwdp_stop_devtools ends the session of a page only when the page and its
   client name each other and the ws_id the page recorded is still that of
   the client; otherwise it returns an error and changes nothing. *)
Stoppable(h, p) ==
  /\ h.ipage[p].iws \in Client
  /\ h.iws[h.ipage[p].iws].ipage = p
  /\ h.ipage[p].sender = h.ipage[p].iws

(* Faulty: the client keeps its pointer to the page. *)
WithoutPageNum(client) == [client EXCEPT !.pageNum = 0]

WithoutPage(client) == [client EXCEPT !.ipage = None, !.pageNum = 0]

(* Faulty: the inspector is told only when another inspector client has the
   page. *)
EndSessionOfRemote(page) ==
  [page EXCEPT !.iws = None, !.sender = None,
               !.sessions = IF page.remote THEN @ \ {page.sender} ELSE @]

LeftOpen(page, s, mark) ==
  [page EXCEPT !.sessions = {IF x = s THEN mark ELSE x : x \in @}]

(* The inspector is told that the session is over, unless the last listing said
   that another inspector client has the page. *)
EndSession(page) ==
  LET told == IF page.remote THEN LeftOpen(page, page.sender, Gone)
              ELSE [page EXCEPT !.sessions = @ \ {page.sender}]
  IN  [told EXCEPT !.iws = None, !.sender = None]

StopDevtools(h, pages) ==
  LET stopped == {p \in pages : Stoppable(h, p)}
  IN  [h EXCEPT
        !.ipage = [p \in PageRef |->
                     IF p \in stopped THEN EndSession(h.ipage[p]) ELSE h.ipage[p]],
        !.iws = [c \in Client |->
                   IF \E p \in stopped : h.ipage[p].iws = c
                   THEN WithoutPage(h.iws[c]) ELSE h.iws[c]]]

(* iwdp_start_devtools: a client that has the page loses it, but keeps the
   page number to report who took the page.  (Through a dangling pointer the
   number goes to freed memory.) *)
StartDevtools(h, p, c) ==
  LET old == h.ipage[p].iws
      h1 == IF old = None THEN h ELSE StopDevtools(h, {p})
      num(x) == IF x = c \/ (x = old /\ Live(h, x)) THEN p[2] ELSE h1.iws[x].pageNum
      page == [h1.ipage[p] EXCEPT !.iws = c, !.sender = c, !.sessions = @ \cup {c}]
  IN  [h1 EXCEPT
        !.ipage[p] = page,
        !.iws = [x \in Client |->
                   [h1.iws[x] EXCEPT !.pageNum = num(x),
                                     !.ipage = IF x = c THEN p ELSE @]]]

FreePages(h, pages) ==
  [h EXCEPT !.ipage = [p \in PageRef |-> IF p \in pages THEN NoPage ELSE h.ipage[p]]]

-----------------------------------------------------------------------------
(* Closing sockets: iwdp_on_close and the sockets it closes in turn. *)

(* iwdp_iws_close, for a set of clients: stop the sessions they own, close
   their fetch, free them.  A page whose session could not be stopped keeps
   the address of the freed client, and a ws_id no client has any more. *)
CloseClients(h, closing) ==
  LET owned == {p \in PageRef : h.ipage[p].iws \in closing}
      fetches == {h.iws[c].ifs : c \in closing}
      h1 == StopDevtools(h, owned)
  IN  [h1 EXCEPT
        !.ipage = [p \in PageRef |->
                     IF h1.ipage[p].sender \in closing
                     THEN [h1.ipage[p] EXCEPT !.sender = Gone]
                     ELSE h1.ipage[p]],
        !.iws = [c \in Client |-> IF c \in closing THEN NoClient ELSE h1.iws[c]],
        !.ifs = [f \in Fetch |-> IF f \in fetches THEN NoFetch ELSE h.ifs[f]]]

(* Free the inspector of a device and its pages, but not what points to them. *)
FreeInspector(h, d) ==
  [FreePages(h, PagesOf(d)) EXCEPT !.iwi[d] = NoInspector]

(* Faulty: forgets the clients of the port. *)
ClosePortOnly(h, i) ==
  LET h1 == IF i \in Device THEN FreeInspector(h, i) ELSE h
  IN  [h1 EXCEPT !.iport[i] = IF @.sticky THEN [@ EXCEPT !.open = FALSE] ELSE NoPort]

(* Faulty: closes the clients of every port. *)
ClosePortAllClients(h, i) == ClosePortOnly(CloseClients(h, {c \in Client : Live(h, c)}), i)

(* iwdp_iport_close: the clients, then the inspector; the port of a device
   that was attached successfully is remembered. *)
ClosePort(h, i) ==
  LET h1 == CloseClients(h, ClientsOf(h, i))
      h2 == IF i \in Device THEN FreeInspector(h1, i) ELSE h1
  IN  [h2 EXCEPT !.iport[i] = IF @.sticky THEN [@ EXCEPT !.open = FALSE] ELSE NoPort]

(* iwdp_iwi_close frees the pages before it closes the browser port. *)
CloseInspector(h, d) ==
  LET h1 == FreeInspector(h, d)
  IN  IF h1.iport[d].open THEN ClosePort(h1, d) ELSE h1

(* Faulty: forgets the client of the fetch. *)
CloseFetchOnly(h, f) == [h EXCEPT !.ifs[f] = NoFetch]

(* iwdp_ifs_close: the client at the address the fetch recorded goes too. *)
CloseFetch(h, f) ==
  LET c == h.ifs[f].iws
      h1 == [h EXCEPT
               !.ifs[f] = NoFetch,
               !.iws = [x \in Client |->
                          IF x = c /\ h.iws[x].ifs = f
                          THEN [h.iws[x] EXCEPT !.ifs = None] ELSE h.iws[x]]]
  IN  IF Live(h, c) THEN CloseClients(h1, {c}) ELSE h1

-----------------------------------------------------------------------------
(* Browser ports. *)

CanBind(h, p) ==
  /\ p \notin taken
  /\ \A i \in Id : h.iport[i].open => h.iport[i].port # p

(* Faulty: only the ports that are open now. *)
UsedNow(h) == {h.iport[i].port : i \in {j \in Id : h.iport[j].open}}

(* The ports of all browser ports that are known. *)
UsedPorts(h) == {h.iport[i].port : i \in Id}

(* Faulty: a device that comes back is treated as a new one. *)
PreferredNone(old) == -1

Preferred(old) == IF old.known THEN old.port ELSE -1

Unbound(old, port) == [old EXCEPT !.known = TRUE]

(* iwdp_listen: try the port of an earlier attachment, else the first port of
   the range that no known browser port has, even of a detached device.  The
   object of a new device stays in the table when no port could be bound. *)
Listen(h, id) ==
  LET old  == h.iport[id]
      sel  == SelectPort(entries, id, Preferred(old))
      free == IF sel.min > 0
              THEN {p \in Port : /\ p >= sel.min /\ p <= sel.max
                                 /\ p \notin UsedPorts(h) /\ p # sel.port /\ CanBind(h, p)}
              ELSE {}
      set(r) == [h EXCEPT !.iport[id] = r]
      bound(p) == [err |-> FALSE,
                   heap |-> set([old EXCEPT !.known = TRUE, !.open = TRUE, !.port = p])]
  IN  CASE old.open \/ sel.err \/ (sel.port < 0 /\ (sel.min < 0 \/ sel.max < sel.min)) ->
             [err |-> TRUE, heap |-> h]
        [] OTHER ->
             IF sel.port \in Port /\ CanBind(h, sel.port) THEN bound(sel.port)
             ELSE IF free # {} THEN bound(Min(free))
             ELSE [err |-> TRUE, heap |-> set(Unbound(old, sel.port))]

(* Faulty: the port stays open without an inspector. *)
GiveUpLater(h, d) == [h EXCEPT !.iwi[d] = NoInspector]

GiveUp(h, d) == ClosePort(h, d)

(* iwdp_on_attach: the port is given up again when the inspector cannot be
   reached or cannot be sent the connection id. *)
Attach(h, d, connects, sends) ==
  LET l == Listen(h, d)
      h1 == [l.heap EXCEPT !.iwi[d] = [NoInspector EXCEPT !.open = TRUE]]
  IN  IF l.err \/ l.heap.iwi[d].open THEN l.heap
      ELSE IF ~connects THEN GiveUp(l.heap, d)
      ELSE IF ~sends THEN GiveUp(h1, d)
      ELSE [h1 EXCEPT !.iport[d].sticky = TRUE]

-----------------------------------------------------------------------------
(* Messages of an inspector, on the heap. *)

(* iwdp_remove_app_id, for a set of applications. *)
RemoveApps(h, d, apps) ==
  LET pages == {p \in PagesOf(d) : h.ipage[p].app \in apps \cap h.iwi[d].apps}
      h1 == FreePages(StopDevtools(h, pages), pages)
  IN  [h1 EXCEPT !.iwi[d].apps = @ \ apps]

AddApps(h, d, apps) == [h EXCEPT !.iwi[d].apps = @ \cup apps]

SetApp(h, d, a) == [h EXCEPT !.iwi[d].app = a]

(* Faulty: does not look for the page among the known ones. *)
NewPagesAll(h, d, a, listing) == DOMAIN listing

(* The pages of a listing that the inspector does not have yet. *)
NewPages(h, d, a, listing) ==
  DOMAIN listing \ {h.ipage[p].id : p \in {q \in PagesOf(d) : h.ipage[q].app = a}}

(* Faulty: the page number is taken back. *)
CountPagesNot(inspector, num) == inspector

(* Faulty: the page number is counted twice. *)
CountPagesTwice(inspector, num) == [inspector EXCEPT !.max = @ + 2 * Cardinality(DOMAIN num)]

CountPages(inspector, num) == [inspector EXCEPT !.max = @ + Cardinality(DOMAIN num)]

(* Faulty: every listing ends the sessions of the pages it names. *)
ClaimedAll(h, pages, listing) == pages

(* The pages that the listing gives to another inspector client. *)
Claimed(h, pages, listing) == {p \in pages : listing[h.ipage[p].id]}

AppPages(h, d, a) == {p \in PagesOf(d) : h.ipage[p].app = a}

(* listing maps the page ids of the message to whether each is remote, num maps
   the new ones to their page numbers.  The client of a page that another
   inspector client has claimed loses the page, but the page keeps the client
   and its ws_id.  The client is who has its address now: when that is a client
   of another page, which no listing gave away, it loses that page, and nobody
   ends the session it has there (Lost). *)
MergeListing(h, d, a, listing, num) ==
  LET kept == {p \in AppPages(h, d, a) : h.ipage[p].id \in DOMAIN listing}
      idOf(n) == CHOOSE i \in DOMAIN num : num[i] = n
      claimed == Claimed(h, kept, listing)
      losers == {h.ipage[p].iws : p \in claimed} \ {None}
      left(p) == IF h.ipage[p].iws \in losers
                 THEN LeftOpen(h.ipage[p], h.ipage[p].iws,
                               IF p \in claimed THEN Gone ELSE Lost)
                 ELSE h.ipage[p]
      page(p) ==
        IF p \in kept THEN [left(p) EXCEPT !.remote = listing[h.ipage[p].id]]
        ELSE IF p[1] = d /\ \E i \in DOMAIN num : num[i] = p[2]
        THEN [NoPage EXCEPT !.app = a, !.id = idOf(p[2]), !.remote = listing[idOf(p[2])]]
        ELSE left(p)
  IN  [h EXCEPT
        !.iwi[d] = CountPages(@, num),
        !.ipage = [p \in PageRef |-> page(p)],
        !.iws = [c \in Client |->
                   IF c \in losers THEN [h.iws[c] EXCEPT !.ipage = None] ELSE h.iws[c]]]

(* iwdp_on_applicationSentListing for a known application: the pages that are
   not listed any more go, with their sessions. *)
TakeListing(h, d, a, listing, num) ==
  LET gone == {p \in AppPages(h, d, a) : h.ipage[p].id \notin DOMAIN listing}
  IN  FreePages(StopDevtools(MergeListing(h, d, a, listing, num), gone), gone)

-----------------------------------------------------------------------------
Init ==
  /\ listener = "off"
  /\ entries \in Configs
  /\ taken = {}
  /\ iport = [i \in Id |-> NoPort]
  /\ iwi = [d \in Device |-> NoInspector]
  /\ ipage = [p \in PageRef |-> NoPage]
  /\ iws = [c \in Client |-> NoClient]
  /\ ifs = [f \in Fetch |-> NoFetch]

envVars == <<listener, entries, taken>>

(* iwdp_start: listen for the device list, whether that works or not, connect
   to usbmuxd (the program ends when that fails) and attach the simulator. *)
Start ==
  /\ listener = "off"
  /\ listener' = "up"
  /\ \E connects, sends \in BOOLEAN :
       Become(Attach(Listen(Heap, DeviceList).heap, Simulator, connects, sends))
  /\ UNCHANGED <<entries, taken>>

(* iwdp_on_attach and iwdp_on_detach, called by the device listener. *)
DeviceAttached(d) ==
  /\ listener = "up"
  /\ d # Simulator
  /\ \E connects, sends \in BOOLEAN : Become(Attach(Heap, d, connects, sends))
  /\ UNCHANGED envVars

DeviceDetached(d) ==
  /\ listener = "up"
  /\ iport[d].open
  /\ Become(ClosePort(Heap, d))
  /\ UNCHANGED envVars

(* iwdp_idl_close closes nothing else, and nothing subscribes again. *)
ListenerCloses ==
  /\ listener = "up"
  /\ listener' = "down"
  /\ UNCHANGED <<entries, taken, heapVars>>

(* The listening socket of a browser port fails, for example in accept. *)
PortFails(i) ==
  /\ iport[i].open
  /\ Become(ClosePort(Heap, i))
  /\ UNCHANGED envVars

-----------------------------------------------------------------------------
(* Browser clients. *)

Accept(i, c) ==
  /\ iport[i].open
  /\ ~Live(Heap, c)
  /\ iws' = [iws EXCEPT ![c] = [NoClient EXCEPT !.iport = i]]
  /\ UNCHANGED <<envVars, iport, iwi, ipage, ifs>>

(* The client goes away, breaks the protocol, sends a close frame, or was
   answered: a list, a file or an error is sent without keep-alive. *)
ClientCloses(c) ==
  /\ Live(Heap, c)
  /\ Become(CloseClients(Heap, {c}))
  /\ UNCHANGED envVars

(* A websocket request, for page n when it is a page of the device; sends is
   whether every answer (setup to the inspector, 404, upgrade) can be sent. *)
DevtoolsRequest(c, n) ==
  LET p == <<iws[c].iport, n>>
      found == p \in PageRef /\ iwi[p[1]].open /\ n <= iwi[p[1]].max /\ ipage[p] # NoPage
      h == IF found THEN StartDevtools(Heap, p, c) ELSE Heap
  IN  /\ Live(Heap, c)
      /\ iws[c].phase = "http"
      /\ \E sends \in BOOLEAN :
           Become(IF sends
                  THEN [h EXCEPT !.iws[c].phase = IF found THEN "devtools" ELSE "ws"]
                  ELSE CloseClients(h, {c}))
      /\ UNCHANGED envVars

(* iwdp_on_static_request_for_http: the connection to the file server belongs
   to the client, whose socket is kept alive and may ask for another file. *)
StaticRequest(c, f) ==
  LET h == [Heap EXCEPT !.ifs[f] = [open |-> TRUE, iws |-> c], !.iws[c].ifs = f]
  IN  /\ Live(Heap, c)
      /\ iws[c].phase = "http"
      /\ ~ifs[f].open
      /\ \E sends \in BOOLEAN : Become(IF sends THEN h ELSE CloseClients(h, {c}))
      /\ UNCHANGED envVars

(* iwdp_on_frame for a complete text or binary frame.  The client of a page is
   forwarded to the inspector; any other is sent a close frame, but its socket
   stays open until it answers or sends another frame. *)
Frame(c, masked) ==
  LET d == iws[c].iport
      refused == ~masked \/ d = DeviceList \/ ~iwi[d].open \/ iws[c].ipage = None
      close == [Heap EXCEPT !.iws[c].sentClose = TRUE]
  IN  /\ Live(Heap, c)
      /\ iws[c].phase # "http"
      /\ \E sends \in BOOLEAN :
           Become(CASE ~sends \/ (refused /\ iws[c].sentClose) -> CloseClients(Heap, {c})
                    [] sends /\ refused /\ ~iws[c].sentClose -> close
                    [] OTHER -> Heap)
      /\ UNCHANGED envVars

-----------------------------------------------------------------------------
(* Inspectors. *)

InspectorCloses(d) ==
  /\ iwi[d].open
  /\ Become(CloseInspector(Heap, d))
  /\ UNCHANGED envVars

(* iwdp_on_reportConnectedApplicationList: an empty list changes nothing, and
   failing to ask for a listing is not an error here. *)
AppList(d, apps) ==
  /\ iwi[d].open
  /\ apps # {}
  /\ \E last \in apps :
       Become(SetApp(AddApps(RemoveApps(Heap, d, App \ apps), d, apps), d, last))
  /\ UNCHANGED envVars

(* iwdp_on_applicationConnected, and iwdp_on_applicationUpdated, which does
   not touch iwi->app: the listing of an unknown application is asked for. *)
AppConnected(d, a, updated) ==
  LET h == AddApps(IF updated THEN Heap ELSE SetApp(Heap, d, a), d, {a})
  IN  /\ iwi[d].open
      /\ \E sends \in BOOLEAN :
           Become(IF sends \/ a \in iwi[d].apps THEN h ELSE CloseInspector(h, d))
      /\ UNCHANGED envVars

AppDisconnected(d, a) ==
  /\ iwi[d].open
  /\ Become(RemoveApps(Heap, d, {a}))
  /\ UNCHANGED envVars

(* iwdp_on_applicationSentListing *)
SentListing(d, a) ==
  /\ iwi[d].open
  /\ a \in iwi[d].apps
  /\ \E ids \in SUBSET PageId : \E listing \in [ids -> BOOLEAN] :
       LET new == NewPages(Heap, d, a, listing)
           max == iwi[d].max
       IN  /\ max + Cardinality(new) <= MaxPage
           /\ \E num \in Bijection(new, (max + 1)..(max + Cardinality(new))) :
                Become(TakeListing(Heap, d, a, listing, num))
  /\ UNCHANGED envVars

(* A listing of an unknown application asks for that of iwi->app instead; when
   there is none, or the question cannot be sent, the handler fails. *)
StrayListing(d, a) ==
  /\ iwi[d].open
  /\ a \notin iwi[d].apps
  /\ \E sends \in BOOLEAN :
       Become(IF sends /\ iwi[d].app # None THEN Heap ELSE CloseInspector(Heap, d))
  /\ UNCHANGED envVars

(* iwdp_on_applicationSentData for a client whose ws_id the inspector has been
   given (data for any other ws_id is dropped): when the frame cannot be sent
   to the client, the handler fails, and the inspector is closed. *)
DeliverData(h, d, c, sends) ==
  IF sends /\ ~h.iws[c].sentClose THEN h ELSE CloseInspector(h, d)

SentData(d, c) ==
  /\ iwi[d].open
  /\ iws[c].iport = d
  /\ iws[c].phase = "devtools"
  /\ \E sends \in BOOLEAN : Become(DeliverData(Heap, d, c, sends))
  /\ UNCHANGED envVars

-----------------------------------------------------------------------------
(* Static-file fetches. *)

(* TYPE_IFS of iwdp_on_recv: what the file server sends goes to the client; if
   that fails the client is closed, and the fetch unless that closed it. *)
FetchData(f) ==
  LET c == ifs[f].iws
      h == IF Live(Heap, c) THEN CloseClients(Heap, {c}) ELSE Heap
  IN  /\ ifs[f].open
      /\ \E sends \in BOOLEAN :
           Become(IF sends /\ Live(Heap, c) THEN Heap
                  ELSE IF h.ifs[f].open THEN CloseFetch(h, f) ELSE h)
      /\ UNCHANGED envVars

FetchCloses(f) ==
  /\ ifs[f].open
  /\ Become(CloseFetch(Heap, f))
  /\ UNCHANGED envVars

-----------------------------------------------------------------------------
(* The environment: other processes, and an edited configuration file. *)

TakePort(p) ==
  /\ p \in Busy \ taken
  /\ \A i \in Id : iport[i].open => iport[i].port # p
  /\ taken' = taken \cup {p}
  /\ UNCHANGED <<listener, entries, heapVars>>

ReleasePort(p) ==
  /\ p \in taken
  /\ taken' = taken \ {p}
  /\ UNCHANGED <<listener, entries, heapVars>>

Reconfigure ==
  /\ entries' \in Configs \ {entries}
  /\ UNCHANGED <<listener, taken, heapVars>>

-----------------------------------------------------------------------------
DeviceNext ==
  \/ Start
  \/ ListenerCloses
  \/ \E d \in Device : DeviceAttached(d) \/ DeviceDetached(d)
  \/ \E i \in Id : PortFails(i)

ClientNext ==
  \E c \in Client :
    \/ \E i \in Id : Accept(i, c)
    \/ ClientCloses(c)
    \/ \E n \in {0} \cup PageNum : DevtoolsRequest(c, n)
    \/ \E f \in Fetch : StaticRequest(c, f)
    \/ \E masked \in BOOLEAN : Frame(c, masked)

InspectorNext ==
  \E d \in Device :
    \/ InspectorCloses(d)
    \/ \E apps \in SUBSET App : AppList(d, apps)
    \/ \E a \in App, updated \in BOOLEAN : AppConnected(d, a, updated)
    \/ \E a \in App : AppDisconnected(d, a) \/ SentListing(d, a) \/ StrayListing(d, a)
    \/ \E c \in Client : SentData(d, c)

FetchNext == \E f \in Fetch : FetchData(f) \/ FetchCloses(f)

EnvNext ==
  \/ \E p \in Port : TakePort(p) \/ ReleasePort(p)
  \/ Reconfigure

Next == DeviceNext \/ ClientNext \/ InspectorNext \/ FetchNext \/ EnvNext

Spec == Init /\ [][Next]_vars

-----------------------------------------------------------------------------
(* Every object has its type. *)
TypeOK ==
  /\ listener \in {"off", "up", "down"}
  /\ entries \in Configs
  /\ taken \subseteq Port
  /\ iport \in [Id -> PortRec]
  /\ iwi \in [Device -> InspectorRec]
  /\ ipage \in [PageRef -> PageRec]
  /\ iws \in [Client -> ClientRec]
  /\ ifs \in [Fetch -> FetchRec]

(* A client that points to a page is the one client of that page, under its own
   ws_id and on the page's device: what iwdp_on_frame relies on when it forwards
   a frame, and what the struct comment of iws->ipage asks for, whatever was
   stolen, claimed by another inspector client, closed or freed in between.
   (iws->page_num may differ: see PageClientIsLive.) *)
ClientsOwnTheirPage ==
  \A c \in Client :
    LET p == iws[c].ipage
    IN  p # None => /\ ipage[p].iws = c
                    /\ ipage[p].sender = c
                    /\ p[1] = iws[c].iport
                    /\ p[2] <= iwi[p[1]].max

(* The inspector has been asked for the session of the client of each page, and
   for no other that it was not told the end of: whether a client leaves a page
   by its own close, a theft, the end of its port or of the application, its
   session is ended, once, and under the ws_id it was set up with.  Two kinds of
   session are left open: those of a page that the last listing gave to another
   inspector client (Gone), and those of a page that nobody claimed but whose
   client lost it, because a page claimed earlier still had the client's address
   and was listed as another's again (Lost: what PageClientIsLive leads to). *)
SessionsAccounted ==
  \A p \in PageRef :
    ipage[p].sessions \ {Gone, Lost} =
      IF Stoppable(Heap, p) THEN {ipage[p].iws} ELSE {}

(* Between two callbacks the browser port of a device is open exactly while its
   inspector is: iwdp_on_list_request and iwdp_start_devtools rely on it, and
   it must survive failed attachments, detachments and every order in which
   the sockets of a device can close. *)
PortFollowsInspector == \A d \in Device : iport[d].open <=> iwi[d].open

(* A connected client belongs to an open port: no cascade of closes leaves a
   client behind, which would point to a freed iport. *)
ClientsOnOpenPorts == \A c \in Client : Live(Heap, c) => iport[iws[c].iport].open

(* Known browser ports do not share a TCP port, not even with the port that is
   remembered for a detached device. *)
PortsDistinct ==
  \A i, j \in Id : i # j /\ iport[i].port = iport[j].port => iport[i].port = 0

(* An inspector's pages are those of the applications it has connected, and no
   two of them are the same page of the same application, whatever listings
   arrive, late, repeated or for applications that went away.  (One listing names
   a page once here: see ListedOnce of InspectorLink.) *)
PagesIdentified ==
  /\ \A p \in PageRef : ipage[p].app # None => ipage[p].app \in iwi[p[1]].apps
  /\ \A p, q \in PageRef :
       /\ p # q /\ p[1] = q[1] /\ ipage[p].app # None
       => <<ipage[p].app, ipage[p].id>> # <<ipage[q].app, ipage[q].id>>

(* The fetch that a client points to is the one it started last: closing the
   client closes no fetch of another client, and what the file server sends on
   that fetch goes to this client, through reuse of both addresses.  (An earlier
   fetch of the client is not closed with it and keeps its address.) *)
FetchOfClient == \A c \in Client : iws[c].ifs # None => ifs[iws[c].ifs].iws = c

(* What a step may do to page numbers. *)
NumbersKept ==
  \A p \in PageRef :
    iwi[p[1]].open /\ iwi'[p[1]].open =>
      CASE ipage[p] # NoPage ->
             ipage'[p].app \in {ipage[p].app, None} /\ ipage'[p].id \in {ipage[p].id, None}
        [] ipage[p] = NoPage /\ ipage'[p] # NoPage -> p[2] > iwi[p[1]].max
        [] OTHER -> TRUE

(* The page a client owns may change hands or vanish, but a page number always
   means the same page of the same inspector: it is never given to another
   page, even after the page is gone. *)
PageNumbersStable == [][NumbersKept]_vars

(* The port of a device that a step opens. *)
PortKept ==
  \A d \in Device :
    /\ iport[d].sticky /\ ~iport[d].open /\ iport'[d].open
    /\ iport[d].port \notin taken
    /\ SelectPort(entries, d, iport[d].port).port = iport[d].port
    => iport'[d].port = iport[d].port

(* A device that was attached successfully and comes back gets the port it had,
   if that port can be bound and the configuration still allows it, and
   otherwise none that another known device holds. *)
StickyPort == [][PortKept]_vars

(* A step that closes the inspector of one device. *)
OthersLeftAlone ==
  \A d, e \in Device :
    /\ d # e
    /\ iwi[d].open /\ ~iwi'[d].open
    => /\ iport'[e] = iport[e] /\ iwi'[e] = iwi[e]
       /\ \A p \in PagesOf(e) : ipage'[p] = ipage[p]
       /\ \A c \in ClientsOf(Heap, e) : iws'[c] = iws[c]

(* When a device loses its inspector or its port, the clients, pages and ports
   of the other devices are left alone. *)
FailureIsLocal == [][OthersLeftAlone]_vars

(* A step that takes the page of a connected client. *)
LossExplained ==
  \A c \in Client :
    LET p == iws[c].ipage
    IN  /\ p # None /\ iws'[c].iport # None /\ iws'[c].ipage # p
        => \/ ipage'[p].sender # c
           \/ ipage'[p].remote
           \/ \E q \in PageRef : ipage[q].iws = c /\ ipage[q].sender # c

(* A client that stays connected loses its page only because the page records
   another client or none, or because another inspector client claimed it --
   or because a page that was claimed before still records the address of the
   client, as that of an earlier one: see PageClientIsLive. *)
PagesTakenForAReason == [][LossExplained]_vars

-----------------------------------------------------------------------------
(* What the code does not keep: what its comments say, or what it needs. *)

(* "owner is iport->ws_id_to_iws": the client a page records is a client of the
   page's port. *)
PageClientIsLive ==
  \A p \in PageRef : ipage[p].iws # None => iws[ipage[p].iws].iport = p[1]

(* Data that the inspector sends for a client whose socket works does not close
   the inspector, with the port and every other client of the device.  It does
   when the client has been sent a close frame, which ws_send_frame sends nothing
   after: the error it returns goes up to the socket manager. *)
DataKeepsInspector ==
  \A d \in Device : \A c \in ClientsOf(Heap, d) :
    iws[c].phase = "devtools" => DeliverData(Heap, d, c, TRUE).iwi[d].open

(* "only if we own that page": when iwdp_iwi_close hands over to
   iwdp_iport_close, no client points to a page that was freed. *)
NoFreedPageOnClose ==
  \A d \in Device :
    iwi[d].open =>
      LET h == FreeInspector(Heap, d)
      IN  \A c \in Client : h.iws[c].ipage # None => h.ipage[h.iws[c].ipage] # NoPage
=============================================================================
