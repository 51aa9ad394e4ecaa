--------------------------- MODULE SessionProofs ---------------------------
(***************************************************************************)
(* What an inspector's pages are, what becomes of their devtools sessions, *)
(* and what one callback leaves alone, on top of the invariant of          *)
(* IwdpProofs.  The inspector is told of the end of every session that it  *)
(* was asked for (SessionsAccounted); then the applications, ids and       *)
(* numbers of the pages (PagesIdentified, PageNumbersStable); then         *)
(* FetchOfClient, and the action properties of Iwdp about others' ports,   *)
(* pages, clients and fetches.                                             *)
(***************************************************************************)
EXTENDS IwdpProofs

(* SessionsAccounted, of any heap. *)
Accounted(h) ==
  \A p \in PageRef :
    h.ipage[p].sessions \ {Gone, Lost} = IF Stoppable(h, p) THEN {h.ipage[p].iws} ELSE {}

(* The clients of C that have not become websockets have no page. *)
Idle(h, C) == \A c \in C : h.iws[c].phase = "http" => h.iws[c].ipage = None

(* What a close or the end of a session does to any heap. *)
Settled(h, C) == h \in HeapType /\ Accounted(h) /\ Idle(h, C)

-----------------------------------------------------------------------------
(* A page without a session, and the page of one client. *)

(* Whether the session of a page can be stopped is a matter of the page and of
   the page of its client. *)
LEMMA SameStoppable ==
  ASSUME NEW h, NEW g, NEW p \in PageRef,
         g.ipage[p].iws = h.ipage[p].iws, g.ipage[p].sender = h.ipage[p].sender,
         h.ipage[p].iws \in Client =>
           (g.iws[h.ipage[p].iws].ipage = p <=> h.iws[h.ipage[p].iws].ipage = p)
  PROVE  Stoppable(g, p) <=> Stoppable(h, p)
  BY DEF Stoppable

(* Heaps with the same pages and the same pages of clients are accounted alike. *)
LEMMA SamePagesSettled ==
  ASSUME NEW h, NEW C \in SUBSET Client, Settled(h, C), NEW g \in HeapType,
         g.ipage = h.ipage,
         \A c \in Client : /\ g.iws[c].ipage = h.iws[c].ipage
                           /\ g.iws[c].phase = "http" => h.iws[c].phase = "http"
  PROVE  Settled(g, C)
<1>1. \A p \in PageRef : Stoppable(g, p) <=> Stoppable(h, p)
  BY SameStoppable
<1> QED
  BY <1>1 DEF Settled, Accounted, Idle

(* iwdp_stop_devtools, for a set of pages. *)
LEMMA StopDevtoolsSettled ==
  ASSUME NEW h, NEW C \in SUBSET Client, Settled(h, C), NEW P \in SUBSET PageRef
  PROVE  LET g == StopDevtools(h, P)
         IN  /\ Settled(g, C)
             /\ \A p \in PageRef : /\ g.ipage[p].iws \in {h.ipage[p].iws, None}
                                   /\ p \in P => ~Stoppable(g, p)
             /\ \A c \in Client : /\ g.iws[c].phase = h.iws[c].phase
                                  /\ g.iws[c].ipage \in {h.iws[c].ipage, None}
<1> DEFINE stopped == {p \in P : Stoppable(h, p)}
           g == StopDevtools(h, P)
<1>1. h \in HeapType
  BY DEF Settled
<1>2. /\ g \in HeapType
      /\ \A c \in Client : g.iws[c].ipage \in {h.iws[c].ipage, None}
  BY <1>1, StopDevtoolsType
<1>3. /\ \A p \in stopped : g.ipage[p] = EndSession(h.ipage[p])
      /\ \A p \in PageRef \ stopped : g.ipage[p] = h.ipage[p]
      /\ \A c \in Client : g.iws[c] = IF \E p \in stopped : h.ipage[p].iws = c
                                      THEN WithoutPage(h.iws[c]) ELSE h.iws[c]
  BY <1>1 DEF StopDevtools, HeapType
<1>4. ASSUME NEW c \in Client
      PROVE  /\ g.iws[c].phase = h.iws[c].phase
             /\ (\E p \in stopped : h.ipage[p].iws = c) => g.iws[c].ipage = None
             /\ ~(\E p \in stopped : h.ipage[p].iws = c) => g.iws[c] = h.iws[c]
  <2>1. h.iws[c] \in ClientRec
    BY <1>1 DEF HeapType
  <2>2. WithoutPage(h.iws[c]).phase = h.iws[c].phase /\ WithoutPage(h.iws[c]).ipage = None
    BY <2>1 DEF WithoutPage, ClientRec
  <2> QED
    BY <1>3, <2>2
<1> HIDE DEF g
<1>5. ASSUME NEW p \in stopped
      PROVE  /\ g.ipage[p].iws = None
             /\ ~Stoppable(g, p)
             /\ g.ipage[p].sessions \ {Gone, Lost} = {}
  <2> DEFINE page == h.ipage[p]
  <2>1. page \in PageRec /\ page.iws \in Client /\ page.sender = page.iws
    BY <1>1 DEF HeapType, Stoppable
  <2>2. page.sessions \ {Gone, Lost} = {page.iws}
    BY DEF Settled, Accounted
  <2>3. g.ipage[p] = EndSession(page)
    BY <1>3
  <2> HIDE DEF page, stopped
  <2>4. /\ g.ipage[p].iws = None
        /\ g.ipage[p].sessions =
              IF page.remote THEN {IF x = page.sender THEN Gone ELSE x : x \in page.sessions}
              ELSE page.sessions \ {page.sender}
    BY <2>1, <2>3, EndSessionType
  <2> QED
    BY <2>1, <2>2, <2>4, IwdpAssumption DEF Stoppable
<1>6. ASSUME NEW p \in PageRef, p \notin stopped
      PROVE  /\ g.ipage[p] = h.ipage[p]
             /\ Stoppable(g, p) <=> Stoppable(h, p)
  <2>1. g.ipage[p] = h.ipage[p]
    BY <1>3, <1>6
  <2>2. ASSUME h.ipage[p].iws \in Client
        PROVE  g.iws[h.ipage[p].iws].ipage = p <=> h.iws[h.ipage[p].iws].ipage = p
    <3> DEFINE c == h.ipage[p].iws
    <3>1. CASE \E q \in stopped : h.ipage[q].iws = c
      <4>1. g.iws[c].ipage = None
        BY <1>4, <2>2, <3>1
      <4>2. h.iws[c].ipage # p
        BY <1>6, <3>1 DEF Stoppable
      <4> QED
        BY <4>1, <4>2, NoneIsNoPage
    <3>2. CASE ~(\E q \in stopped : h.ipage[q].iws = c)
      BY <1>4, <2>2, <3>2
    <3> QED
      BY <3>1, <3>2
  <2> QED
    BY <2>1, <2>2, SameStoppable
<1>7. Accounted(g)
  <2> SUFFICES ASSUME NEW p \in PageRef
               PROVE  g.ipage[p].sessions \ {Gone, Lost} =
                        IF Stoppable(g, p) THEN {g.ipage[p].iws} ELSE {}
    BY DEF Accounted
  <2>1. CASE p \in stopped
    BY <1>5, <2>1
  <2>2. CASE p \notin stopped
    BY <1>6, <2>2 DEF Settled, Accounted
  <2> QED
    BY <2>1, <2>2
<1>8. Idle(g, C)
  BY <1>2, <1>4 DEF Settled, Idle
<1>9. \A p \in PageRef : /\ g.ipage[p].iws \in {h.ipage[p].iws, None}
                         /\ p \in P => ~Stoppable(g, p)
  <2> SUFFICES ASSUME NEW p \in PageRef
               PROVE  /\ g.ipage[p].iws \in {h.ipage[p].iws, None}
                      /\ p \in P => ~Stoppable(g, p)
    OBVIOUS
  <2>1. CASE p \in stopped
    BY <1>5, <2>1
  <2>2. CASE p \notin stopped
    BY <1>6, <2>2
  <2> QED
    BY <2>1, <2>2
<1> QED
  BY <1>2, <1>4, <1>7, <1>8, <1>9 DEF Settled, g

(* iwdp_ipage_free *)
LEMMA FreePagesSettled ==
  ASSUME NEW h, NEW C \in SUBSET Client, Settled(h, C), NEW P \in SUBSET PageRef
  PROVE  Settled(FreePages(h, P), C)
<1> DEFINE g == FreePages(h, P)
<1>1. /\ g \in HeapType /\ g.iws = h.iws
      /\ \A p \in PageRef : g.ipage[p] = IF p \in P THEN NoPage ELSE h.ipage[p]
  BY FreePagesType DEF Settled
<1> HIDE DEF g
<1>2. ASSUME NEW p \in PageRef
      PROVE  g.ipage[p].sessions \ {Gone, Lost} = IF Stoppable(g, p) THEN {g.ipage[p].iws} ELSE {}
  <2>1. CASE p \in P
    BY <1>1, <2>1, IwdpAssumption DEF NoPage, Stoppable
  <2>2. CASE p \notin P
    BY <1>1, <2>2 DEF Settled, Accounted, Stoppable
  <2> QED
    BY <2>1, <2>2
<1> QED
  BY <1>1, <1>2 DEF Settled, Accounted, Idle, g

(* iwdp_iws_close: the sessions of the clients that are closed end first; a page
   that keeps the address of one of them had no session of that client. *)
LEMMA CloseClientsSettled ==
  ASSUME NEW h, NEW K \in SUBSET Client, NEW C \in SUBSET Client, Settled(h, C \ K)
  PROVE  Settled(CloseClients(h, K), C)
<1> DEFINE owned == PagesWith(h, K)
           h1 == StopDevtools(h, owned)
           g == CloseClients(h, K)
<1>1. /\ h1 \in HeapType
      /\ Accounted(h1) /\ Idle(h1, C \ K)
      /\ \A p \in PageRef : /\ h1.ipage[p].iws \in {h.ipage[p].iws, None}
                            /\ p \in owned => ~Stoppable(h1, p)
  <2>1. owned \in SUBSET PageRef
    BY DEF PagesWith
  <2> HIDE DEF owned
  <2> QED
    BY <2>1, StopDevtoolsSettled DEF Settled
<1>2. /\ g \in HeapType
      /\ \A p \in PageRef : g.ipage[p] = IF h1.ipage[p].sender \in K
                                         THEN [h1.ipage[p] EXCEPT !.sender = Gone]
                                         ELSE h1.ipage[p]
      /\ \A c \in Client : g.iws[c] = IF c \in K THEN NoClient ELSE h1.iws[c]
  <2>1. h \in HeapType
    BY DEF Settled
  <2> QED
    BY <2>1, CloseClientsType
<1> HIDE DEF g, h1
<1>3. ASSUME NEW p \in PageRef
      PROVE  g.ipage[p].sessions \ {Gone, Lost} = IF Stoppable(g, p) THEN {g.ipage[p].iws} ELSE {}
  <2> DEFINE page == h1.ipage[p]
  <2>1. page \in PageRec
    BY <1>1 DEF HeapType
  <2>2. CASE page.sender \in K
    <3>1. ~Stoppable(h1, p)
      <4> SUFFICES ASSUME Stoppable(h1, p) PROVE FALSE
        OBVIOUS
      <4>1. page.iws \in K
        BY <2>2 DEF Stoppable
      <4>2. page.iws = h.ipage[p].iws
        BY <1>1, <4>1, IwdpAssumption
      <4> QED
        BY <1>1, <4>1, <4>2 DEF PagesWith
    <3>2. g.ipage[p] = [page EXCEPT !.sender = Gone]
      BY <1>2, <2>2
    <3>3. /\ g.ipage[p].sender = Gone
          /\ g.ipage[p].sessions = page.sessions
      BY <2>1, <3>2 DEF PageRec
    <3>4. ~Stoppable(g, p)
      BY <3>3, IwdpAssumption DEF Stoppable
    <3> QED
      BY <1>1, <3>1, <3>3, <3>4 DEF Accounted
  <2>3. CASE page.sender \notin K
    <3>1. g.ipage[p] = page
      BY <1>2, <2>3
    <3>2. CASE page.iws \in K
      BY <1>1, <2>3, <3>1, <3>2 DEF Accounted, Stoppable
    <3>3. CASE page.iws \notin K
      <4>1. page.iws \in Client => g.iws[page.iws] = h1.iws[page.iws]
        BY <1>2, <3>3
      <4> QED
        BY <1>1, <3>1, <4>1 DEF Accounted, Stoppable
    <3> QED
      BY <3>2, <3>3
  <2> QED
    BY <2>2, <2>3
<1>4. Idle(g, C)
  BY <1>1, <1>2 DEF Idle, NoClient
<1> QED
  BY <1>2, <1>3, <1>4 DEF Settled, Accounted, g

(* Freeing the inspector of a device ends its sessions with it. *)
LEMMA FreeInspectorSettled ==
  ASSUME NEW h, Settled(h, Client), NEW d \in Device
  PROVE  Settled(FreeInspector(h, d), Client)
<1> DEFINE h1 == FreePages(h, PagesOf(d))
           g == FreeInspector(h, d)
<1>1. Settled(h1, Client)
  BY FreePagesSettled DEF PagesOf
<1>2. g = [h1 EXCEPT !.iwi = [h1.iwi EXCEPT ![d] = NoInspector]]
  BY DEF FreeInspector
<1> HIDE DEF h1, g
<1>3. h1 \in HeapType
  BY <1>1 DEF Settled
<1>4. [h1.iwi EXCEPT ![d] = NoInspector] \in [Device -> InspectorRec]
  BY <1>3, IwdpAssumption DEF HeapType, InspectorRec, NoInspector
<1>5. g \in HeapType /\ g.ipage = h1.ipage /\ g.iws = h1.iws
  BY <1>2, <1>3, <1>4 DEF HeapType
<1> QED
  BY <1>1, <1>5, SamePagesSettled DEF g

(* iwdp_iport_close *)
LEMMA ClosePortSettled ==
  ASSUME NEW h, Settled(h, Client), NEW i \in Id
  PROVE  Settled(ClosePort(h, i), Client)
<1> DEFINE h1 == CloseClients(h, ClientsOf(h, i))
           h2 == IF i \in Device THEN FreeInspector(h1, i) ELSE h1
           port == IF h2.iport[i].sticky THEN [h2.iport[i] EXCEPT !.open = FALSE] ELSE NoPort
           g == ClosePort(h, i)
<1>1. Settled(h1, Client)
  <2> DEFINE K == ClientsOf(h, i)
  <2>1. K \in SUBSET Client /\ Settled(h, Client \ K)
    BY DEF Settled, Idle, ClientsOf
  <2> HIDE DEF K
  <2> QED
    BY <2>1, CloseClientsSettled DEF K
<1> HIDE DEF h1
<1>2. Settled(h2, Client)
  BY <1>1, FreeInspectorSettled
<1>3. g = [h2 EXCEPT !.iport = [h2.iport EXCEPT ![i] = port]]
  BY DEF ClosePort, h1
<1> HIDE DEF h2, g
<1>4. h2 \in HeapType /\ port \in PortRec
  <2>1. h2 \in HeapType
    BY <1>2 DEF Settled
  <2>2. h2.iport[i] \in PortRec
    BY <2>1 DEF HeapType
  <2> QED
    BY <2>1, <2>2 DEF PortRec, NoPort
<1> HIDE DEF port
<1>5. g \in HeapType /\ g.ipage = h2.ipage /\ g.iws = h2.iws
  <2>1. [h2.iport EXCEPT ![i] = port] \in [Id -> PortRec]
    BY <1>4 DEF HeapType
  <2> QED
    BY <1>3, <1>4, <2>1 DEF HeapType
<1> QED
  BY <1>2, <1>5, SamePagesSettled DEF g

(* iwdp_iwi_close *)
LEMMA CloseInspectorSettled ==
  ASSUME NEW h, Settled(h, Client), NEW d \in Device
  PROVE  Settled(CloseInspector(h, d), Client)
<1>1. Settled(FreeInspector(h, d), Client)
  BY FreeInspectorSettled
<1>2. Settled(ClosePort(FreeInspector(h, d), d), Client)
  BY <1>1, ClosePortSettled DEF Id
<1> QED
  BY <1>1, <1>2 DEF CloseInspector

(* iwdp_ifs_close *)
LEMMA CloseFetchSettled ==
  ASSUME NEW h, Settled(h, Client), NEW f \in Fetch
  PROVE  Settled(CloseFetch(h, f), Client)
<1> DEFINE c == h.ifs[f].iws
           clients == [x \in Client |->
                         IF x = c /\ h.iws[x].ifs = f
                         THEN [h.iws[x] EXCEPT !.ifs = None] ELSE h.iws[x]]
           fetches == [h.ifs EXCEPT ![f] = NoFetch]
           h1 == [h EXCEPT !.ifs = fetches, !.iws = clients]
<1>1. h \in HeapType
  BY DEF Settled
<1>2. fetches \in [Fetch -> FetchRec]
  BY <1>1 DEF HeapType, FetchRec, NoFetch
<1>3. ASSUME NEW x \in Client
      PROVE  /\ clients[x] \in ClientRec
             /\ clients[x].ipage = h.iws[x].ipage /\ clients[x].phase = h.iws[x].phase
  <2>1. h.iws[x] \in ClientRec
    BY <1>1 DEF HeapType
  <2> QED
    BY <2>1 DEF ClientRec
<1> HIDE DEF clients, fetches
<1>4. clients \in [Client -> ClientRec]
  BY <1>3 DEF clients
<1>5. h1 \in HeapType /\ h1.ipage = h.ipage /\ h1.iws = clients
  BY <1>1, <1>2, <1>4 DEF HeapType
<1> HIDE DEF h1
<1>6. Settled(h1, Client)
  BY <1>3, <1>5, SamePagesSettled
<1>7. c \in Client => Settled(CloseClients(h1, {c}), Client)
  <2>1. Settled(h1, Client \ {c})
    BY <1>6 DEF Settled, Idle
  <2> QED
    BY <2>1, CloseClientsSettled
<1> QED
  BY <1>6, <1>7 DEF CloseFetch, Live, h1, clients, fetches

-----------------------------------------------------------------------------
(* Attaching a device. *)

(* iwdp_listen writes the browser port alone. *)
LEMMA ListenSame ==
  ASSUME NEW h \in HeapType, NEW i \in Id
  PROVE  Listen(h, i).heap.ipage = h.ipage /\ Listen(h, i).heap.iws = h.iws
<1> DEFINE old == h.iport[i]
           sel == SelectPort(entries, i, Preferred(old))
           free == IF sel.min > 0
                   THEN {p \in Port : /\ p >= sel.min /\ p <= sel.max
                                      /\ p \notin UsedPorts(h) /\ p # sel.port /\ CanBind(h, p)}
                   ELSE {}
           set(r) == [h EXCEPT !.iport = [h.iport EXCEPT ![i] = r]]
           open(p) == [old EXCEPT !.known = TRUE, !.open = TRUE, !.port = p]
           l == Listen(h, i)
<1>1. \A r : set(r).ipage = h.ipage /\ set(r).iws = h.iws
  BY DEF HeapType
<1> HIDE DEF sel, free
<1>2. CASE old.open \/ sel.err \/ (sel.port < 0 /\ (sel.min < 0 \/ sel.max < sel.min))
  BY <1>2 DEF Listen, sel
<1>3. CASE ~(old.open \/ sel.err \/ (sel.port < 0 /\ (sel.min < 0 \/ sel.max < sel.min)))
  <2>1. l = IF sel.port \in Port /\ CanBind(h, sel.port)
            THEN [err |-> FALSE, heap |-> set(open(sel.port))]
            ELSE IF free # {} THEN [err |-> FALSE, heap |-> set(open(Min(free)))]
            ELSE [err |-> TRUE, heap |-> set(Unbound(old, sel.port))]
    BY <1>3 DEF Listen, sel, free
  <2> HIDE DEF l, set, open
  <2> QED
    BY <1>1, <2>1 DEF l
<1> QED
  BY <1>2, <1>3

(* iwdp_on_attach: an attachment that fails on the way closes the port again. *)
LEMMA AttachSettled ==
  ASSUME NEW h, NEW d \in Device, Good(h), Settled(h, Client),
         NEW connects \in BOOLEAN, NEW sends \in BOOLEAN
  PROVE  Settled(Attach(h, d, connects, sends), Client)
<1> DEFINE l == Listen(h, d)
           inspector == [NoInspector EXCEPT !.open = TRUE]
           h1 == [l.heap EXCEPT !.iwi = [l.heap.iwi EXCEPT ![d] = inspector]]
           h2 == [h1 EXCEPT !.iport = [h1.iport EXCEPT ![d] = [@ EXCEPT !.sticky = TRUE]]]
<1>1. /\ l.heap \in HeapType
      /\ l.heap.ipage = h.ipage /\ l.heap.iws = h.iws
  <2>1. l.heap \in HeapType
    <3>1. l.err \in BOOLEAN /\ (l.err => Good(l.heap)) /\ (~l.err => Closable(l.heap, d))
      BY ListenGood DEF Id, Listen
    <3> HIDE DEF l
    <3> QED
      BY <3>1 DEF Good, Closable
  <2> QED
    BY <2>1, ListenSame DEF Good, Id
<1>2. Attach(h, d, connects, sends) =
        IF l.err \/ l.heap.iwi[d].open THEN l.heap
        ELSE IF ~connects THEN ClosePort(l.heap, d)
        ELSE IF ~sends THEN ClosePort(h1, d)
        ELSE h2
  BY DEF Attach, GiveUp
<1> HIDE DEF l
<1>3. Settled(l.heap, Client)
  BY <1>1, SamePagesSettled
<1>4. /\ h1 \in HeapType
      /\ h1.ipage = l.heap.ipage /\ h1.iws = l.heap.iws
  <2>1. inspector \in InspectorRec
    <3>1. NoInspector \in InspectorRec
      BY IwdpAssumption DEF NoInspector, InspectorRec
    <3> QED
      BY <3>1 DEF InspectorRec
  <2> HIDE DEF inspector
  <2>2. [l.heap.iwi EXCEPT ![d] = inspector] \in [Device -> InspectorRec]
    BY <1>1, <2>1 DEF HeapType
  <2> QED
    BY <1>1, <2>2 DEF HeapType
<1> HIDE DEF h1
<1>5. Settled(h1, Client)
  BY <1>3, <1>4, SamePagesSettled
<1>6. /\ h2 \in HeapType
      /\ h2.ipage = h1.ipage /\ h2.iws = h1.iws
  <2> DEFINE port == [h1.iport[d] EXCEPT !.sticky = TRUE]
  <2>1. port \in PortRec
    <3>1. h1.iport[d] \in PortRec
      BY <1>4 DEF HeapType, Id
    <3> QED
      BY <3>1 DEF PortRec
  <2>2. h2 = [h1 EXCEPT !.iport = [h1.iport EXCEPT ![d] = port]]
    OBVIOUS
  <2> HIDE DEF port, h2
  <2>3. [h1.iport EXCEPT ![d] = port] \in [Id -> PortRec]
    BY <1>4, <2>1 DEF HeapType
  <2> QED
    BY <1>4, <2>2, <2>3 DEF HeapType
<1> HIDE DEF h2
<1>7. Settled(h2, Client)
  BY <1>5, <1>6, SamePagesSettled
<1>8. Settled(ClosePort(l.heap, d), Client) /\ Settled(ClosePort(h1, d), Client)
  BY <1>3, <1>5, ClosePortSettled DEF Id
<1> QED
  BY <1>2, <1>3, <1>7, <1>8

-----------------------------------------------------------------------------
(* Browser clients and inspectors. *)

(* iwdp_start_devtools, for a client that has no page yet: the session of the
   client that had the page is over before the new one begins. *)
LEMMA StartDevtoolsSettled ==
  ASSUME NEW h, Good(h), Settled(h, Client), NEW c \in Client, NEW p \in PageRef,
         h.iws[c].ipage = None, h.iws[c].iport = p[1], p[2] <= h.iwi[p[1]].max
  PROVE  Settled(StartDevtools(h, p, c), Client \ {c})
<1> DEFINE old == h.ipage[p].iws
           h1 == IF old = None THEN h ELSE StopDevtools(h, {p})
           num(x) == IF x = c \/ (x = old /\ Live(h, x)) THEN p[2] ELSE h1.iws[x].pageNum
           clients == [x \in Client |->
                         [h1.iws[x] EXCEPT !.pageNum = num(x),
                                           !.ipage = IF x = c THEN p ELSE h1.iws[x].ipage]]
           page == [h1.ipage[p] EXCEPT !.iws = c, !.sender = c, !.sessions = @ \cup {c}]
           pages == [h1.ipage EXCEPT ![p] = page]
           g == StartDevtools(h, p, c)
<1>1. /\ Settled(h1, Client)
      /\ ~Stoppable(h1, p)
      /\ h1.iws[c].ipage = None
  <2>1. CASE old = None
    BY <2>1, IwdpAssumption DEF Stoppable
  <2>2. CASE old # None
    <3>1. h1 = StopDevtools(h, {p})
      BY <2>2
    <3> HIDE DEF h1
    <3> QED
      BY <3>1, StopDevtoolsSettled
  <2> QED
    BY <2>1, <2>2
<1>2. g = [h1 EXCEPT !.ipage = pages, !.iws = clients]
  BY DEF StartDevtools
<1>3. g \in HeapType
  BY StartDevtoolsGood DEF Good
<1> HIDE DEF h1, num, g
<1>4. h1 \in HeapType
  BY <1>1 DEF Settled
<1>5. g.ipage = pages /\ g.iws = clients
  BY <1>2, <1>4 DEF HeapType
<1>6. ASSUME NEW x \in Client
      PROVE  /\ g.iws[x].ipage = IF x = c THEN p ELSE h1.iws[x].ipage
             /\ g.iws[x].phase = h1.iws[x].phase
  <2>1. h1.iws[x] \in ClientRec
    BY <1>4 DEF HeapType
  <2>2. clients[x].ipage = (IF x = c THEN p ELSE h1.iws[x].ipage)
        /\ clients[x].phase = h1.iws[x].phase
    BY <2>1 DEF ClientRec
  <2> HIDE DEF clients
  <2> QED
    BY <1>5, <2>2
<1>7. /\ g.ipage[p].iws = c /\ g.ipage[p].sender = c
      /\ g.ipage[p].sessions = h1.ipage[p].sessions \cup {c}
      /\ \A q \in PageRef \ {p} : g.ipage[q] = h1.ipage[q]
  <2>1. h1.ipage[p] \in PageRec /\ h1.ipage \in [PageRef -> PageRec]
    BY <1>4 DEF HeapType
  <2>2. page.iws = c /\ page.sender = c /\ page.sessions = h1.ipage[p].sessions \cup {c}
    BY <2>1 DEF PageRec
  <2> HIDE DEF page
  <2> QED
    BY <1>5, <2>1, <2>2
<1>8. ASSUME NEW q \in PageRef
      PROVE  g.ipage[q].sessions \ {Gone, Lost} = IF Stoppable(g, q) THEN {g.ipage[q].iws} ELSE {}
  <2>1. CASE q = p
    <3>1. Stoppable(g, p)
      BY <1>6, <1>7 DEF Stoppable
    <3>2. h1.ipage[p].sessions \ {Gone, Lost} = {}
      BY <1>1 DEF Settled, Accounted
    <3> QED
      BY <1>7, <2>1, <3>1, <3>2, IwdpAssumption
  <2>2. CASE q # p
    <3>1. g.ipage[q] = h1.ipage[q]
      BY <1>7, <2>2
    <3>2. Stoppable(g, q) <=> Stoppable(h1, q)
      <4>1. CASE h1.ipage[q].iws = c
        BY <1>1, <1>6, <2>2, <3>1, <4>1, NoneIsNoPage DEF Stoppable
      <4>2. CASE h1.ipage[q].iws # c
        BY <1>6, <3>1, <4>2 DEF Stoppable
      <4> QED
        BY <4>1, <4>2
    <3> QED
      BY <1>1, <3>1, <3>2 DEF Settled, Accounted
  <2> QED
    BY <2>1, <2>2
<1>9. Idle(g, Client \ {c})
  BY <1>1, <1>6 DEF Settled, Idle
<1> QED
  BY <1>3, <1>8, <1>9 DEF Settled, Accounted, g

(* iwdp_remove_app_id *)
LEMMA RemoveAppsSettled ==
  ASSUME NEW h, Good(h), Settled(h, Client), NEW d \in Device, h.iwi[d].open,
         NEW apps \in SUBSET App
  PROVE  Settled(RemoveApps(h, d, apps), Client)
<1> DEFINE P == {p \in PagesOf(d) : h.ipage[p].app \in apps \cap h.iwi[d].apps}
           h1 == FreePages(StopDevtools(h, P), P)
           r == [h1.iwi[d] EXCEPT !.apps = @ \ apps]
           g == RemoveApps(h, d, apps)
<1>1. P \in SUBSET PageRef
  BY DEF PagesOf
<1>2. g = [h1 EXCEPT !.iwi = [h1.iwi EXCEPT ![d] = r]]
  BY DEF RemoveApps
<1> HIDE DEF P, r
<1>3. Settled(StopDevtools(h, P), Client)
  BY <1>1, StopDevtoolsSettled
<1>4. Settled(h1, Client)
  BY <1>1, <1>3, FreePagesSettled
<1> HIDE DEF h1
<1>5. g \in HeapType
  BY RemoveAppsGood DEF Good
<1> HIDE DEF g
<1>6. g.ipage = h1.ipage /\ g.iws = h1.iws
  BY <1>2, <1>4 DEF Settled, HeapType
<1> QED
  BY <1>4, <1>5, <1>6, SamePagesSettled DEF g

(* iwdp_add_app_id and rpc_set_app *)
LEMMA AppsSettled ==
  ASSUME NEW h, Good(h), Settled(h, Client), NEW d \in Device, h.iwi[d].open,
         NEW apps \in SUBSET App
  PROVE  /\ Settled(AddApps(h, d, apps), Client)
         /\ \A a \in App : Settled(SetApp(h, d, a), Client)
<1>1. h \in HeapType
  BY DEF Settled
<1>2. /\ AddApps(h, d, apps) \in HeapType
      /\ \A a \in App : SetApp(h, d, a) \in HeapType
  BY AppsGood DEF Good
<1>3. /\ AddApps(h, d, apps).ipage = h.ipage /\ AddApps(h, d, apps).iws = h.iws
      /\ \A a \in App : SetApp(h, d, a).ipage = h.ipage /\ SetApp(h, d, a).iws = h.iws
  BY <1>1 DEF AddApps, SetApp, HeapType
<1> QED
  BY <1>2, <1>3, SamePagesSettled

(* iwdp_on_applicationSentListing: the session of a page that another inspector
   client has claimed is left open, and its client is no longer its client. *)
LEMMA MergeListingSettled ==
  ASSUME NEW h, Good(h), Settled(h, Client), NEW d \in Device, h.iwi[d].open, NEW a \in App,
         NEW ids \in SUBSET PageId, NEW listing \in [ids -> BOOLEAN], NEW num,
         LET new == NewPages(h, d, a, listing)
             max == h.iwi[d].max
         IN  /\ max + Cardinality(new) <= MaxPage
             /\ num \in Bijection(new, (max + 1)..(max + Cardinality(new)))
  PROVE  Settled(MergeListing(h, d, a, listing, num), Client)
<1> DEFINE kept == {p \in AppPages(h, d, a) : h.ipage[p].id \in DOMAIN listing}
           claimed == Claimed(h, kept, listing)
           losers == {h.ipage[p].iws : p \in claimed} \ {None}
           mark(p) == IF p \in claimed THEN Gone ELSE Lost
           left(p) == IF h.ipage[p].iws \in losers
                      THEN LeftOpen(h.ipage[p], h.ipage[p].iws, mark(p)) ELSE h.ipage[p]
           idOf(n) == CHOOSE i \in DOMAIN num : num[i] = n
           given(p) == p[1] = d /\ \E i \in DOMAIN num : num[i] = p[2]
           page(p) ==
             IF p \in kept THEN [left(p) EXCEPT !.remote = listing[h.ipage[p].id]]
             ELSE IF given(p)
             THEN [NoPage EXCEPT !.app = a, !.id = idOf(p[2]), !.remote = listing[idOf(p[2])]]
             ELSE left(p)
           pages == [p \in PageRef |-> page(p)]
           clients == [c \in Client |->
                         IF c \in losers
                         THEN [h.iws[c] EXCEPT !.ipage = None] ELSE h.iws[c]]
           inspectors == [h.iwi EXCEPT ![d] = CountPages(h.iwi[d], num)]
           h1 == [h EXCEPT !.iwi = inspectors, !.ipage = pages, !.iws = clients]
<1>1. h \in HeapType
  BY DEF Settled
<1>2. h1 = MergeListing(h, d, a, listing, num)
  BY DEF MergeListing
<1>3. h1 \in HeapType
  <2>1. Good(MergeListing(h, d, a, listing, num))
    BY MergeListingGood
  <2> QED
    BY <1>2, <2>1 DEF Good
<1>4. h1.ipage = pages /\ h1.iws = clients
  BY <1>1 DEF HeapType
<1>5. ASSUME NEW c \in Client
      PROVE  /\ h1.iws[c].phase = h.iws[c].phase
             /\ h1.iws[c].ipage = IF c \in losers THEN None ELSE h.iws[c].ipage
  <2>1. h.iws[c] \in ClientRec
    BY <1>1 DEF HeapType
  <2>2. /\ clients[c].phase = h.iws[c].phase
        /\ clients[c].ipage = IF c \in losers THEN None ELSE h.iws[c].ipage
    BY <2>1 DEF ClientRec
  <2> HIDE DEF clients, losers
  <2> QED
    BY <1>4, <2>2
<1>6. ASSUME NEW p \in PageRef
      PROVE  \/ /\ h1.ipage[p].iws = None
                /\ h1.ipage[p].sessions = {}
             \/ /\ h1.ipage[p].iws = h.ipage[p].iws
                /\ h1.ipage[p].sender = h.ipage[p].sender
                /\ h1.ipage[p].sessions =
                     IF h.ipage[p].iws \in losers
                     THEN {IF x = h.ipage[p].iws THEN mark(p) ELSE x : x \in h.ipage[p].sessions}
                     ELSE h.ipage[p].sessions
  <2>1. h.ipage[p] \in PageRec
    BY <1>1 DEF HeapType
  <2>2. /\ left(p) \in PageRec
        /\ left(p).iws = h.ipage[p].iws
        /\ left(p).sender = h.ipage[p].sender
        /\ left(p).sessions =
              IF h.ipage[p].iws \in losers
              THEN {IF x = h.ipage[p].iws THEN mark(p) ELSE x : x \in h.ipage[p].sessions}
              ELSE h.ipage[p].sessions
    <3>1. mark(p) \in {Gone, Lost}
      OBVIOUS
    <3> HIDE DEF losers, mark
    <3> DEFINE open == LeftOpen(h.ipage[p], h.ipage[p].iws, mark(p))
    <3>2. /\ open \in PageRec
          /\ open.iws = h.ipage[p].iws
          /\ open.sender = h.ipage[p].sender
      BY <2>1, <3>1, LeftOpenType
    <3>3. open.sessions =
            {IF x = h.ipage[p].iws THEN mark(p) ELSE x : x \in h.ipage[p].sessions}
      BY <2>1 DEF LeftOpen, PageRec
    <3>4. left(p) = IF h.ipage[p].iws \in losers THEN open ELSE h.ipage[p]
      OBVIOUS
    <3> HIDE DEF open, left
    <3> QED
      BY <2>1, <3>2, <3>3, <3>4
  <2>3. pages[p] = page(p)
    OBVIOUS
  <2> HIDE DEF left, pages, clients, inspectors, h1, kept, given, idOf, losers
  <2>4. CASE p \in kept
    <3>1. pages[p] = [left(p) EXCEPT !.remote = listing[h.ipage[p].id]]
      BY <2>3, <2>4
    <3> QED
      BY <1>4, <2>2, <3>1 DEF PageRec
  <2>5. CASE p \notin kept /\ given(p)
    <3>1. \A x, y, z : LET new == [NoPage EXCEPT !.app = x, !.id = y, !.remote = z]
                       IN  new.iws = None /\ new.sessions = {}
      BY DEF NoPage
    <3>2. pages[p] = [NoPage EXCEPT !.app = a, !.id = idOf(p[2]), !.remote = listing[idOf(p[2])]]
      BY <2>3, <2>5
    <3> QED
      BY <1>4, <3>1, <3>2
  <2>6. CASE p \notin kept /\ ~given(p)
    <3>1. pages[p] = left(p)
      BY <2>3, <2>6
    <3> QED
      BY <1>4, <2>2, <3>1
  <2> QED
    BY <2>4, <2>5, <2>6
<1>7. losers \in SUBSET Client
  <2>1. \A p \in PageRef : h.ipage[p].iws \in Client \cup {None}
    BY <1>1 DEF HeapType, PageRec
  <2> QED
    BY <2>1 DEF Claimed, AppPages, PagesOf
<1> HIDE DEF h1, losers, pages, clients
<1>8. ASSUME NEW p \in PageRef
      PROVE  h1.ipage[p].sessions \ {Gone, Lost} = IF Stoppable(h1, p) THEN {h1.ipage[p].iws} ELSE {}
  <2> DEFINE c == h.ipage[p].iws
  <2>1. h.ipage[p].sessions \ {Gone, Lost} = IF Stoppable(h, p) THEN {c} ELSE {}
    BY DEF Settled, Accounted
  <2>2. CASE h1.ipage[p].iws = None /\ h1.ipage[p].sessions = {}
    BY <2>2, IwdpAssumption DEF Stoppable
  <2>3. CASE /\ h1.ipage[p].iws = c /\ h1.ipage[p].sender = h.ipage[p].sender
             /\ c \in losers
             /\ h1.ipage[p].sessions = {IF x = c THEN mark(p) ELSE x : x \in h.ipage[p].sessions}
    <3>1. ~Stoppable(h1, p)
      BY <1>5, <1>7, <2>3, NoneIsNoPage DEF Stoppable
    <3>2. mark(p) \in {Gone, Lost}
      OBVIOUS
    <3> HIDE DEF mark
    <3>3. h1.ipage[p].sessions \ {Gone, Lost} = {}
      BY <2>1, <2>3, <3>2
    <3> QED
      BY <3>1, <3>3
  <2>4. CASE /\ h1.ipage[p].iws = c /\ h1.ipage[p].sender = h.ipage[p].sender
             /\ c \notin losers
             /\ h1.ipage[p].sessions = h.ipage[p].sessions
    <3>1. Stoppable(h1, p) <=> Stoppable(h, p)
      BY <1>5, <2>4 DEF Stoppable
    <3> QED
      BY <2>1, <2>4, <3>1
  <2> QED
    BY <1>6, <2>2, <2>3, <2>4
<1>9. Idle(h1, Client)
  BY <1>5 DEF Settled, Idle
<1>10. Settled(h1, Client)
  BY <1>3, <1>8, <1>9 DEF Settled, Accounted
<1> QED
  BY <1>2, <1>10

LEMMA TakeListingSettled ==
  ASSUME NEW h, Good(h), Settled(h, Client), NEW d \in Device, h.iwi[d].open, NEW a \in App,
         NEW ids \in SUBSET PageId, NEW listing \in [ids -> BOOLEAN], NEW num,
         LET new == NewPages(h, d, a, listing)
             max == h.iwi[d].max
         IN  /\ max + Cardinality(new) <= MaxPage
             /\ num \in Bijection(new, (max + 1)..(max + Cardinality(new)))
  PROVE  Settled(TakeListing(h, d, a, listing, num), Client)
<1> DEFINE gone == {p \in AppPages(h, d, a) : h.ipage[p].id \notin DOMAIN listing}
           h1 == MergeListing(h, d, a, listing, num)
<1>1. Settled(h1, Client)
  BY MergeListingSettled
<1>2. gone \in SUBSET PageRef
  BY DEF AppPages, PagesOf
<1>3. TakeListing(h, d, a, listing, num) = FreePages(StopDevtools(h1, gone), gone)
  BY DEF TakeListing
<1> HIDE DEF h1, gone
<1>4. Settled(StopDevtools(h1, gone), Client)
  BY <1>1, <1>2, StopDevtoolsSettled
<1> QED
  BY <1>2, <1>3, <1>4, FreePagesSettled

-----------------------------------------------------------------------------
(* The proof action by action. *)

(* A callback that makes the heap a settled one settles the variables. *)
LEMMA BecomeSettled ==
  ASSUME NEW h, Settled(h, Client), Become(h)
  PROVE  Settled(Heap, Client)'
<1>1. Heap' = h
  BY DEF Settled, HeapType, Heap, Become
<1> QED
  BY <1>1 DEF Settled, HeapType, Accounted, Idle, Stoppable

LEMMA SameHeapSettled ==
  ASSUME Settled(Heap, Client), UNCHANGED heapVars
  PROVE  Settled(Heap, Client)'
<1>1. Heap' = Heap
  BY DEF heapVars, Heap
<1> QED
  BY <1>1 DEF Settled, Accounted, Idle, Stoppable

(* What a callback does to a heap that the invariant holds of, from usbmuxd and
   the listening sockets. *)
LEMMA DeviceNextSettled ==
  ASSUME Inv, Settled(Heap, Client), DeviceNext
  PROVE  Settled(Heap, Client)'
<1>1. Good(Heap)
  BY DEF Inv
<1>2. CASE Start
  <2> DEFINE l == Listen(Heap, DeviceList)
  <2>1. Good(l.heap)
    <3>1. /\ l.err => Good(l.heap)
          /\ ~l.err => Closable(l.heap, DeviceList) /\ Own(l.heap, Client)
      BY <1>1, ListenGood DEF Id
    <3>2. Device \ {DeviceList} = Device
      BY IwdpAssumption
    <3> HIDE DEF l
    <3> QED
      BY <3>1, <3>2 DEF Closable, Good
  <2>2. l.heap.ipage = Heap.ipage /\ l.heap.iws = Heap.iws
    BY <1>1, ListenSame DEF Good, Id
  <2> HIDE DEF l
  <2>3. Settled(l.heap, Client)
    BY <2>1, <2>2, SamePagesSettled DEF Good
  <2>4. PICK connects \in BOOLEAN, sends \in BOOLEAN :
          Become(Attach(l.heap, Simulator, connects, sends))
    BY <1>2 DEF Start, l
  <2>5. Settled(Attach(l.heap, Simulator, connects, sends), Client)
    BY <2>1, <2>3, AttachSettled, IwdpAssumption
  <2> QED
    BY <2>4, <2>5, BecomeSettled
<1>3. ASSUME NEW d \in Device, DeviceAttached(d) PROVE Settled(Heap, Client)'
  <2>1. PICK connects \in BOOLEAN, sends \in BOOLEAN :
          Become(Attach(Heap, d, connects, sends))
    BY <1>3 DEF DeviceAttached
  <2>2. Settled(Attach(Heap, d, connects, sends), Client)
    BY <1>1, AttachSettled
  <2> QED
    BY <2>1, <2>2, BecomeSettled
<1>4. ASSUME NEW i \in Id, Become(ClosePort(Heap, i)) PROVE Settled(Heap, Client)'
  BY <1>4, ClosePortSettled, BecomeSettled
<1>5. CASE ListenerCloses
  BY <1>5, SameHeapSettled DEF ListenerCloses
<1> QED
  BY <1>2, <1>3, <1>4, <1>5 DEF DeviceNext, DeviceDetached, PortFails, Id

(* ... from browser clients. *)
LEMMA ClientNextSettled ==
  ASSUME Inv, Settled(Heap, Client), ClientNext
  PROVE  Settled(Heap, Client)'
<1>1. Good(Heap) /\ Heap \in HeapType
  BY DEF Inv, Good
<1>2. ASSUME NEW h, Settled(h, Client), NEW c \in Client
      PROVE  Settled(CloseClients(h, {c}), Client)
  <2>1. Settled(h, Client \ {c})
    BY <1>2 DEF Settled, Idle
  <2> QED
    BY <2>1, CloseClientsSettled
<1>3. ASSUME NEW c \in Client PROVE iws[c] \in ClientRec
  BY <1>1, HeapRecord DEF HeapType
<1>4. ASSUME NEW h, Settled(h, Client), NEW c \in Client, NEW r \in ClientRec,
             r.ipage = h.iws[c].ipage, r.phase = h.iws[c].phase,
             NEW fetches \in [Fetch -> FetchRec],
             NEW g, \/ g = [h EXCEPT !.iws = [h.iws EXCEPT ![c] = r]]
                    \/ g = [h EXCEPT !.ifs = fetches, !.iws = [h.iws EXCEPT ![c] = r]]
      PROVE  Settled(g, Client)
  <2> DEFINE clients == [h.iws EXCEPT ![c] = r]
  <2>1. h \in HeapType
    BY <1>4 DEF Settled
  <2>2. /\ clients \in [Client -> ClientRec]
        /\ \A x \in Client : /\ clients[x].ipage = h.iws[x].ipage
                             /\ clients[x].phase = h.iws[x].phase
    BY <1>4, <2>1 DEF HeapType
  <2> HIDE DEF clients
  <2>3. g \in HeapType /\ g.ipage = h.ipage /\ g.iws = clients
    BY <1>4, <2>1, <2>2 DEF HeapType, clients
  <2> QED
    BY <1>4, <2>2, <2>3, SamePagesSettled
<1>5. ASSUME NEW c \in Client, NEW i \in Id, Accept(i, c) PROVE Settled(Heap, Client)'
  <2> DEFINE r == [NoClient EXCEPT !.iport = i]
  <2>1. Good(Heap)'
    BY <1>5, ClientNextGood DEF Inv, ClientNext
  <2>2. r.phase = "http" /\ r.ipage = None
    BY DEF NoClient
  <2>3. Heap.iws[c].ipage = None
    <3>1. Heap.iws[c].ipage \in PageRef \cup {None} /\ Heap.iws[c].iport = None
      BY <1>1, <1>5 DEF Accept, Live, HeapType, ClientRec
    <3>2. ASSUME NEW p \in PageRef, Heap.iws[c].ipage = p PROVE Heap.iws[c].iport \in Id
      BY <1>1, <3>2 DEF Good, Own, PageRef, Id
    <3> QED
      BY <3>1, <3>2, IwdpAssumption
  <2> HIDE DEF r
  <2>4. ipage' = ipage /\ iws' = [iws EXCEPT ![c] = r]
    BY <1>5 DEF Accept, r
  <2> DEFINE g == Heap'
  <2>5. /\ g \in HeapType
        /\ g.ipage = Heap.ipage
        /\ g.iws = [Heap.iws EXCEPT ![c] = r]
    BY <2>1, <2>4 DEF Heap, Good, HeapType
  <2> HIDE DEF g
  <2>6. /\ \A p \in PageRef : Stoppable(g, p) <=> Stoppable(Heap, p)
        /\ Idle(g, Client)
    <3>1. \A x \in Client : g.iws[x] = IF x = c THEN r ELSE Heap.iws[x]
      BY <1>1, <2>5 DEF HeapType
    <3>2. \A x \in Client : g.iws[x].ipage = Heap.iws[x].ipage
      BY <2>2, <2>3, <3>1
    <3> QED
      BY <2>2, <2>5, <3>1, <3>2, SameStoppable DEF Settled, Idle
  <2>7. Settled(g, Client)
    BY <2>5, <2>6 DEF Settled, Accounted
  <2> QED
    BY <2>7 DEF g, Settled, Accounted, Idle, Stoppable
<1>6. ASSUME NEW c \in Client, ClientCloses(c) PROVE Settled(Heap, Client)'
  BY <1>2, <1>6, BecomeSettled DEF ClientCloses
<1>7. ASSUME NEW c \in Client, NEW n \in {0} \cup PageNum, DevtoolsRequest(c, n)
      PROVE  Settled(Heap, Client)'
  <2> DEFINE p == <<iws[c].iport, n>>
             found == p \in PageRef /\ iwi[p[1]].open /\ n <= iwi[p[1]].max /\ ipage[p] # NoPage
             h == IF found THEN StartDevtools(Heap, p, c) ELSE Heap
             phase == IF found THEN "devtools" ELSE "ws"
             r == [h.iws[c] EXCEPT !.phase = phase]
             g == [h EXCEPT !.iws[c].phase = phase]
  <2>1. Settled(h, Client \ {c})
    <3>1. CASE found
      <4>1. p \in PageRef /\ Heap.iws[c].iport = p[1] /\ p[2] <= Heap.iwi[p[1]].max
        BY <3>1, HeapRecord
      <4>2. Heap.iws[c].ipage = None
        BY <1>7, HeapRecord DEF DevtoolsRequest, Settled, Idle
      <4> QED
        BY <1>1, <3>1, <4>1, <4>2, StartDevtoolsSettled
    <3>2. CASE ~found
      BY <3>2 DEF Settled, Idle
    <3> QED
      BY <3>1, <3>2
  <2>2. PICK sends \in BOOLEAN : Become(IF sends THEN g ELSE CloseClients(h, {c}))
    BY <1>7 DEF DevtoolsRequest
  <2>3. g = [h EXCEPT !.iws = [h.iws EXCEPT ![c] = r]]
    OBVIOUS
  <2>4. phase # "http" /\ phase \in {"ws", "devtools"}
    OBVIOUS
  <2> HIDE DEF h, found, g, phase
  <2>5. h \in HeapType
    BY <2>1 DEF Settled
  <2>6. r \in ClientRec /\ r.phase = phase /\ r.ipage = h.iws[c].ipage
    <3>1. h.iws[c] \in ClientRec
      BY <2>5 DEF HeapType
    <3> QED
      BY <2>4, <3>1 DEF ClientRec
  <2> HIDE DEF r
  <2>7. Settled(g, Client)
    <3> DEFINE clients == [h.iws EXCEPT ![c] = r]
    <3>1. /\ clients \in [Client -> ClientRec]
          /\ \A x \in Client : /\ clients[x].ipage = h.iws[x].ipage
                               /\ clients[x].phase = IF x = c THEN phase ELSE h.iws[x].phase
      BY <2>5, <2>6 DEF HeapType
    <3> HIDE DEF clients
    <3>2. g \in HeapType /\ g.ipage = h.ipage /\ g.iws = clients
      BY <2>3, <2>5, <3>1 DEF HeapType, clients
    <3>3. Settled(g, Client \ {c})
      BY <2>1, <2>4, <3>1, <3>2, SamePagesSettled
    <3> QED
      BY <2>4, <3>1, <3>2, <3>3 DEF Settled, Idle
  <2>8. Settled(CloseClients(h, {c}), Client)
    BY <2>1, CloseClientsSettled
  <2> QED
    BY <2>2, <2>7, <2>8, BecomeSettled
<1>8. ASSUME NEW c \in Client, NEW f \in Fetch, StaticRequest(c, f)
      PROVE  Settled(Heap, Client)'
  <2> DEFINE fetches == [ifs EXCEPT ![f] = [open |-> TRUE, iws |-> c]]
             r == [iws[c] EXCEPT !.ifs = f]
             h == [Heap EXCEPT !.ifs[f] = [open |-> TRUE, iws |-> c], !.iws[c].ifs = f]
  <2>1. PICK sends \in BOOLEAN : Become(IF sends THEN h ELSE CloseClients(h, {c}))
    BY <1>8 DEF StaticRequest
  <2>2. h = [Heap EXCEPT !.ifs = fetches, !.iws = [Heap.iws EXCEPT ![c] = r]]
    BY DEF Heap
  <2>3. r \in ClientRec /\ r.ipage = Heap.iws[c].ipage /\ r.phase = Heap.iws[c].phase
    BY <1>3, HeapRecord DEF ClientRec
  <2>4. fetches \in [Fetch -> FetchRec]
    BY <1>1, HeapRecord DEF HeapType, FetchRec
  <2> HIDE DEF r, fetches, h
  <2>5. Settled(h, Client)
    BY <1>4, <2>2, <2>3, <2>4
  <2> QED
    BY <1>2, <2>1, <2>5, BecomeSettled
<1>9. ASSUME NEW c \in Client, NEW masked \in BOOLEAN, Frame(c, masked)
      PROVE  Settled(Heap, Client)'
  <2> DEFINE d == iws[c].iport
             refused == ~masked \/ d = DeviceList \/ ~iwi[d].open \/ iws[c].ipage = None
             r == [iws[c] EXCEPT !.sentClose = TRUE]
             close == [Heap EXCEPT !.iws[c].sentClose = TRUE]
  <2>1. PICK sends \in BOOLEAN :
          Become(CASE ~sends \/ (refused /\ iws[c].sentClose) -> CloseClients(Heap, {c})
                   [] sends /\ refused /\ ~iws[c].sentClose -> close
                   [] OTHER -> Heap)
    BY <1>9 DEF Frame
  <2>2. close = [Heap EXCEPT !.iws = [Heap.iws EXCEPT ![c] = r]]
    BY DEF Heap
  <2>3. r \in ClientRec /\ r.ipage = Heap.iws[c].ipage /\ r.phase = Heap.iws[c].phase
    BY <1>3, HeapRecord DEF ClientRec
  <2> HIDE DEF r, close, refused
  <2>4. Settled(close, Client)
    <3>1. ifs \in [Fetch -> FetchRec]
      BY <1>1, HeapRecord DEF HeapType
    <3> QED
      BY <1>4, <2>2, <2>3, <3>1
  <2>5. Become(CloseClients(Heap, {c})) \/ Become(close) \/ Become(Heap)
    BY <2>1
  <2> QED
    BY <1>2, <2>4, <2>5, BecomeSettled
<1> QED
  BY <1>5, <1>6, <1>7, <1>8, <1>9 DEF ClientNext

(* ... from inspectors. *)
LEMMA InspectorNextSettled ==
  ASSUME Inv, Settled(Heap, Client), InspectorNext
  PROVE  Settled(Heap, Client)'
<1>1. Good(Heap)
  BY DEF Inv
<1>2. ASSUME NEW d \in Device, Become(CloseInspector(Heap, d)) PROVE Settled(Heap, Client)'
  BY <1>2, CloseInspectorSettled, BecomeSettled
<1>3. ASSUME Become(Heap) PROVE Settled(Heap, Client)'
  BY <1>3, BecomeSettled
<1>4. ASSUME NEW d \in Device, NEW apps \in SUBSET App, AppList(d, apps)
      PROVE  Settled(Heap, Client)'
  <2> DEFINE h1 == RemoveApps(Heap, d, App \ apps)
             h2 == AddApps(h1, d, apps)
  <2>1. Heap.iwi[d].open
    BY <1>4, HeapRecord DEF AppList
  <2>2. /\ Good(h1) /\ h1.iwi[d].open
        /\ Settled(h1, Client)
    BY <1>1, <2>1, RemoveAppsGood, RemoveAppsSettled
  <2> HIDE DEF h1
  <2>3. /\ Good(h2) /\ h2.iwi[d].open
        /\ Settled(h2, Client)
    BY <2>2, AppsGood, AppsSettled
  <2> HIDE DEF h2
  <2>4. PICK last \in apps : Become(SetApp(h2, d, last))
    BY <1>4 DEF AppList, h1, h2
  <2>5. Settled(SetApp(h2, d, last), Client)
    BY <2>3, AppsSettled
  <2> QED
    BY <2>4, <2>5, BecomeSettled
<1>5. ASSUME NEW d \in Device, NEW a \in App, NEW updated \in BOOLEAN,
             AppConnected(d, a, updated)
      PROVE  Settled(Heap, Client)'
  <2> DEFINE h1 == IF updated THEN Heap ELSE SetApp(Heap, d, a)
             h2 == AddApps(h1, d, {a})
  <2>1. Heap.iwi[d].open
    BY <1>5, HeapRecord DEF AppConnected
  <2>2. /\ Good(h1) /\ h1.iwi[d].open
        /\ Settled(h1, Client)
    BY <1>1, <2>1, AppsGood, AppsSettled
  <2>3. PICK sends \in BOOLEAN :
          Become(IF sends \/ a \in iwi[d].apps THEN h2 ELSE CloseInspector(h2, d))
    BY <1>5 DEF AppConnected
  <2> HIDE DEF h1
  <2>4. Settled(h2, Client)
    BY <2>2, AppsSettled
  <2> HIDE DEF h2
  <2>5. Settled(CloseInspector(h2, d), Client)
    BY <2>4, CloseInspectorSettled
  <2> QED
    BY <2>3, <2>4, <2>5, BecomeSettled
<1>6. ASSUME NEW d \in Device, NEW a \in App, AppDisconnected(d, a)
      PROVE  Settled(Heap, Client)'
  <2>1. Settled(RemoveApps(Heap, d, {a}), Client)
    BY <1>1, <1>6, HeapRecord, RemoveAppsSettled DEF AppDisconnected
  <2> QED
    BY <1>6, <2>1, BecomeSettled DEF AppDisconnected
<1>7. ASSUME NEW d \in Device, NEW a \in App, SentListing(d, a) PROVE Settled(Heap, Client)'
  <2>0. PICK ids \in SUBSET PageId : \E listing \in [ids -> BOOLEAN] :
          LET new == NewPages(Heap, d, a, listing)
              max == iwi[d].max
          IN  /\ max + Cardinality(new) <= MaxPage
              /\ \E num \in Bijection(new, (max + 1)..(max + Cardinality(new))) :
                   Become(TakeListing(Heap, d, a, listing, num))
    BY <1>7 DEF SentListing
  <2>1. PICK listing \in [ids -> BOOLEAN] :
          LET new == NewPages(Heap, d, a, listing)
              max == iwi[d].max
          IN  /\ max + Cardinality(new) <= MaxPage
              /\ \E num \in Bijection(new, (max + 1)..(max + Cardinality(new))) :
                   Become(TakeListing(Heap, d, a, listing, num))
    BY <2>0
  <2> DEFINE new == NewPages(Heap, d, a, listing)
             max == iwi[d].max
  <2>2. PICK num \in Bijection(new, (max + 1)..(max + Cardinality(new))) :
          Become(TakeListing(Heap, d, a, listing, num))
    BY <2>1
  <2>3. Heap.iwi[d].open /\ Heap.iwi[d].max = max
    BY <1>7, HeapRecord DEF SentListing
  <2>4. Settled(TakeListing(Heap, d, a, listing, num), Client)
    BY <1>1, <2>1, <2>2, <2>3, TakeListingSettled
  <2> QED
    BY <2>2, <2>4, BecomeSettled
<1> QED
  BY <1>2, <1>3, <1>4, <1>5, <1>6, <1>7
  DEF InspectorNext, InspectorCloses, StrayListing, SentData, DeliverData

(* ... and from the servers of static files. *)
LEMMA FetchNextSettled ==
  ASSUME Settled(Heap, Client), FetchNext
  PROVE  Settled(Heap, Client)'
<1>1. ASSUME NEW f \in Fetch, FetchData(f) PROVE Settled(Heap, Client)'
  <2> DEFINE c == ifs[f].iws
             h == IF Live(Heap, c) THEN CloseClients(Heap, {c}) ELSE Heap
  <2>1. PICK sends \in BOOLEAN :
          Become(IF sends /\ Live(Heap, c) THEN Heap
                 ELSE IF h.ifs[f].open THEN CloseFetch(h, f) ELSE h)
    BY <1>1 DEF FetchData
  <2>2. Settled(h, Client)
    <3>1. CASE Live(Heap, c)
      <4>1. {c} \in SUBSET Client /\ Settled(Heap, Client \ {c})
        BY <3>1 DEF Live, Settled, Idle
      <4> QED
        BY <3>1, <4>1, CloseClientsSettled
    <3>2. CASE ~Live(Heap, c)
      BY <3>2
    <3> QED
      BY <3>1, <3>2
  <2> HIDE DEF h
  <2>3. Settled(CloseFetch(h, f), Client)
    BY <2>2, CloseFetchSettled
  <2> QED
    BY <2>1, <2>2, <2>3, BecomeSettled
<1>2. ASSUME NEW f \in Fetch, FetchCloses(f) PROVE Settled(Heap, Client)'
  BY <1>2, CloseFetchSettled, BecomeSettled DEF FetchCloses
<1> QED
  BY <1>1, <1>2 DEF FetchNext

(* Between two callbacks the sessions are accounted for, and a client that has not
   become a websocket has no page. *)
LEMMA SettledInvariance == Spec => []Settled(Heap, Client)
<1>1. Init => Settled(Heap, Client)
  <2> SUFFICES ASSUME Init PROVE Settled(Heap, Client)
    OBVIOUS
  <2>1. Heap \in HeapType
    BY InitGood DEF Inv, Good
  <2>2. Accounted(Heap)
    BY HeapRecord, IwdpAssumption DEF Init, Accounted, Stoppable, NoPage
  <2>3. Idle(Heap, Client)
    BY HeapRecord DEF Init, Idle, NoClient
  <2> QED
    BY <2>1, <2>2, <2>3 DEF Settled
<1>2. ASSUME Inv, Settled(Heap, Client), [Next]_vars PROVE Settled(Heap, Client)'
  <2>1. CASE UNCHANGED vars
    BY <1>2, <2>1, SameHeapSettled DEF vars
  <2>2. CASE EnvNext
    <3>1. UNCHANGED heapVars
      BY <2>2 DEF EnvNext, TakePort, ReleasePort, Reconfigure
    <3> QED
      BY <1>2, <3>1, SameHeapSettled
  <2> QED
    BY <1>2, <2>1, <2>2, DeviceNextSettled, ClientNextSettled, InspectorNextSettled,
       FetchNextSettled DEF Next
<1> QED
  BY <1>1, <1>2, Invariance, PTL DEF Spec

(* Every session that the inspector was asked for is that of the client of its
   page, or the inspector has been told of its end, or another inspector client
   had the page: for any number of devices, clients, applications and pages. *)
THEOREM SessionsAreAccounted == Spec => []SessionsAccounted
<1>1. Settled(Heap, Client) => SessionsAccounted
  BY HeapRecord DEF Settled, Accounted, SessionsAccounted
<1> QED
  BY <1>1, SettledInvariance, PTL

-----------------------------------------------------------------------------
(* A page belongs to an application that its inspector has connected, and its
   number has been given out. *)
Known(h) ==
  \A p \in PageRef :
    h.ipage[p] # NoPage =>
      /\ h.ipage[p].app \in h.iwi[p[1]].apps
      /\ p[2] <= h.iwi[p[1]].max

(* No two pages of an inspector are the same page of the same application. *)
Unique(h) ==
  \A p, q \in PageRef :
    p # q /\ p[1] = q[1] /\ h.ipage[p] # NoPage
    => <<h.ipage[p].app, h.ipage[p].id>> # <<h.ipage[q].app, h.ipage[q].id>>

Identified(h) == h \in HeapType /\ Known(h) /\ Unique(h)

(* The page p of g is one of h, and the same page. *)
SamePage(h, g, p) ==
  /\ h.ipage[p] # NoPage
  /\ g.ipage[p].app = h.ipage[p].app
  /\ g.ipage[p].id = h.ipage[p].id

(* What every operation but a listing does to pages: none is added. *)
Keeps(h, g) == \A p \in PageRef : g.ipage[p] = NoPage \/ SamePage(h, g, p)

-----------------------------------------------------------------------------
(* Keeping pages. *)

LEMMA KeepsTransitive ==
  ASSUME NEW h, NEW g, NEW k, Keeps(h, g), Keeps(g, k)
  PROVE  Keeps(h, k)
  BY DEF Keeps, SamePage

LEMMA SamePagesKept ==
  ASSUME NEW h, NEW g, g.ipage = h.ipage
  PROVE  Keeps(h, g)
  BY DEF Keeps, SamePage

(* A heap without new pages is identified when its inspectors have taken back no
   page number and no application of a page. *)
LEMMA KeepsIdentified ==
  ASSUME NEW h, Identified(h), NEW g \in HeapType, Keeps(h, g),
         \A p \in PageRef : g.ipage[p] # NoPage =>
           /\ h.iwi[p[1]].max <= g.iwi[p[1]].max
           /\ g.ipage[p].app \in g.iwi[p[1]].apps
  PROVE  Identified(g)
<1>1. ASSUME NEW p \in PageRef, g.ipage[p] # NoPage
      PROVE  p[2] <= g.iwi[p[1]].max
  <2>1. p[2] <= h.iwi[p[1]].max /\ h.iwi[p[1]].max <= g.iwi[p[1]].max
    BY <1>1 DEF Identified, Known, Keeps, SamePage
  <2>2. p[1] \in Device /\ p[2] \in Nat
    BY DEF PageRef, PageNum
  <2>3. h.iwi[p[1]].max \in Nat /\ g.iwi[p[1]].max \in Nat
    BY <2>2, IwdpAssumption DEF Identified, HeapType, InspectorRec
  <2> QED
    BY <2>1, <2>2, <2>3
<1>2. Known(g)
  BY <1>1 DEF Known
<1>3. Unique(g)
  <2> SUFFICES ASSUME NEW p \in PageRef, NEW q \in PageRef,
                      p # q, p[1] = q[1], g.ipage[p] # NoPage,
                      g.ipage[p].app = g.ipage[q].app, g.ipage[p].id = g.ipage[q].id
               PROVE  FALSE
    BY DEF Unique
  <2>1. g.ipage[p].app \in App
    <3>1. p[1] \in Device
      BY DEF PageRef
    <3>2. g.iwi[p[1]].apps \in SUBSET App
      BY <3>1 DEF HeapType, InspectorRec
    <3> QED
      BY <1>2, <3>2 DEF Known
  <2>2. g.ipage[q] # NoPage
    BY <2>1, IwdpAssumption DEF NoPage
  <2>3. SamePage(h, g, p) /\ SamePage(h, g, q)
    BY <2>2 DEF Keeps
  <2> QED
    BY <2>3 DEF SamePage, Identified, Unique
<1> QED
  BY <1>2, <1>3 DEF Identified

(* The inspectors that have pages left are the same. *)
LEMMA SameInspectorsIdentified ==
  ASSUME NEW h, Identified(h), NEW g \in HeapType, Keeps(h, g),
         \A p \in PageRef : g.ipage[p] # NoPage => g.iwi[p[1]] = h.iwi[p[1]]
  PROVE  Identified(g)
<1>1. ASSUME NEW p \in PageRef, g.ipage[p] # NoPage
      PROVE  /\ h.iwi[p[1]].max <= g.iwi[p[1]].max
             /\ g.ipage[p].app \in g.iwi[p[1]].apps
  <2>1. p[1] \in Device
    BY DEF PageRef
  <2>2. g.iwi[p[1]].max \in Nat
    BY <2>1, IwdpAssumption DEF HeapType, InspectorRec
  <2> QED
    BY <1>1, <2>2 DEF Identified, Known, Keeps, SamePage
<1> QED
  BY <1>1, KeepsIdentified

-----------------------------------------------------------------------------
(* Ending sessions, closing clients and freeing pages. *)

LEMMA StopDevtoolsKeeps ==
  ASSUME NEW h \in HeapType, NEW P \in SUBSET PageRef
  PROVE  Keeps(h, StopDevtools(h, P))
<1> DEFINE stopped == {p \in P : Stoppable(h, p)}
           g == StopDevtools(h, P)
<1>1. \A p \in PageRef : g.ipage[p] = IF p \in stopped THEN EndSession(h.ipage[p])
                                      ELSE h.ipage[p]
  BY DEF StopDevtools, HeapType
<1> HIDE DEF g
<1>2. ASSUME NEW p \in PageRef, p \in stopped PROVE SamePage(h, g, p)
  <2>1. h.ipage[p] # NoPage
    BY <1>2, IwdpAssumption DEF Stoppable, NoPage
  <2>2. h.ipage[p] \in PageRec
    BY DEF HeapType
  <2>3. \A page \in PageRec : /\ EndSession(page).app = page.app
                              /\ EndSession(page).id = page.id
    BY DEF EndSession, LeftOpen, PageRec
  <2> QED
    BY <1>1, <1>2, <2>1, <2>2, <2>3 DEF SamePage
<1> QED
  BY <1>1, <1>2 DEF Keeps, SamePage, g

LEMMA CloseClientsKeeps ==
  ASSUME NEW h, Identified(h), NEW K \in SUBSET Client
  PROVE  Keeps(h, CloseClients(h, K)) /\ Identified(CloseClients(h, K))
<1> DEFINE h1 == StopDevtools(h, PagesWith(h, K))
           g == CloseClients(h, K)
<1>1. h \in HeapType
  BY DEF Identified
<1>2. h1 \in HeapType /\ Keeps(h, h1)
  BY <1>1, StopDevtoolsType, StopDevtoolsKeeps DEF PagesWith
<1>3. /\ g \in HeapType /\ g.iwi = h.iwi
      /\ \A p \in PageRef : g.ipage[p] = IF h1.ipage[p].sender \in K
                                         THEN [h1.ipage[p] EXCEPT !.sender = Gone]
                                         ELSE h1.ipage[p]
  BY <1>1, CloseClientsType
<1> HIDE DEF h1, g
<1>4. Keeps(h1, g)
  <2> SUFFICES ASSUME NEW p \in PageRef, h1.ipage[p].sender \in K
               PROVE  SamePage(h1, g, p)
    BY <1>3 DEF Keeps, SamePage
  <2>1. h1.ipage[p] # NoPage
    BY IwdpAssumption DEF NoPage
  <2>2. h1.ipage[p] \in PageRec
    BY <1>2 DEF HeapType
  <2> QED
    BY <1>3, <2>1, <2>2 DEF SamePage, PageRec
<1>5. Keeps(h, g)
  BY <1>2, <1>4, KeepsTransitive
<1> QED
  BY <1>3, <1>5, SameInspectorsIdentified DEF g

LEMMA FreePagesKeeps ==
  ASSUME NEW h, Identified(h), NEW P \in SUBSET PageRef
  PROVE  Keeps(h, FreePages(h, P)) /\ Identified(FreePages(h, P))
<1> DEFINE g == FreePages(h, P)
<1>1. /\ g \in HeapType /\ g.iwi = h.iwi
      /\ \A p \in PageRef : g.ipage[p] = IF p \in P THEN NoPage ELSE h.ipage[p]
  BY FreePagesType DEF Identified
<1> HIDE DEF g
<1>2. Keeps(h, g)
  BY <1>1 DEF Keeps, SamePage
<1> QED
  BY <1>1, <1>2, SameInspectorsIdentified DEF g

LEMMA FreeInspectorKeeps ==
  ASSUME NEW h, Identified(h), NEW d \in Device
  PROVE  Keeps(h, FreeInspector(h, d)) /\ Identified(FreeInspector(h, d))
<1> DEFINE h1 == FreePages(h, PagesOf(d))
           g == FreeInspector(h, d)
<1>1. /\ h1 \in HeapType /\ h1.iwi = h.iwi
      /\ \A p \in PagesOf(d) : h1.ipage[p] = NoPage
  BY FreePagesType DEF Identified, PagesOf
<1>2. Keeps(h, h1)
  BY FreePagesKeeps DEF PagesOf
<1>3. /\ g \in HeapType
      /\ \A e \in Device \ {d} : g.iwi[e] = h.iwi[e]
  <2>1. h \in HeapType /\ {} \in SUBSET Client /\ Own(h, {})
    BY DEF Identified, Own
  <2> HIDE DEF g
  <2> QED
    BY <2>1, FreeInspectorOwn DEF g
<1>4. g = [h1 EXCEPT !.iwi = [h1.iwi EXCEPT ![d] = NoInspector]]
  BY DEF FreeInspector
<1> HIDE DEF h1, g
<1>5. g.ipage = h1.ipage
  BY <1>1, <1>4 DEF HeapType
<1>6. Keeps(h, g)
  BY <1>2, <1>5 DEF Keeps, SamePage
<1>7. \A p \in PageRef : g.ipage[p] # NoPage => p[1] \in Device \ {d}
  BY <1>1, <1>5 DEF PagesOf, PageRef
<1> QED
  BY <1>3, <1>6, <1>7, SameInspectorsIdentified DEF g

(* iwdp_iport_close and iwdp_iwi_close *)
LEMMA ClosePortKeeps ==
  ASSUME NEW h, Identified(h), NEW i \in Id
  PROVE  Keeps(h, ClosePort(h, i)) /\ Identified(ClosePort(h, i))
<1> DEFINE h1 == CloseClients(h, ClientsOf(h, i))
           h2 == IF i \in Device THEN FreeInspector(h1, i) ELSE h1
           port == IF h2.iport[i].sticky THEN [h2.iport[i] EXCEPT !.open = FALSE] ELSE NoPort
           g == ClosePort(h, i)
<1>1. Keeps(h, h1) /\ Identified(h1)
  BY CloseClientsKeeps DEF ClientsOf
<1> HIDE DEF h1
<1>2. Keeps(h1, h2) /\ Identified(h2)
  <2>1. Keeps(h1, h1)
    BY SamePagesKept
  <2> QED
    BY <1>1, <2>1, FreeInspectorKeeps
<1>3. g = [h2 EXCEPT !.iport = [h2.iport EXCEPT ![i] = port]]
  BY DEF ClosePort, h1
<1> HIDE DEF h2, g
<1>4. h2 \in HeapType /\ port \in PortRec
  <2>1. h2.iport[i] \in PortRec
    BY <1>2 DEF Identified, HeapType
  <2> QED
    BY <1>2, <2>1 DEF Identified, PortRec, NoPort
<1> HIDE DEF port
<1>5. g \in HeapType /\ g.ipage = h2.ipage /\ g.iwi = h2.iwi
  <2>1. [h2.iport EXCEPT ![i] = port] \in [Id -> PortRec]
    BY <1>4 DEF HeapType
  <2> QED
    BY <1>3, <1>4, <2>1 DEF HeapType
<1>6. Keeps(h2, g)
  BY <1>5, SamePagesKept
<1>7. Keeps(h, g)
  BY <1>1, <1>2, <1>6, KeepsTransitive
<1> QED
  BY <1>2, <1>5, <1>6, <1>7, SameInspectorsIdentified DEF g

LEMMA CloseInspectorKeeps ==
  ASSUME NEW h, Identified(h), NEW d \in Device
  PROVE  Keeps(h, CloseInspector(h, d)) /\ Identified(CloseInspector(h, d))
<1> DEFINE h1 == FreeInspector(h, d)
<1>1. Keeps(h, h1) /\ Identified(h1)
  BY FreeInspectorKeeps
<1> HIDE DEF h1
<1>2. Keeps(h1, ClosePort(h1, d)) /\ Identified(ClosePort(h1, d))
  BY <1>1, ClosePortKeeps DEF Id
<1>3. Keeps(h, ClosePort(h1, d))
  BY <1>1, <1>2, KeepsTransitive
<1> QED
  BY <1>1, <1>2, <1>3 DEF CloseInspector, h1

(* iwdp_ifs_close *)
LEMMA CloseFetchKeeps ==
  ASSUME NEW h, Identified(h), NEW f \in Fetch
  PROVE  Keeps(h, CloseFetch(h, f)) /\ Identified(CloseFetch(h, f))
<1> DEFINE c == h.ifs[f].iws
           clients == [x \in Client |->
                         IF x = c /\ h.iws[x].ifs = f
                         THEN [h.iws[x] EXCEPT !.ifs = None] ELSE h.iws[x]]
           fetches == [h.ifs EXCEPT ![f] = NoFetch]
           h1 == [h EXCEPT !.ifs = fetches, !.iws = clients]
<1>1. h \in HeapType
  BY DEF Identified
<1>2. fetches \in [Fetch -> FetchRec]
  BY <1>1 DEF HeapType, FetchRec, NoFetch
<1>3. clients \in [Client -> ClientRec]
  BY <1>1 DEF HeapType, ClientRec
<1> HIDE DEF clients, fetches
<1>4. h1 \in HeapType /\ h1.ipage = h.ipage /\ h1.iwi = h.iwi
  BY <1>1, <1>2, <1>3 DEF HeapType
<1> HIDE DEF h1
<1>5. Keeps(h, h1) /\ Identified(h1)
  BY <1>4, SamePagesKept, SameInspectorsIdentified
<1>6. c \in Client => Keeps(h, CloseClients(h1, {c})) /\ Identified(CloseClients(h1, {c}))
  BY <1>5, CloseClientsKeeps, KeepsTransitive
<1> QED
  BY <1>5, <1>6 DEF CloseFetch, Live, h1, clients, fetches

-----------------------------------------------------------------------------
(* Attaching a device. *)

(* iwdp_listen writes no page and no inspector. *)
LEMMA ListenKeeps ==
  ASSUME NEW h, Good(h), Identified(h), NEW i \in Id
  PROVE  LET g == Listen(h, i).heap
         IN  g \in HeapType /\ g.iwi = h.iwi /\ Keeps(h, g) /\ Identified(g)
<1> DEFINE l == Listen(h, i)
           g == l.heap
<1>1. g \in HeapType /\ g.iwi = h.iwi
  <2>1. l.err \in BOOLEAN /\ (l.err => Good(l.heap)) /\ (~l.err => Closable(l.heap, i))
        /\ l.heap.iwi = h.iwi
    BY ListenGood DEF Listen
  <2> HIDE DEF l
  <2> QED
    BY <2>1 DEF Good, Closable
<1>2. g.ipage = h.ipage
  BY ListenSame DEF Good
<1> HIDE DEF l, g
<1> QED
  BY <1>1, <1>2, SamePagesKept, SameInspectorsIdentified DEF g, l

LEMMA AttachKeeps ==
  ASSUME NEW h, NEW d \in Device, Good(h), Identified(h),
         NEW connects \in BOOLEAN, NEW sends \in BOOLEAN
  PROVE  LET g == Attach(h, d, connects, sends)
         IN  Keeps(h, g) /\ Identified(g)
<1> DEFINE l == Listen(h, d)
           inspector == [NoInspector EXCEPT !.open = TRUE]
           h1 == [l.heap EXCEPT !.iwi = [l.heap.iwi EXCEPT ![d] = inspector]]
           h2 == [h1 EXCEPT !.iport = [h1.iport EXCEPT ![d] = [@ EXCEPT !.sticky = TRUE]]]
           g == Attach(h, d, connects, sends)
<1>1. l.heap \in HeapType /\ l.heap.iwi = h.iwi /\ Keeps(h, l.heap) /\ Identified(l.heap)
  BY ListenKeeps DEF Id
<1>2. g = IF l.err \/ l.heap.iwi[d].open THEN l.heap
          ELSE IF ~connects THEN ClosePort(l.heap, d)
          ELSE IF ~sends THEN ClosePort(h1, d)
          ELSE h2
  BY DEF Attach, GiveUp
<1>3. Good(g)
  BY AttachGood
<1> HIDE DEF l, g, h1, h2, inspector
<1>4. CASE l.err \/ l.heap.iwi[d].open
  BY <1>1, <1>2, <1>4 DEF g
<1>5. CASE ~(l.err \/ l.heap.iwi[d].open)
  <2>1. h.iwi[d] = NoInspector
    BY <1>1, <1>5 DEF Good, Zeroed
  <2>2. inspector \in InspectorRec /\ inspector.apps = {} /\ inspector.max = 0
    <3>1. NoInspector \in InspectorRec /\ NoInspector.apps = {} /\ NoInspector.max = 0
      BY IwdpAssumption DEF NoInspector, InspectorRec
    <3> QED
      BY <3>1 DEF InspectorRec, inspector
  <2>3. /\ h1 \in HeapType /\ h1.ipage = l.heap.ipage
        /\ h1.iwi = [l.heap.iwi EXCEPT ![d] = inspector]
    <3>1. [l.heap.iwi EXCEPT ![d] = inspector] \in [Device -> InspectorRec]
      BY <1>1, <2>2 DEF HeapType
    <3> QED
      BY <1>1, <3>1 DEF HeapType, h1
  <2>4. h1.iwi[d] = inspector /\ \A e \in Device \ {d} : h1.iwi[e] = l.heap.iwi[e]
    BY <1>1, <2>3 DEF HeapType
  (* A closed inspector has no page. *)
  <2>5. \A p \in PageRef : h1.ipage[p] # NoPage => h1.iwi[p[1]] = l.heap.iwi[p[1]]
    <3> SUFFICES ASSUME NEW p \in PageRef, h1.ipage[p] # NoPage, p[1] = d
                 PROVE  FALSE
      BY <2>4 DEF PageRef
    <3>1. l.heap.ipage[p].app \in l.heap.iwi[d].apps
      BY <1>1, <2>3 DEF Identified, Known
    <3> QED
      BY <1>1, <2>1, <3>1 DEF NoInspector
  <2>6. Keeps(l.heap, h1)
    BY <2>3, SamePagesKept
  <2>7. Keeps(h, h1) /\ Identified(h1)
    BY <1>1, <2>3, <2>5, <2>6, KeepsTransitive, SameInspectorsIdentified
  <2>8. Keeps(h, ClosePort(l.heap, d)) /\ Identified(ClosePort(l.heap, d))
    BY <1>1, ClosePortKeeps, KeepsTransitive DEF Id
  <2>9. Keeps(h, ClosePort(h1, d)) /\ Identified(ClosePort(h1, d))
    BY <2>7, ClosePortKeeps, KeepsTransitive DEF Id
  <2>10. CASE g = h2
    <3>1. g \in HeapType
      BY <1>3 DEF Good
    <3>2. g.ipage = h1.ipage /\ g.iwi = h1.iwi
      BY <2>3, <2>10 DEF HeapType, h2
    <3>3. Keeps(h1, g)
      BY <3>2, SamePagesKept
    <3> QED
      BY <2>7, <3>1, <3>2, <3>3, KeepsTransitive, SameInspectorsIdentified DEF g
  <2> QED
    BY <1>2, <1>5, <2>8, <2>9, <2>10 DEF g
<1> QED
  BY <1>4, <1>5 DEF g

-----------------------------------------------------------------------------
(* Clients and inspectors. *)

(* iwdp_start_devtools, for a page that exists. *)
LEMMA StartDevtoolsKeeps ==
  ASSUME NEW h, Good(h), Identified(h), NEW c \in Client, NEW p \in PageRef,
         h.iws[c].iport = p[1], p[2] <= h.iwi[p[1]].max, h.ipage[p] # NoPage
  PROVE  LET g == StartDevtools(h, p, c)
         IN  Keeps(h, g) /\ Identified(g)
<1> DEFINE old == h.ipage[p].iws
           h1 == IF old = None THEN h ELSE StopDevtools(h, {p})
           num(x) == IF x = c \/ (x = old /\ Live(h, x)) THEN p[2] ELSE h1.iws[x].pageNum
           clients == [x \in Client |->
                         [h1.iws[x] EXCEPT !.pageNum = num(x),
                                           !.ipage = IF x = c THEN p ELSE h1.iws[x].ipage]]
           page == [h1.ipage[p] EXCEPT !.iws = c, !.sender = c, !.sessions = @ \cup {c}]
           pages == [h1.ipage EXCEPT ![p] = page]
           g == StartDevtools(h, p, c)
<1>1. /\ h1 \in HeapType /\ h1.iwi = h.iwi /\ Keeps(h, h1)
      /\ SamePage(h, h1, p)
  <2>1. /\ h \in HeapType /\ Keeps(h, h) /\ SamePage(h, h, p)
    BY DEF Good, Keeps, SamePage
  <2> DEFINE f == StopDevtools(h, {p})
  <2>2. f \in HeapType /\ f.iwi = h.iwi /\ Keeps(h, f)
    BY <2>1, StopDevtoolsType, StopDevtoolsKeeps
  <2>3. SamePage(h, f, p)
    <3>1. h.ipage[p] \in PageRec
      BY <2>1 DEF HeapType
    <3>2. f.ipage[p] \in {h.ipage[p], EndSession(h.ipage[p])}
      BY <2>1 DEF StopDevtools, HeapType
    <3>3. \A x \in PageRec : EndSession(x).app = x.app /\ EndSession(x).id = x.id
      BY DEF EndSession, LeftOpen, PageRec
    <3> HIDE DEF f
    <3> QED
      BY <3>1, <3>2, <3>3 DEF SamePage
  <2> HIDE DEF f
  <2>4. h1 \in {h, f}
    BY DEF f
  <2> HIDE DEF h1
  <2> QED
    BY <2>1, <2>2, <2>3, <2>4
<1>2. g = [h1 EXCEPT !.ipage = pages, !.iws = clients]
  BY DEF StartDevtools
<1>3. g \in HeapType
  BY StartDevtoolsGood DEF Good
<1> HIDE DEF h1, num, clients, g
<1>4. page.app = h1.ipage[p].app /\ page.id = h1.ipage[p].id
  <2>1. h1.ipage[p] \in PageRec
    BY <1>1 DEF HeapType
  <2> QED
    BY <2>1 DEF PageRec
<1> HIDE DEF page
<1>5. /\ g.iwi = h.iwi
      /\ g.ipage[p] = page
      /\ \A q \in PageRef \ {p} : g.ipage[q] = h1.ipage[q]
  BY <1>1, <1>2 DEF HeapType
<1>6. Keeps(h, g)
  BY <1>1, <1>4, <1>5 DEF Keeps, SamePage
<1> QED
  BY <1>3, <1>5, <1>6, SameInspectorsIdentified DEF g

(* iwdp_remove_app_id: an application that goes takes its pages with it. *)
LEMMA RemoveAppsKeeps ==
  ASSUME NEW h, Good(h), Identified(h), NEW d \in Device, h.iwi[d].open,
         NEW apps \in SUBSET App
  PROVE  LET g == RemoveApps(h, d, apps)
         IN  Keeps(h, g) /\ Identified(g)
<1> DEFINE P == {p \in PagesOf(d) : h.ipage[p].app \in apps \cap h.iwi[d].apps}
           h1 == StopDevtools(h, P)
           h2 == FreePages(h1, P)
           r == [h2.iwi[d] EXCEPT !.apps = @ \ apps]
           g == RemoveApps(h, d, apps)
<1>1. P \in SUBSET PageRef /\ h \in HeapType
  BY DEF PagesOf, Good
<1>2. g = [h2 EXCEPT !.iwi = [h2.iwi EXCEPT ![d] = r]]
  BY DEF RemoveApps
<1>3. g \in HeapType
  BY RemoveAppsGood DEF Good
<1> HIDE DEF P, g, r
<1>4. h1 \in HeapType /\ h1.iwi = h.iwi /\ Keeps(h, h1)
  BY <1>1, StopDevtoolsType, StopDevtoolsKeeps
<1>5. Identified(h1)
  BY <1>4, SameInspectorsIdentified
<1> HIDE DEF h1
<1>6. /\ h2 \in HeapType /\ h2.iwi = h.iwi
      /\ \A p \in P : h2.ipage[p] = NoPage
      /\ Keeps(h1, h2)
  BY <1>1, <1>4, <1>5, FreePagesType, FreePagesKeeps
<1> HIDE DEF h2
<1>7. g.ipage = h2.ipage /\ g.iwi = [h.iwi EXCEPT ![d] = r]
  BY <1>2, <1>6 DEF HeapType
<1>8. Keeps(h, g)
  <2>1. Keeps(h2, g)
    BY <1>7, SamePagesKept
  <2> QED
    BY <1>4, <1>6, <2>1, KeepsTransitive
<1>9. r.apps = h.iwi[d].apps \ apps /\ r.max = h.iwi[d].max /\ r.max \in Nat
  <2>1. h2.iwi[d] \in InspectorRec /\ h2.iwi[d] = h.iwi[d]
    BY <1>6 DEF HeapType
  <2> QED
    BY <2>1, IwdpAssumption DEF r, InspectorRec
<1>10. g.iwi[d] = r /\ \A e \in Device \ {d} : g.iwi[e] = h.iwi[e]
  BY <1>1, <1>7 DEF HeapType
<1>11. ASSUME NEW p \in PageRef, g.ipage[p] # NoPage
       PROVE  /\ h.iwi[p[1]].max <= g.iwi[p[1]].max
              /\ g.ipage[p].app \in g.iwi[p[1]].apps
  <2>1. p[1] \in Device
    BY DEF PageRef
  <2>2. h.iwi[p[1]].max \in Nat /\ g.iwi[p[1]].max = h.iwi[p[1]].max
    BY <1>1, <1>9, <1>10, <2>1, IwdpAssumption DEF HeapType, InspectorRec
  <2>3. /\ h.ipage[p].app \in h.iwi[p[1]].apps
        /\ g.ipage[p].app = h.ipage[p].app
    BY <1>8, <1>11 DEF Keeps, SamePage, Identified, Known
  <2>4. p[1] = d => h.ipage[p].app \notin apps
    BY <1>6, <1>7, <1>11, <2>3 DEF P, PagesOf
  <2> QED
    BY <1>9, <1>10, <2>1, <2>2, <2>3, <2>4
<1> QED
  BY <1>3, <1>8, <1>11, KeepsIdentified DEF g

LEMMA AppsKeep ==
  ASSUME NEW h, Good(h), Identified(h), NEW d \in Device, h.iwi[d].open,
         NEW apps \in SUBSET App
  PROVE  /\ Keeps(h, AddApps(h, d, apps)) /\ Identified(AddApps(h, d, apps))
         /\ \A a \in App : Keeps(h, SetApp(h, d, a)) /\ Identified(SetApp(h, d, a))
<1>1. h \in HeapType /\ \A e \in Device : h.iwi[e] \in InspectorRec /\ h.iwi[e].max \in Nat
  BY IwdpAssumption DEF Good, HeapType, InspectorRec
<1>2. ASSUME NEW g \in HeapType, g.ipage = h.ipage,
             \A e \in Device : g.iwi[e].max = h.iwi[e].max /\ h.iwi[e].apps \subseteq g.iwi[e].apps
      PROVE  Keeps(h, g) /\ Identified(g)
  <2>1. Keeps(h, g)
    BY <1>2, SamePagesKept
  <2>2. ASSUME NEW p \in PageRef, g.ipage[p] # NoPage
        PROVE  /\ h.iwi[p[1]].max <= g.iwi[p[1]].max
               /\ g.ipage[p].app \in g.iwi[p[1]].apps
    <3>1. p[1] \in Device
      BY DEF PageRef
    <3> QED
      BY <1>1, <1>2, <2>2, <3>1 DEF Identified, Known
  <2> QED
    BY <2>1, <2>2, KeepsIdentified
<1>3. /\ AddApps(h, d, apps) \in HeapType
      /\ \A a \in App : SetApp(h, d, a) \in HeapType
  BY AppsGood DEF Good
<1>4. ASSUME NEW r \in InspectorRec, r.max = h.iwi[d].max, h.iwi[d].apps \subseteq r.apps,
             NEW g \in HeapType, g = [h EXCEPT !.iwi = [h.iwi EXCEPT ![d] = r]]
      PROVE  Keeps(h, g) /\ Identified(g)
  <2>1. g.ipage = h.ipage /\ g.iwi = [h.iwi EXCEPT ![d] = r]
    BY <1>1, <1>4 DEF HeapType
  <2>2. h.iwi \in [Device -> InspectorRec]
    BY <1>1 DEF HeapType
  <2>3. g.iwi[d] = r /\ \A e \in Device \ {d} : g.iwi[e] = h.iwi[e]
    BY <2>1, <2>2
  <2>4. \A e \in Device : g.iwi[e].max = h.iwi[e].max /\ h.iwi[e].apps \subseteq g.iwi[e].apps
    BY <1>4, <2>3
  <2> QED
    BY <1>2, <2>1, <2>4
<1>5. Keeps(h, AddApps(h, d, apps)) /\ Identified(AddApps(h, d, apps))
  <2> DEFINE r == [h.iwi[d] EXCEPT !.apps = @ \cup apps]
  <2>1. AddApps(h, d, apps) = [h EXCEPT !.iwi = [h.iwi EXCEPT ![d] = r]]
    BY DEF AddApps
  <2>2. r \in InspectorRec /\ r.max = h.iwi[d].max /\ h.iwi[d].apps \subseteq r.apps
    <3>1. h.iwi[d].apps \cup apps \in SUBSET App
      BY <1>1 DEF InspectorRec
    <3> QED
      BY <1>1, <3>1 DEF InspectorRec
  <2> HIDE DEF r
  <2> QED
    BY <1>3, <1>4, <2>1, <2>2
<1>6. ASSUME NEW a \in App
      PROVE  Keeps(h, SetApp(h, d, a)) /\ Identified(SetApp(h, d, a))
  <2> DEFINE r == [h.iwi[d] EXCEPT !.app = a]
  <2>1. SetApp(h, d, a) = [h EXCEPT !.iwi = [h.iwi EXCEPT ![d] = r]]
    BY DEF SetApp
  <2>2. r \in InspectorRec /\ r.max = h.iwi[d].max /\ h.iwi[d].apps \subseteq r.apps
    BY <1>1 DEF InspectorRec
  <2> HIDE DEF r
  <2> QED
    BY <1>3, <1>4, <2>1, <2>2
<1> QED
  BY <1>5, <1>6

(* A page that a listing adds has a number that has not been given out, and an id
   that the application did not have yet. *)
Added(h, g, d, a, new, num, p) ==
  /\ p[1] = d /\ h.ipage[p] = NoPage
  /\ \E i \in new : num[i] = p[2] /\ g.ipage[p].id = i
  /\ g.ipage[p].app = a
  /\ p[2] > h.iwi[d].max /\ p[2] <= h.iwi[d].max + Cardinality(new)

(* What a listing of an application does to pages and inspectors. *)
Merged(h, g, d, a, new, num) ==
  /\ g \in HeapType
  /\ \A e \in Device \ {d} : g.iwi[e] = h.iwi[e]
  /\ g.iwi[d].apps = h.iwi[d].apps
  /\ g.iwi[d].max = h.iwi[d].max + Cardinality(new)
  /\ \A p \in PageRef : \/ g.ipage[p] = NoPage
                        \/ SamePage(h, g, p)
                        \/ Added(h, g, d, a, new, num, p)

(* iwdp_on_applicationSentListing *)
LEMMA MergeListingPages ==
  ASSUME NEW h, Good(h), Identified(h), NEW d \in Device, h.iwi[d].open, NEW a \in App,
         NEW ids \in SUBSET PageId, NEW listing \in [ids -> BOOLEAN], NEW num,
         LET new == NewPages(h, d, a, listing)
             max == h.iwi[d].max
         IN  /\ max + Cardinality(new) <= MaxPage
             /\ num \in Bijection(new, (max + 1)..(max + Cardinality(new)))
  PROVE  Merged(h, MergeListing(h, d, a, listing, num), d, a, NewPages(h, d, a, listing), num)
<1> DEFINE new == NewPages(h, d, a, listing)
           max == h.iwi[d].max
           n == Cardinality(new)
           kept == {p \in AppPages(h, d, a) : h.ipage[p].id \in DOMAIN listing}
           claimed == Claimed(h, kept, listing)
           losers == {h.ipage[p].iws : p \in claimed} \ {None}
           mark(p) == IF p \in claimed THEN Gone ELSE Lost
           left(p) == IF h.ipage[p].iws \in losers
                      THEN LeftOpen(h.ipage[p], h.ipage[p].iws, mark(p)) ELSE h.ipage[p]
           idOf(x) == CHOOSE i \in DOMAIN num : num[i] = x
           given(p) == p[1] = d /\ \E i \in DOMAIN num : num[i] = p[2]
           page(p) ==
             IF p \in kept THEN [left(p) EXCEPT !.remote = listing[h.ipage[p].id]]
             ELSE IF given(p)
             THEN [NoPage EXCEPT !.app = a, !.id = idOf(p[2]), !.remote = listing[idOf(p[2])]]
             ELSE left(p)
           pages == [p \in PageRef |-> page(p)]
           clients == [c \in Client |->
                         IF c \in losers
                         THEN [h.iws[c] EXCEPT !.ipage = None] ELSE h.iws[c]]
           r == CountPages(h.iwi[d], num)
           inspectors == [h.iwi EXCEPT ![d] = r]
           h1 == [h EXCEPT !.iwi = inspectors, !.ipage = pages, !.iws = clients]
           g == MergeListing(h, d, a, listing, num)
<1>1. h \in HeapType /\ h.iwi[d] \in InspectorRec /\ max \in Nat
  BY IwdpAssumption DEF Good, HeapType, InspectorRec
<1>2. new \in SUBSET ids /\ n \in Nat
  <2>1. new \in SUBSET ids
    BY DEF NewPages
  <2>2. IsFiniteSet(new)
    BY <2>1, FS_Subset, IwdpAssumption
  <2> QED
    BY <2>1, <2>2, FS_CardinalityType
<1>3. DOMAIN num = new /\ \A i \in new : num[i] \in Nat /\ num[i] > max /\ num[i] <= max + n
  <2>1. num \in [new -> (max + 1)..(max + n)]
    BY DEF Bijection, Injection
  <2> HIDE DEF n
  <2> QED
    BY <1>1, <1>2, <2>1
<1>4. r.apps = h.iwi[d].apps /\ r.max = max + n
  BY <1>1, <1>3 DEF CountPages, InspectorRec
<1>5. h1 = g
  BY DEF MergeListing
<1>6. g \in HeapType
  BY MergeListingGood DEF Good
<1> HIDE DEF r, new, n, g
<1>7. g.iwi = inspectors /\ g.ipage = pages
  BY <1>1, <1>5 DEF HeapType
<1> HIDE DEF h1, clients
<1>8. g.iwi[d] = r /\ \A e \in Device \ {d} : g.iwi[e] = h.iwi[e]
  <2>1. h.iwi \in [Device -> InspectorRec]
    BY <1>1 DEF HeapType
  <2>2. g.iwi = [h.iwi EXCEPT ![d] = r]
    BY <1>7
  <2> HIDE DEF inspectors, pages
  <2> QED
    BY <2>1, <2>2
<1> HIDE DEF inspectors, losers
<1>9. ASSUME NEW p \in PageRef
      PROVE  \/ g.ipage[p] = NoPage
             \/ SamePage(h, g, p)
             \/ Added(h, g, d, a, new, num, p)
  <2> DEFINE old == h.ipage[p]
  <2>1. old \in PageRec /\ p[1] \in Device /\ p[2] \in Nat
    BY <1>1 DEF HeapType, PageRef, PageNum
  <2>2. g.ipage[p] = page(p)
    BY <1>7
  <2>3. /\ left(p) \in PageRec /\ left(p).app = old.app /\ left(p).id = old.id
        /\ old = NoPage => left(p) = NoPage
    <3>1. \A x, s, m : /\ x \in PageRec
                       /\ LeftOpen(x, s, m) \in PageRec
                       => /\ LeftOpen(x, s, m).app = x.app
                          /\ LeftOpen(x, s, m).id = x.id
      BY DEF LeftOpen, PageRec
    <3>2. old = NoPage => old.iws \notin losers
      BY DEF NoPage, losers
    <3>3. mark(p) \in {Gone, Lost}
      OBVIOUS
    <3> HIDE DEF old, mark, losers
    <3>4. LeftOpen(old, h.ipage[p].iws, mark(p)) \in PageRec
      BY <2>1, <3>3, LeftOpenType
    <3> QED
      BY <2>1, <3>1, <3>2, <3>4 DEF old
  <2> HIDE DEF left
  <2>4. CASE p \in kept
    <3>1. old # NoPage
      BY <2>4, IwdpAssumption DEF AppPages, NoPage
    <3>2. g.ipage[p] = [left(p) EXCEPT !.remote = listing[old.id]]
      BY <2>2, <2>4
    <3> HIDE DEF old
    <3>3. g.ipage[p].app = old.app /\ g.ipage[p].id = old.id
      BY <2>3, <3>2 DEF PageRec
    <3> QED
      BY <3>1, <3>3 DEF SamePage, old
  <2>5. CASE p \notin kept /\ given(p)
    <3> DEFINE i == idOf(p[2])
    <3>1. i \in new /\ num[i] = p[2]
      BY <1>3, <2>5
    <3> HIDE DEF i
    <3>2. g.ipage[p] = [NoPage EXCEPT !.app = a, !.id = i, !.remote = listing[i]]
      BY <2>2, <2>5 DEF i
    <3>3. g.ipage[p].app = a /\ g.ipage[p].id = i
      BY <3>2 DEF NoPage
    <3>4. p[1] = d /\ p[2] > max /\ p[2] <= max + n
      BY <1>3, <2>5, <3>1
    <3>5. old = NoPage
      <4> SUFFICES ASSUME old # NoPage PROVE p[2] <= max
        BY <1>1, <2>1, <3>4
      <4> QED
        BY <3>4 DEF Identified, Known
    <3> QED
      BY <3>1, <3>3, <3>4, <3>5 DEF Added, n
  <2>6. CASE p \notin kept /\ ~given(p)
    <3>1. g.ipage[p] = left(p)
      BY <2>2, <2>6
    <3> QED
      BY <2>3, <3>1 DEF SamePage
  <2> QED
    BY <2>4, <2>5, <2>6
<1> QED
  BY <1>4, <1>6, <1>8, <1>9 DEF Merged, g, new, n

(* The new pages are known, and other pages than the ones before. *)
LEMMA MergeListingIdentified ==
  ASSUME NEW h, Good(h), Identified(h), NEW d \in Device, h.iwi[d].open, NEW a \in App,
         a \in h.iwi[d].apps,
         NEW ids \in SUBSET PageId, NEW listing \in [ids -> BOOLEAN], NEW num,
         LET new == NewPages(h, d, a, listing)
             max == h.iwi[d].max
         IN  /\ max + Cardinality(new) <= MaxPage
             /\ num \in Bijection(new, (max + 1)..(max + Cardinality(new)))
  PROVE  Identified(MergeListing(h, d, a, listing, num))
<1> DEFINE new == NewPages(h, d, a, listing)
           max == h.iwi[d].max
           n == Cardinality(new)
           g == MergeListing(h, d, a, listing, num)
           added(p) == Added(h, g, d, a, new, num, p)
<1>0. Merged(h, g, d, a, new, num)
  BY MergeListingPages
<1>1. /\ g \in HeapType
      /\ \A e \in Device \ {d} : g.iwi[e] = h.iwi[e]
      /\ g.iwi[d].apps = h.iwi[d].apps
      /\ g.iwi[d].max = max + n
      /\ \A p \in PageRef : g.ipage[p] = NoPage \/ SamePage(h, g, p) \/ added(p)
  BY <1>0 DEF Merged
<1>2. n \in Nat
  <2>1. new \in SUBSET PageId
    BY DEF NewPages
  <2>2. IsFiniteSet(new)
    BY <2>1, FS_Subset, IwdpAssumption
  <2> QED
    BY <2>2, FS_CardinalityType
<1>3. max \in Nat
  BY IwdpAssumption DEF Good, HeapType, InspectorRec
<1>4. \A i \in new : i \notin {h.ipage[p].id : p \in AppPages(h, d, a)}
  BY DEF NewPages, AppPages
<1> HIDE DEF g, new, n
<1>5. ASSUME NEW p \in PageRef, g.ipage[p] # NoPage
      PROVE  /\ g.ipage[p].app \in g.iwi[p[1]].apps
             /\ p[2] <= g.iwi[p[1]].max
             /\ g.ipage[p].app \in App
  <2>1. p[1] \in Device /\ p[2] \in Nat
    BY DEF PageRef, PageNum
  <2>2. h.iwi[p[1]].apps \in SUBSET App
    BY <2>1 DEF Good, HeapType, InspectorRec
  <2>3. CASE added(p)
    BY <1>1, <2>3 DEF Added, n
  <2>4. CASE SamePage(h, g, p)
    <3>1. h.ipage[p].app \in h.iwi[p[1]].apps /\ p[2] <= h.iwi[p[1]].max
      BY <2>4 DEF SamePage, Identified, Known
    <3>2. p[1] = d => p[2] <= max + n
      BY <1>2, <1>3, <2>1, <3>1
    <3> QED
      BY <1>1, <2>1, <2>2, <2>4, <3>1, <3>2 DEF SamePage
  <2> QED
    BY <1>1, <1>5, <2>3, <2>4
<1>6. Known(g)
  BY <1>5 DEF Known
<1>7. Unique(g)
  <2> SUFFICES ASSUME NEW p \in PageRef, NEW q \in PageRef,
                      p # q, p[1] = q[1], g.ipage[p] # NoPage,
                      g.ipage[p].app = g.ipage[q].app, g.ipage[p].id = g.ipage[q].id
               PROVE  FALSE
    BY DEF Unique
  <2>1. g.ipage[q] # NoPage
    BY <1>5, IwdpAssumption DEF NoPage
  <2>2. CASE SamePage(h, g, p) /\ SamePage(h, g, q)
    BY <2>2 DEF SamePage, Identified, Unique
  <2>3. ASSUME NEW x \in PageRef, NEW y \in PageRef, added(x), SamePage(h, g, y),
               x[1] = y[1], g.ipage[x].app = g.ipage[y].app, g.ipage[x].id = g.ipage[y].id
        PROVE  FALSE
    <3>1. y \in AppPages(h, d, a) /\ h.ipage[y].id \in new
      BY <2>3 DEF Added, SamePage, AppPages, PagesOf
    <3> QED
      BY <1>4, <3>1
  <2>4. CASE added(p) /\ added(q)
    <3>1. p[2] = q[2]
      BY <2>4 DEF Added
    <3> QED
      BY <3>1 DEF PageRef
  <2> HIDE DEF added
  <2> QED
    BY <1>1, <2>1, <2>2, <2>3, <2>4
<1> QED
  BY <1>1, <1>6, <1>7 DEF Identified, g

(* No page takes a number that has been given out. *)
Stable(h, g) ==
  \A p \in PageRef :
    \/ g.ipage[p] = NoPage
    \/ SamePage(h, g, p)
    \/ h.ipage[p] = NoPage /\ p[2] > h.iwi[p[1]].max

LEMMA TakeListingStable ==
  ASSUME NEW h, Good(h), Identified(h), NEW d \in Device, h.iwi[d].open, NEW a \in App,
         a \in h.iwi[d].apps,
         NEW ids \in SUBSET PageId, NEW listing \in [ids -> BOOLEAN], NEW num,
         LET new == NewPages(h, d, a, listing)
             max == h.iwi[d].max
         IN  /\ max + Cardinality(new) <= MaxPage
             /\ num \in Bijection(new, (max + 1)..(max + Cardinality(new)))
  PROVE  LET g == TakeListing(h, d, a, listing, num)
         IN  Stable(h, g) /\ Identified(g)
<1> DEFINE gone == {p \in AppPages(h, d, a) : h.ipage[p].id \notin DOMAIN listing}
           h1 == MergeListing(h, d, a, listing, num)
           h2 == StopDevtools(h1, gone)
           g == TakeListing(h, d, a, listing, num)
<1>1. Identified(h1)
  BY MergeListingIdentified
<1>2. Stable(h, h1)
  <2>1. Merged(h, h1, d, a, NewPages(h, d, a, listing), num)
    BY MergeListingPages
  <2> HIDE DEF h1
  <2> QED
    BY <2>1 DEF Merged, Added, Stable
<1>3. gone \in SUBSET PageRef
  BY DEF AppPages, PagesOf
<1>4. g = FreePages(h2, gone)
  BY DEF TakeListing
<1> HIDE DEF h1, gone, g
<1>5. h2 \in HeapType /\ h2.iwi = h1.iwi /\ Keeps(h1, h2)
  BY <1>1, <1>3, StopDevtoolsType, StopDevtoolsKeeps DEF Identified
<1>6. Identified(h2)
  BY <1>1, <1>5, SameInspectorsIdentified
<1> HIDE DEF h2
<1>7. Keeps(h2, g) /\ Identified(g)
  BY <1>3, <1>4, <1>6, FreePagesKeeps
<1>8. Keeps(h1, g)
  BY <1>5, <1>7, KeepsTransitive
<1>9. Stable(h, g)
  BY <1>2, <1>8 DEF Stable, Keeps, SamePage
<1> QED
  BY <1>7, <1>9 DEF g

-----------------------------------------------------------------------------
(* The proof action by action. *)

(* A callback that leaves a heap identified, without giving out a number again. *)
LEMMA BecomeIdentified ==
  ASSUME NEW h, Stable(Heap, h), Identified(h), Become(h)
  PROVE  Identified(Heap)' /\ Stable(Heap, Heap')
<1>1. Heap' = h
  BY DEF Identified, HeapType, Heap, Become
<1> QED
  BY <1>1 DEF Identified, HeapType, Known, Unique

LEMMA KeepsIsStable ==
  ASSUME NEW h, NEW g, Keeps(h, g)
  PROVE  Stable(h, g)
  BY DEF Keeps, Stable

LEMMA SameHeapIdentified ==
  ASSUME Identified(Heap), Heap' = Heap
  PROVE  Identified(Heap)' /\ Stable(Heap, Heap')
  BY SamePagesKept, KeepsIsStable DEF Identified, Known, Unique

LEMMA DeviceNextStable ==
  ASSUME Inv, Identified(Heap), DeviceNext
  PROVE  Identified(Heap)' /\ Stable(Heap, Heap')
<1>1. Good(Heap)
  BY DEF Inv
<1>2. CASE Start
  <2> DEFINE l == Listen(Heap, DeviceList)
  <2>1. Good(l.heap)
    <3>1. /\ l.err => Good(l.heap)
          /\ ~l.err => Closable(l.heap, DeviceList) /\ Own(l.heap, Client)
      BY <1>1, ListenGood DEF Id
    <3>2. Device \ {DeviceList} = Device
      BY IwdpAssumption
    <3> HIDE DEF l
    <3> QED
      BY <3>1, <3>2 DEF Closable, Good
  <2>2. Keeps(Heap, l.heap) /\ Identified(l.heap)
    BY <1>1, ListenKeeps DEF Id
  <2> HIDE DEF l
  <2>3. PICK connects \in BOOLEAN, sends \in BOOLEAN :
          Become(Attach(l.heap, Simulator, connects, sends))
    BY <1>2 DEF Start, l
  <2> DEFINE h == Attach(l.heap, Simulator, connects, sends)
  <2>4. Keeps(l.heap, h) /\ Identified(h)
    BY <2>1, <2>2, AttachKeeps, IwdpAssumption
  <2> HIDE DEF h
  <2>5. Stable(Heap, h)
    BY <2>2, <2>4, KeepsTransitive, KeepsIsStable
  <2> QED
    BY <2>3, <2>4, <2>5, BecomeIdentified DEF h
<1>3. ASSUME NEW d \in Device, DeviceAttached(d)
      PROVE  Identified(Heap)' /\ Stable(Heap, Heap')
  <2>1. PICK connects \in BOOLEAN, sends \in BOOLEAN :
          Become(Attach(Heap, d, connects, sends))
    BY <1>3 DEF DeviceAttached
  <2> DEFINE h == Attach(Heap, d, connects, sends)
  <2>2. Keeps(Heap, h) /\ Identified(h)
    BY <1>1, AttachKeeps
  <2> HIDE DEF h
  <2> QED
    BY <2>1, <2>2, KeepsIsStable, BecomeIdentified DEF h
<1>4. ASSUME NEW i \in Id, Become(ClosePort(Heap, i))
      PROVE  Identified(Heap)' /\ Stable(Heap, Heap')
  BY <1>4, ClosePortKeeps, KeepsIsStable, BecomeIdentified
<1>5. CASE ListenerCloses
  <2>1. Heap' = Heap
    BY <1>5 DEF ListenerCloses, heapVars, Heap
  <2> QED
    BY <2>1, SameHeapIdentified
<1> QED
  BY <1>2, <1>3, <1>4, <1>5 DEF DeviceNext, DeviceDetached, PortFails, Id

LEMMA ClientNextStable ==
  ASSUME Inv, Identified(Heap), ClientNext
  PROVE  Identified(Heap)' /\ Stable(Heap, Heap')
<1>1. Good(Heap) /\ Heap \in HeapType
  BY DEF Inv, Good
(* Actions that write no page and no inspector. *)
<1>2. ASSUME NEW g, Good(g), g.ipage = Heap.ipage, g.iwi = Heap.iwi
      PROVE  Keeps(Heap, g) /\ Identified(g)
  BY <1>2, SamePagesKept, SameInspectorsIdentified DEF Good
<1>3. Good(Heap)'
  BY ClientNextGood DEF Inv
<1>4. ASSUME ipage' = ipage, iwi' = iwi
      PROVE  Identified(Heap)' /\ Stable(Heap, Heap')
  <2> DEFINE g == Heap'
  <2>1. g \in HeapType /\ g.ipage = Heap.ipage /\ g.iwi = Heap.iwi
    BY <1>3, <1>4 DEF Heap, Good, HeapType
  <2> HIDE DEF g
  <2>2. Keeps(Heap, g) /\ Identified(g)
    BY <2>1, SamePagesKept, SameInspectorsIdentified
  <2> QED
    BY <2>2, KeepsIsStable DEF g, Identified, Known, Unique, HeapType
<1>5. ASSUME NEW c \in Client, NEW i \in Id, Accept(i, c)
      PROVE  Identified(Heap)' /\ Stable(Heap, Heap')
  BY <1>4, <1>5 DEF Accept
<1>6. ASSUME NEW h, Keeps(Heap, h), Identified(h), NEW c \in Client, Become(CloseClients(h, {c}))
      PROVE  Identified(Heap)' /\ Stable(Heap, Heap')
  <2> DEFINE g == CloseClients(h, {c})
  <2>1. Keeps(h, g) /\ Identified(g)
    BY <1>6, CloseClientsKeeps
  <2> HIDE DEF g
  <2> QED
    BY <1>6, <2>1, KeepsTransitive, KeepsIsStable, BecomeIdentified DEF g
<1>7. ASSUME NEW c \in Client, ClientCloses(c)
      PROVE  Identified(Heap)' /\ Stable(Heap, Heap')
  BY <1>6, <1>7, SamePagesKept DEF ClientCloses
<1>8. ASSUME NEW c \in Client, NEW n \in {0} \cup PageNum, DevtoolsRequest(c, n)
      PROVE  Identified(Heap)' /\ Stable(Heap, Heap')
  <2> DEFINE p == <<iws[c].iport, n>>
             found == p \in PageRef /\ iwi[p[1]].open /\ n <= iwi[p[1]].max /\ ipage[p] # NoPage
             h == IF found THEN StartDevtools(Heap, p, c) ELSE Heap
             phase == IF found THEN "devtools" ELSE "ws"
             g == [h EXCEPT !.iws[c].phase = phase]
  <2>1. Keeps(Heap, h) /\ Identified(h)
    <3>1. CASE found
      <4>1. /\ p \in PageRef /\ Heap.iws[c].iport = p[1] /\ p[2] <= Heap.iwi[p[1]].max
            /\ Heap.ipage[p] # NoPage
        BY <3>1, HeapRecord
      <4> QED
        BY <1>1, <3>1, <4>1, StartDevtoolsKeeps
    <3>2. CASE ~found
      BY <3>2, SamePagesKept
    <3> QED
      BY <3>1, <3>2
  <2>2. PICK sends \in BOOLEAN : Become(IF sends THEN g ELSE CloseClients(h, {c}))
    BY <1>8 DEF DevtoolsRequest
  <2> HIDE DEF h, found, p
  <2>3. /\ g \in HeapType /\ g.ipage = h.ipage /\ g.iwi = h.iwi
    <3> DEFINE r == [h.iws[c] EXCEPT !.phase = phase]
    <3>1. h \in HeapType /\ h.iws[c] \in ClientRec
      BY <2>1 DEF Identified, HeapType
    <3>2. r \in ClientRec
      BY <3>1 DEF ClientRec
    <3>3. g = [h EXCEPT !.iws = [h.iws EXCEPT ![c] = r]]
      OBVIOUS
    <3> HIDE DEF r, g
    <3> QED
      BY <3>1, <3>2, <3>3 DEF HeapType
  <2> HIDE DEF g
  <2>4. Keeps(Heap, g) /\ Identified(g)
    BY <2>1, <2>3, SamePagesKept, SameInspectorsIdentified, KeepsTransitive
  <2>5. CASE Become(g)
    BY <2>4, <2>5, KeepsIsStable, BecomeIdentified
  <2>6. CASE Become(CloseClients(h, {c}))
    BY <1>6, <2>1, <2>6
  <2> QED
    BY <2>2, <2>5, <2>6
<1>9. ASSUME NEW c \in Client, NEW f \in Fetch, StaticRequest(c, f)
      PROVE  Identified(Heap)' /\ Stable(Heap, Heap')
  <2> DEFINE h == [Heap EXCEPT !.ifs[f] = [open |-> TRUE, iws |-> c], !.iws[c].ifs = f]
  <2>1. PICK sends \in BOOLEAN : Become(IF sends THEN h ELSE CloseClients(h, {c}))
    BY <1>9 DEF StaticRequest
  <2>2. h.ipage = Heap.ipage /\ h.iwi = Heap.iwi
    BY DEF Heap
  <2>3. h \in HeapType
    <3> DEFINE fetches == [ifs EXCEPT ![f] = [open |-> TRUE, iws |-> c]]
               clients == [iws EXCEPT ![c] = [@ EXCEPT !.ifs = f]]
    <3>1. fetches \in [Fetch -> FetchRec]
      BY <1>1, HeapRecord DEF HeapType, FetchRec
    <3>2. clients \in [Client -> ClientRec]
      BY <1>1, HeapRecord DEF HeapType, ClientRec
    <3>3. h = [Heap EXCEPT !.ifs = fetches, !.iws = clients]
      BY DEF Heap
    <3> HIDE DEF fetches, clients, h
    <3> QED
      BY <1>1, <3>1, <3>2, <3>3 DEF HeapType
  <2> HIDE DEF h
  <2>4. Keeps(Heap, h) /\ Identified(h)
    BY <2>2, <2>3, SamePagesKept, SameInspectorsIdentified
  <2>5. CASE Become(h)
    BY <2>4, <2>5, KeepsIsStable, BecomeIdentified
  <2>6. CASE Become(CloseClients(h, {c}))
    BY <1>6, <2>4, <2>6
  <2> QED
    BY <2>1, <2>5, <2>6
<1>10. ASSUME NEW c \in Client, NEW masked \in BOOLEAN, Frame(c, masked)
       PROVE  Identified(Heap)' /\ Stable(Heap, Heap')
  <2> DEFINE close == [Heap EXCEPT !.iws[c].sentClose = TRUE]
  <2>1. Become(CloseClients(Heap, {c})) \/ Become(close) \/ Become(Heap)
    BY <1>10 DEF Frame
  <2>2. close.ipage = Heap.ipage /\ close.iwi = Heap.iwi
    BY DEF Heap
  <2> HIDE DEF close
  <2>3. CASE Become(CloseClients(Heap, {c}))
    BY <1>6, <2>3, SamePagesKept
  <2>4. CASE Become(close) \/ Become(Heap)
    BY <1>4, <2>2, <2>4, HeapRecord DEF Become
  <2> QED
    BY <2>1, <2>3, <2>4
<1> QED
  BY <1>5, <1>7, <1>8, <1>9, <1>10 DEF ClientNext

LEMMA InspectorNextStable ==
  ASSUME Inv, Identified(Heap), InspectorNext
  PROVE  Identified(Heap)' /\ Stable(Heap, Heap')
<1>1. Good(Heap)
  BY DEF Inv
<1>2. ASSUME NEW h, Keeps(Heap, h), Identified(h), Become(h)
      PROVE  Identified(Heap)' /\ Stable(Heap, Heap')
  BY <1>2, KeepsIsStable, BecomeIdentified
<1>3. ASSUME NEW h, Keeps(Heap, h), Identified(h), NEW d \in Device,
             Become(CloseInspector(h, d))
      PROVE  Identified(Heap)' /\ Stable(Heap, Heap')
  <2> DEFINE g == CloseInspector(h, d)
  <2>1. Keeps(h, g) /\ Identified(g)
    BY <1>3, CloseInspectorKeeps
  <2> HIDE DEF g
  <2>2. Keeps(Heap, g)
    BY <1>3, <2>1, KeepsTransitive
  <2> QED
    BY <1>2, <1>3, <2>1, <2>2 DEF g
<1>4. Keeps(Heap, Heap)
  BY SamePagesKept
<1>5. ASSUME NEW d \in Device, NEW apps \in SUBSET App, AppList(d, apps)
      PROVE  Identified(Heap)' /\ Stable(Heap, Heap')
  <2> DEFINE h1 == RemoveApps(Heap, d, App \ apps)
             h2 == AddApps(h1, d, apps)
  <2>1. Heap.iwi[d].open
    BY <1>5, HeapRecord DEF AppList
  <2>2. /\ Good(h1) /\ h1.iwi[d].open
        /\ Keeps(Heap, h1) /\ Identified(h1)
    BY <1>1, <2>1, RemoveAppsGood, RemoveAppsKeeps
  <2> HIDE DEF h1
  <2>3. /\ Good(h2) /\ h2.iwi[d].open
        /\ Keeps(h1, h2) /\ Identified(h2)
    BY <2>2, AppsGood, AppsKeep
  <2> HIDE DEF h2
  <2>4. PICK last \in apps : Become(SetApp(h2, d, last))
    BY <1>5 DEF AppList, h1, h2
  <2> DEFINE h3 == SetApp(h2, d, last)
  <2>5. Keeps(h2, h3) /\ Identified(h3)
    BY <2>3, AppsKeep
  <2> HIDE DEF h3
  <2>6. Keeps(Heap, h3)
    BY <2>2, <2>3, <2>5, KeepsTransitive
  <2> QED
    BY <1>2, <2>4, <2>5, <2>6 DEF h3
<1>6. ASSUME NEW d \in Device, NEW a \in App, NEW updated \in BOOLEAN,
             AppConnected(d, a, updated)
      PROVE  Identified(Heap)' /\ Stable(Heap, Heap')
  <2> DEFINE h1 == IF updated THEN Heap ELSE SetApp(Heap, d, a)
             h2 == AddApps(h1, d, {a})
  <2>1. Heap.iwi[d].open
    BY <1>6, HeapRecord DEF AppConnected
  <2>2. /\ Good(h1) /\ h1.iwi[d].open
        /\ Keeps(Heap, h1) /\ Identified(h1)
    BY <1>1, <1>4, <2>1, AppsGood, AppsKeep
  <2>3. PICK sends \in BOOLEAN :
          Become(IF sends \/ a \in iwi[d].apps THEN h2 ELSE CloseInspector(h2, d))
    BY <1>6 DEF AppConnected
  <2> HIDE DEF h1
  <2>4. Keeps(h1, h2) /\ Identified(h2)
    BY <2>2, AppsKeep
  <2> HIDE DEF h2
  <2>5. Keeps(Heap, h2)
    BY <2>2, <2>4, KeepsTransitive
  <2> QED
    BY <1>2, <1>3, <2>3, <2>4, <2>5
<1>7. ASSUME NEW d \in Device, NEW a \in App, AppDisconnected(d, a)
      PROVE  Identified(Heap)' /\ Stable(Heap, Heap')
  <2> DEFINE h == RemoveApps(Heap, d, {a})
  <2>1. Keeps(Heap, h) /\ Identified(h)
    BY <1>1, <1>7, HeapRecord, RemoveAppsKeeps DEF AppDisconnected
  <2> HIDE DEF h
  <2> QED
    BY <1>2, <1>7, <2>1 DEF AppDisconnected, h
<1>8. ASSUME NEW d \in Device, NEW a \in App, SentListing(d, a)
      PROVE  Identified(Heap)' /\ Stable(Heap, Heap')
  <2>0. PICK ids \in SUBSET PageId : \E listing \in [ids -> BOOLEAN] :
          LET new == NewPages(Heap, d, a, listing)
              max == iwi[d].max
          IN  /\ max + Cardinality(new) <= MaxPage
              /\ \E num \in Bijection(new, (max + 1)..(max + Cardinality(new))) :
                   Become(TakeListing(Heap, d, a, listing, num))
    BY <1>8 DEF SentListing
  <2>1. PICK listing \in [ids -> BOOLEAN] :
          LET new == NewPages(Heap, d, a, listing)
              max == iwi[d].max
          IN  /\ max + Cardinality(new) <= MaxPage
              /\ \E num \in Bijection(new, (max + 1)..(max + Cardinality(new))) :
                   Become(TakeListing(Heap, d, a, listing, num))
    BY <2>0
  <2> DEFINE new == NewPages(Heap, d, a, listing)
             max == iwi[d].max
  <2>2. PICK num \in Bijection(new, (max + 1)..(max + Cardinality(new))) :
          Become(TakeListing(Heap, d, a, listing, num))
    BY <2>1
  <2>3. Heap.iwi[d].open /\ Heap.iwi[d].max = max /\ a \in Heap.iwi[d].apps
    BY <1>8, HeapRecord DEF SentListing
  <2> DEFINE h == TakeListing(Heap, d, a, listing, num)
  <2>4. Stable(Heap, h) /\ Identified(h)
    BY <1>1, <2>1, <2>2, <2>3, TakeListingStable
  <2> HIDE DEF h
  <2> QED
    BY <2>2, <2>4, BecomeIdentified DEF h
<1>9. ASSUME NEW d \in Device, NEW a \in App, StrayListing(d, a)
      PROVE  Identified(Heap)' /\ Stable(Heap, Heap')
  BY <1>2, <1>3, <1>4, <1>9 DEF StrayListing
<1>10. ASSUME NEW d \in Device, NEW c \in Client, SentData(d, c)
       PROVE  Identified(Heap)' /\ Stable(Heap, Heap')
  BY <1>2, <1>3, <1>4, <1>10 DEF SentData, DeliverData
<1> QED
  BY <1>3, <1>4, <1>5, <1>6, <1>7, <1>8, <1>9, <1>10 DEF InspectorNext, InspectorCloses

LEMMA FetchNextStable ==
  ASSUME Inv, Identified(Heap), FetchNext
  PROVE  Identified(Heap)' /\ Stable(Heap, Heap')
<1>1. ASSUME NEW h, Keeps(Heap, h), Identified(h), Become(h)
      PROVE  Identified(Heap)' /\ Stable(Heap, Heap')
  BY <1>1, KeepsIsStable, BecomeIdentified
<1>2. Keeps(Heap, Heap)
  BY SamePagesKept
<1>3. ASSUME NEW f \in Fetch, FetchData(f)
      PROVE  Identified(Heap)' /\ Stable(Heap, Heap')
  <2> DEFINE c == ifs[f].iws
             h == IF Live(Heap, c) THEN CloseClients(Heap, {c}) ELSE Heap
  <2>1. Keeps(Heap, h) /\ Identified(h)
    <3>1. c \in Client => Keeps(Heap, CloseClients(Heap, {c})) /\ Identified(CloseClients(Heap, {c}))
      BY CloseClientsKeeps
    <3> QED
      BY <1>2, <3>1 DEF Live
  <2>2. PICK sends \in BOOLEAN :
          Become(IF sends /\ Live(Heap, c) THEN Heap
                 ELSE IF h.ifs[f].open THEN CloseFetch(h, f) ELSE h)
    BY <1>3 DEF FetchData
  <2> HIDE DEF h
  <2> DEFINE g == CloseFetch(h, f)
  <2>3. Keeps(h, g) /\ Identified(g)
    BY <2>1, CloseFetchKeeps
  <2> HIDE DEF g
  <2>4. Keeps(Heap, g)
    BY <2>1, <2>3, KeepsTransitive
  <2> QED
    BY <1>1, <1>2, <2>1, <2>2, <2>3, <2>4 DEF g
<1>4. ASSUME NEW f \in Fetch, FetchCloses(f)
      PROVE  Identified(Heap)' /\ Stable(Heap, Heap')
  BY <1>1, <1>4, CloseFetchKeeps DEF FetchCloses
<1> QED
  BY <1>3, <1>4 DEF FetchNext

LEMMA NextStable ==
  ASSUME Inv, Identified(Heap), [Next]_vars
  PROVE  Identified(Heap)' /\ Stable(Heap, Heap')
<1>1. CASE UNCHANGED vars \/ EnvNext
  <2>1. Heap' = Heap
    BY <1>1 DEF EnvNext, TakePort, ReleasePort, Reconfigure, vars, heapVars, Heap
  <2> QED
    BY <2>1, SameHeapIdentified
<1> QED
  BY <1>1, DeviceNextStable, ClientNextStable, InspectorNextStable, FetchNextStable DEF Next

LEMMA IdentifiedInvariance == Spec => []Identified(Heap)
<1>1. Init => Identified(Heap)
  <2> SUFFICES ASSUME Init PROVE Identified(Heap)
    OBVIOUS
  <2>1. Heap \in HeapType
    BY InitGood DEF Inv, Good
  <2> QED
    BY <2>1, HeapRecord DEF Init, Identified, Known, Unique
<1> QED
  BY <1>1, NextStable, Invariance, PTL DEF Spec

-----------------------------------------------------------------------------
(* What follows. *)

(* An inspector's pages are those of the applications it has connected, and no
   two of them are the same page of the same application: whatever listings
   arrive, for any number of applications and pages. *)
THEOREM PagesAreIdentified == Spec => []PagesIdentified
<1>1. Identified(Heap) => PagesIdentified
  <2> SUFFICES ASSUME Identified(Heap) PROVE PagesIdentified
    OBVIOUS
  <2>1. \A p \in PageRef : ipage[p].app # None => ipage[p] # NoPage
    BY DEF NoPage
  <2> QED
    BY <2>1, HeapRecord DEF Identified, Known, Unique, PagesIdentified
<1> QED
  BY <1>1, IdentifiedInvariance, PTL

(* A page number always means the same page of the same inspector: the number of
   a page that is gone is never given out again. *)
THEOREM PageNumbersAreStable == Spec => PageNumbersStable
<1>1. ASSUME Stable(Heap, Heap') PROVE NumbersKept
  <2>1. Heap'.ipage = ipage'
    BY DEF Heap
  <2>2. NoPage.app = None /\ NoPage.id = None
    BY DEF NoPage
  <2> QED
    BY <1>1, <2>1, <2>2, HeapRecord DEF Stable, SamePage, NumbersKept
<1>2. Inv /\ Identified(Heap) /\ [Next]_vars => [NumbersKept]_vars
  BY <1>1, NextStable
<1> QED
  BY <1>2, Invariance, IdentifiedInvariance, PTL DEF Spec, PageNumbersStable

-----------------------------------------------------------------------------
(* What one callback may do to the clients, fetches, ports and pages that it is not
   about. *)

(* A client's fetch names that client, and a fetch that is closed is zeroed. *)
Fetches(h) ==
  /\ \A c \in Client : h.iws[c].ifs # None => h.ifs[h.iws[c].ifs].iws = c
  /\ \A f \in Fetch : h.ifs[f].open \/ h.ifs[f] = NoFetch

(* The client whose ws_id a page records is a client of the page's port, has that
   page or none, and, if it is one of C, has become a websocket. *)
Senders(h, C) ==
  \A p \in PageRef : \A c \in Client :
    h.ipage[p].sender = c =>
      /\ h.iws[c].iport = p[1]
      /\ h.iws[c].ipage \in {p, None}
      /\ c \in C => h.iws[c].phase # "http"

(* The port that is remembered for a device is a port. *)
Remembered(h) == \A d \in Device : h.iport[d].sticky => h.iport[d].known /\ h.iport[d].port # 0

Sound(h, C) == h \in HeapType /\ Fetches(h) /\ Senders(h, C) /\ Remembered(h)

-----------------------------------------------------------------------------
(* Steps that only take something away from pages and clients. *)

(* Pages may lose the client they record, and clients their page. *)
Ends(h, g) ==
  /\ g \in HeapType /\ g.iport = h.iport /\ g.ifs = h.ifs
  /\ \A p \in PageRef : g.ipage[p].sender \in {h.ipage[p].sender, None}
  /\ \A c \in Client : /\ g.iws[c].iport = h.iws[c].iport
                       /\ g.iws[c].phase = h.iws[c].phase
                       /\ g.iws[c].ifs = h.iws[c].ifs
                       /\ g.iws[c].ipage \in {h.iws[c].ipage, None}

LEMMA EndsTransitive ==
  ASSUME NEW h, NEW g, NEW k, Ends(h, g), Ends(g, k)
  PROVE  Ends(h, k)
  BY DEF Ends

LEMMA EndsSound ==
  ASSUME NEW h, NEW g, NEW C \in SUBSET Client, Sound(h, C), Ends(h, g)
  PROVE  Sound(g, C)
<1>1. Senders(g, C)
  <2> SUFFICES ASSUME NEW p \in PageRef, NEW c \in Client, g.ipage[p].sender = c
               PROVE  /\ g.iws[c].iport = p[1]
                      /\ g.iws[c].ipage \in {p, None}
                      /\ c \in C => g.iws[c].phase # "http"
    BY DEF Senders
  <2>1. h.ipage[p].sender = c
    BY IwdpAssumption DEF Ends
  <2> QED
    BY <2>1 DEF Ends, Sound, Senders
<1> QED
  BY <1>1 DEF Ends, Sound, Fetches, Remembered

(* What iwdp_stop_devtools does to one page and to one client. *)
LEMMA StopDevtoolsEffect ==
  ASSUME NEW h \in HeapType, NEW P \in SUBSET PageRef
  PROVE  LET g == StopDevtools(h, P)
         IN  /\ \A p \in PageRef :
                  \/ g.ipage[p] = h.ipage[p]
                  \/ /\ p \in P /\ Stoppable(h, p)
                     /\ g.ipage[p].sender = None /\ g.ipage[p].iws = None
                     /\ g.ipage[p].remote = h.ipage[p].remote
             /\ \A c \in Client :
                  \/ g.iws[c] = h.iws[c]
                  \/ /\ \E p \in P : Stoppable(h, p) /\ h.ipage[p].iws = c
                     /\ g.iws[c].ipage = None
                     /\ g.iws[c].iport = h.iws[c].iport
                     /\ g.iws[c].phase = h.iws[c].phase
                     /\ g.iws[c].ifs = h.iws[c].ifs
<1> DEFINE stopped == {p \in P : Stoppable(h, p)}
           g == StopDevtools(h, P)
<1>1. /\ \A p \in PageRef : g.ipage[p] = IF p \in stopped THEN EndSession(h.ipage[p])
                                         ELSE h.ipage[p]
      /\ \A c \in Client : g.iws[c] = IF \E p \in stopped : h.ipage[p].iws = c
                                      THEN WithoutPage(h.iws[c]) ELSE h.iws[c]
  BY DEF StopDevtools, HeapType
<1>2. ASSUME NEW page \in PageRec
      PROVE  LET e == EndSession(page)
             IN  e.sender = None /\ e.iws = None /\ e.remote = page.remote
  BY DEF EndSession, LeftOpen, PageRec
<1>3. ASSUME NEW client \in ClientRec
      PROVE  LET w == WithoutPage(client)
             IN  w.ipage = None /\ w.iport = client.iport /\ w.phase = client.phase
                 /\ w.ifs = client.ifs
  BY DEF WithoutPage, ClientRec
<1>4. /\ \A p \in PageRef : h.ipage[p] \in PageRec
      /\ \A c \in Client : h.iws[c] \in ClientRec
  BY DEF HeapType
<1> HIDE DEF g
<1> QED
  BY <1>1, <1>2, <1>3, <1>4 DEF g

LEMMA StopDevtoolsEnds ==
  ASSUME NEW h \in HeapType, NEW P \in SUBSET PageRef
  PROVE  Ends(h, StopDevtools(h, P))
<1> DEFINE g == StopDevtools(h, P)
<1>1. g \in HeapType /\ g.iport = h.iport /\ g.ifs = h.ifs
  BY StopDevtoolsType
<1>2. /\ \A p \in PageRef : g.ipage[p].sender \in {h.ipage[p].sender, None}
      /\ \A c \in Client : /\ g.iws[c].iport = h.iws[c].iport
                           /\ g.iws[c].phase = h.iws[c].phase
                           /\ g.iws[c].ifs = h.iws[c].ifs
                           /\ g.iws[c].ipage \in {h.iws[c].ipage, None}
  BY StopDevtoolsEffect
<1> HIDE DEF g
<1> QED
  BY <1>1, <1>2 DEF Ends, g

LEMMA FreePagesEnds ==
  ASSUME NEW h \in HeapType, NEW P \in SUBSET PageRef
  PROVE  Ends(h, FreePages(h, P))
<1> DEFINE g == FreePages(h, P)
<1>1. /\ g \in HeapType /\ g.iport = h.iport /\ g.iws = h.iws /\ g.ifs = h.ifs
      /\ \A p \in PageRef : g.ipage[p] = IF p \in P THEN NoPage ELSE h.ipage[p]
  BY FreePagesType
<1> HIDE DEF g
<1> QED
  BY <1>1 DEF Ends, NoPage, g

(* Writing an inspector is no concern of clients. *)
LEMMA InspectorEnds ==
  ASSUME NEW h \in HeapType, NEW d \in Device, NEW r \in InspectorRec
  PROVE  LET g == [h EXCEPT !.iwi = [h.iwi EXCEPT ![d] = r]]
         IN  /\ Ends(h, g)
             /\ g.ipage = h.ipage /\ g.iws = h.iws
             /\ g.iwi[d] = r /\ \A e \in Device \ {d} : g.iwi[e] = h.iwi[e]
<1> DEFINE g == [h EXCEPT !.iwi = [h.iwi EXCEPT ![d] = r]]
<1>1. [h.iwi EXCEPT ![d] = r] \in [Device -> InspectorRec]
  BY DEF HeapType
<1>2. /\ g \in HeapType
      /\ g.iport = h.iport /\ g.ipage = h.ipage /\ g.iws = h.iws /\ g.ifs = h.ifs
      /\ g.iwi = [h.iwi EXCEPT ![d] = r]
  BY <1>1 DEF HeapType
<1> HIDE DEF g
<1>3. g.iwi[d] = r /\ \A e \in Device \ {d} : g.iwi[e] = h.iwi[e]
  BY <1>2 DEF HeapType
<1> QED
  BY <1>2, <1>3 DEF Ends, g

LEMMA FreeInspectorEnds ==
  ASSUME NEW h \in HeapType, NEW d \in Device
  PROVE  LET g == FreeInspector(h, d)
         IN  /\ Ends(h, g) /\ g.iws = h.iws
             /\ \A p \in PageRef : g.ipage[p] = IF p[1] = d THEN NoPage ELSE h.ipage[p]
             /\ \A e \in Device \ {d} : g.iwi[e] = h.iwi[e]
<1> DEFINE h1 == FreePages(h, PagesOf(d))
           g == FreeInspector(h, d)
<1>1. /\ h1 \in HeapType /\ h1.iwi = h.iwi /\ h1.iws = h.iws
      /\ \A p \in PageRef : h1.ipage[p] = IF p[1] = d THEN NoPage ELSE h.ipage[p]
      /\ Ends(h, h1)
  BY FreePagesType, FreePagesEnds DEF PagesOf
<1>2. g = [h1 EXCEPT !.iwi = [h1.iwi EXCEPT ![d] = NoInspector]]
  BY DEF FreeInspector
<1>3. NoInspector \in InspectorRec
  BY IwdpAssumption DEF NoInspector, InspectorRec
<1> HIDE DEF h1, g
<1>4. /\ Ends(h1, g)
      /\ g.ipage = h1.ipage /\ g.iws = h1.iws
      /\ \A e \in Device \ {d} : g.iwi[e] = h1.iwi[e]
  BY <1>1, <1>2, <1>3, InspectorEnds
<1> QED
  BY <1>1, <1>4, EndsTransitive DEF g

-----------------------------------------------------------------------------
(* Closing sockets. *)

(* Only the port, the inspector, the pages and the clients of i may differ. *)
Only(h, g, i) ==
  /\ \A d \in Device \ {i} : g.iport[d] = h.iport[d] /\ g.iwi[d] = h.iwi[d]
  /\ \A p \in PageRef : p[1] # i => g.ipage[p] = h.ipage[p]
  /\ \A c \in Client : h.iws[c].iport # i => g.iws[c] = h.iws[c]

(* A client that is not closed keeps its page. *)
Spared(h, g) ==
  \A c \in Client : \/ g.iws[c].iport = None
                    \/ /\ g.iws[c].iport = h.iws[c].iport
                       /\ g.iws[c].ipage = h.iws[c].ipage

NoneOpened(h, g) == \A d \in Device : g.iport[d].open => h.iport[d].open

(* What closing sockets of i does. *)
Shut(h, g, i) == Only(h, g, i) /\ Spared(h, g) /\ NoneOpened(h, g)

LEMMA ShutTransitive ==
  ASSUME NEW h, NEW g, NEW k, NEW i, Shut(h, g, i), Shut(g, k, i)
  PROVE  Shut(h, k, i)
<1>1. Only(h, k, i)
  BY DEF Shut, Only
<1>2. Spared(h, k) /\ NoneOpened(h, k)
  BY DEF Shut, Spared, NoneOpened
<1> QED
  BY <1>1, <1>2 DEF Shut

(* iwdp_iws_close: what it does to clients, pages and fetches. *)
LEMMA CloseClientsEffect ==
  ASSUME NEW h \in HeapType, NEW K \in SUBSET Client
  PROVE  LET g == CloseClients(h, K)
         IN  /\ g \in HeapType /\ g.iport = h.iport /\ g.iwi = h.iwi
             /\ \A c \in Client : g.iws[c] = IF c \in K THEN NoClient ELSE h.iws[c]
             /\ \A p \in PageRef : /\ h.ipage[p].sender \notin K => g.ipage[p] = h.ipage[p]
                                   /\ g.ipage[p].sender \in {h.ipage[p].sender, None, Gone}
                                   /\ g.ipage[p].sender \notin K
                                   /\ g.ipage[p].remote = h.ipage[p].remote
             /\ \A f \in Fetch : g.ifs[f] = IF \E c \in K : h.iws[c].ifs = f
                                            THEN NoFetch ELSE h.ifs[f]
<1> DEFINE owned == PagesWith(h, K)
           h1 == StopDevtools(h, owned)
           g == CloseClients(h, K)
<1>1. owned \in SUBSET PageRef
  BY DEF PagesWith
<1>2. /\ g \in HeapType /\ g.iport = h.iport /\ g.iwi = h.iwi
      /\ \A p \in PageRef : g.ipage[p] = IF h1.ipage[p].sender \in K
                                         THEN [h1.ipage[p] EXCEPT !.sender = Gone]
                                         ELSE h1.ipage[p]
      /\ \A c \in Client : g.iws[c] = IF c \in K THEN NoClient ELSE h1.iws[c]
  BY CloseClientsType
<1>3. \A f \in Fetch : g.ifs[f] = IF \E c \in K : h.iws[c].ifs = f THEN NoFetch ELSE h.ifs[f]
  <2> DEFINE fetches == [f \in Fetch |->
                           IF f \in {h.iws[c].ifs : c \in K} THEN NoFetch ELSE h.ifs[f]]
             pages == [p \in PageRef |->
                         IF h1.ipage[p].sender \in K
                         THEN [h1.ipage[p] EXCEPT !.sender = Gone] ELSE h1.ipage[p]]
             clients == [c \in Client |-> IF c \in K THEN NoClient ELSE h1.iws[c]]
  <2>1. g = [h1 EXCEPT !.ipage = pages, !.iws = clients, !.ifs = fetches]
    BY DEF CloseClients, PagesWith
  <2>2. h1 \in HeapType
    BY <1>1, StopDevtoolsType
  <2> HIDE DEF g, h1, pages, clients, fetches
  <2>3. g.ifs = fetches
    BY <2>1, <2>2 DEF HeapType
  <2> QED
    BY <2>3 DEF fetches
<1>4. /\ h1 \in HeapType
      /\ \A p \in PageRef :
           \/ h1.ipage[p] = h.ipage[p]
           \/ /\ p \in owned /\ Stoppable(h, p)
              /\ h1.ipage[p].sender = None
              /\ h1.ipage[p].remote = h.ipage[p].remote
      /\ \A c \in Client : h1.iws[c] = h.iws[c] \/ \E p \in owned : h.ipage[p].iws = c
  <2>1. h1 \in HeapType
    BY <1>1, StopDevtoolsType
  <2> HIDE DEF owned
  <2> QED
    BY <1>1, <2>1, StopDevtoolsEffect
<1> HIDE DEF h1, g
<1>5. \A c \in Client : g.iws[c] = IF c \in K THEN NoClient ELSE h.iws[c]
  BY <1>2, <1>4 DEF PagesWith
<1>6. ASSUME NEW p \in PageRef
      PROVE  /\ h.ipage[p].sender \notin K => g.ipage[p] = h.ipage[p]
             /\ g.ipage[p].sender \in {h.ipage[p].sender, None, Gone}
             /\ g.ipage[p].sender \notin K
             /\ g.ipage[p].remote = h.ipage[p].remote
  <2>1. h.ipage[p].sender \notin K => h1.ipage[p] = h.ipage[p]
    BY <1>4 DEF PagesWith, Stoppable
  <2>2. h1.ipage[p] \in PageRec
    BY <1>4 DEF HeapType
  <2>3. /\ h1.ipage[p].sender \in {h.ipage[p].sender, None}
        /\ h1.ipage[p].remote = h.ipage[p].remote
    BY <1>4
  <2>4. LET x == [h1.ipage[p] EXCEPT !.sender = Gone]
        IN  x.sender = Gone /\ x.remote = h1.ipage[p].remote
    BY <2>2 DEF PageRec
  <2> QED
    BY <1>2, <2>1, <2>3, <2>4, IwdpAssumption
<1> QED
  BY <1>2, <1>3, <1>5, <1>6 DEF g

(* The fetches of the clients that are closed go, and no fetch of another client:
   a fetch that two clients pointed to would have to name both. *)
LEMMA CloseClientsSound ==
  ASSUME NEW h, NEW K \in SUBSET Client, NEW C \in SUBSET Client, Sound(h, C \ K)
  PROVE  LET g == CloseClients(h, K)
         IN  /\ Sound(g, C) /\ Spared(h, g)
             /\ g.iport = h.iport /\ g.iwi = h.iwi
<1> DEFINE g == CloseClients(h, K)
<1>1. /\ g \in HeapType /\ g.iport = h.iport /\ g.iwi = h.iwi
      /\ \A c \in Client : g.iws[c] = IF c \in K THEN NoClient ELSE h.iws[c]
      /\ \A p \in PageRef : /\ g.ipage[p].sender \in {h.ipage[p].sender, None, Gone}
                            /\ g.ipage[p].sender \notin K
      /\ \A f \in Fetch : g.ifs[f] = IF \E c \in K : h.iws[c].ifs = f
                                     THEN NoFetch ELSE h.ifs[f]
  BY CloseClientsEffect DEF Sound
<1> HIDE DEF g
<1>2. Senders(g, C)
  <2> SUFFICES ASSUME NEW p \in PageRef, NEW c \in Client, g.ipage[p].sender = c
               PROVE  /\ g.iws[c].iport = p[1]
                      /\ g.iws[c].ipage \in {p, None}
                      /\ c \in C => g.iws[c].phase # "http"
    BY DEF Senders
  <2>1. h.ipage[p].sender = c /\ c \notin K
    BY <1>1, IwdpAssumption
  <2> QED
    BY <1>1, <2>1 DEF Sound, Senders
<1>3. Fetches(g)
  <2>1. ASSUME NEW c \in Client, g.iws[c].ifs # None
        PROVE  g.ifs[g.iws[c].ifs].iws = c
    <3>1. c \notin K /\ g.iws[c] = h.iws[c]
      BY <1>1, <2>1 DEF NoClient
    <3>2. h.iws[c].ifs \in Fetch /\ h.ifs[h.iws[c].ifs].iws = c
      BY <2>1, <3>1 DEF Sound, Fetches, HeapType, ClientRec
    <3>3. ~(\E k \in K : h.iws[k].ifs = h.iws[c].ifs)
      BY <2>1, <3>1, <3>2 DEF Sound, Fetches
    <3> QED
      BY <1>1, <3>1, <3>2, <3>3
  <2>2. \A f \in Fetch : g.ifs[f].open \/ g.ifs[f] = NoFetch
    BY <1>1 DEF Sound, Fetches
  <2> QED
    BY <2>1, <2>2 DEF Fetches
<1>4. Remembered(g)
  BY <1>1 DEF Sound, Remembered
<1>5. Spared(h, g)
  BY <1>1 DEF Spared, NoClient
<1> QED
  BY <1>1, <1>2, <1>3, <1>4, <1>5 DEF Sound, g

LEMMA CloseClientsShut ==
  ASSUME NEW h, Sound(h, Client), NEW i \in Id
  PROVE  LET g == CloseClients(h, ClientsOf(h, i))
         IN  Sound(g, Client) /\ Shut(h, g, i)
<1> DEFINE K == ClientsOf(h, i)
           g == CloseClients(h, K)
<1>1. K \in SUBSET Client /\ Sound(h, Client \ K)
  BY DEF ClientsOf, Sound, Senders
<1>2. /\ g.iport = h.iport /\ g.iwi = h.iwi
      /\ \A c \in Client : g.iws[c] = IF c \in K THEN NoClient ELSE h.iws[c]
      /\ \A p \in PageRef : h.ipage[p].sender \notin K => g.ipage[p] = h.ipage[p]
  BY <1>1, CloseClientsEffect DEF Sound
<1>3. Sound(g, Client) /\ Spared(h, g)
  BY <1>1, CloseClientsSound
<1> HIDE DEF g
<1>4. \A p \in PageRef : p[1] # i => h.ipage[p].sender \notin K
  BY DEF ClientsOf, Sound, Senders
<1>5. Only(h, g, i)
  BY <1>2, <1>4 DEF Only, ClientsOf
<1>6. NoneOpened(h, g)
  BY <1>2 DEF NoneOpened
<1> QED
  BY <1>3, <1>5, <1>6 DEF Shut, g

LEMMA FreeInspectorShut ==
  ASSUME NEW h, Sound(h, Client), NEW d \in Device
  PROVE  LET g == FreeInspector(h, d)
         IN  Sound(g, Client) /\ Shut(h, g, d)
<1> DEFINE g == FreeInspector(h, d)
<1>1. /\ Ends(h, g) /\ g.iws = h.iws
      /\ \A p \in PageRef : g.ipage[p] = IF p[1] = d THEN NoPage ELSE h.ipage[p]
      /\ \A e \in Device \ {d} : g.iwi[e] = h.iwi[e]
  BY FreeInspectorEnds DEF Sound
<1> HIDE DEF g
<1>2. Sound(g, Client)
  BY <1>1, EndsSound
<1>3. Shut(h, g, d)
  BY <1>1 DEF Shut, Only, Spared, NoneOpened, Ends
<1> QED
  BY <1>2, <1>3 DEF g

(* iwdp_iport_close *)
LEMMA ClosePortShut ==
  ASSUME NEW h, Sound(h, Client), NEW i \in Id
  PROVE  LET g == ClosePort(h, i)
         IN  Sound(g, Client) /\ Shut(h, g, i) /\ ~g.iport[i].open
<1> DEFINE h1 == CloseClients(h, ClientsOf(h, i))
           h2 == IF i \in Device THEN FreeInspector(h1, i) ELSE h1
           port == IF h2.iport[i].sticky THEN [h2.iport[i] EXCEPT !.open = FALSE] ELSE NoPort
           g == ClosePort(h, i)
<1>1. Sound(h1, Client) /\ Shut(h, h1, i)
  BY CloseClientsShut
<1> HIDE DEF h1
<1>2. Sound(h2, Client) /\ Shut(h1, h2, i)
  <2>1. Shut(h1, h1, i)
    BY DEF Shut, Only, Spared, NoneOpened
  <2> QED
    BY <1>1, <2>1, FreeInspectorShut
<1>3. g = [h2 EXCEPT !.iport = [h2.iport EXCEPT ![i] = port]]
  BY DEF ClosePort, h1
<1> HIDE DEF h2, g
<1>4. /\ h2 \in HeapType /\ port \in PortRec /\ ~port.open
      /\ port.sticky => /\ port.known = h2.iport[i].known /\ port.port = h2.iport[i].port
                        /\ h2.iport[i].sticky
  <2>1. h2 \in HeapType /\ h2.iport[i] \in PortRec
    BY <1>2 DEF Sound, HeapType
  <2> QED
    BY <2>1 DEF PortRec, NoPort
<1> HIDE DEF port
<1>5. /\ g \in HeapType
      /\ g.iport = [h2.iport EXCEPT ![i] = port]
      /\ g.iwi = h2.iwi /\ g.ipage = h2.ipage /\ g.iws = h2.iws /\ g.ifs = h2.ifs
  <2>1. [h2.iport EXCEPT ![i] = port] \in [Id -> PortRec]
    BY <1>4 DEF HeapType
  <2> QED
    BY <1>3, <1>4, <2>1 DEF HeapType
<1>6. g.iport[i] = port /\ \A j \in Id \ {i} : g.iport[j] = h2.iport[j]
  BY <1>4, <1>5 DEF HeapType
<1>7. Sound(g, Client)
  <2>1. Remembered(g)
    BY <1>2, <1>4, <1>6 DEF Sound, Remembered, Id
  <2> QED
    BY <1>2, <1>5, <2>1 DEF Sound, Senders, Fetches
<1>8. Shut(h2, g, i)
  <2>1. Only(h2, g, i)
    BY <1>5, <1>6 DEF Only, Id
  <2>2. Spared(h2, g) /\ NoneOpened(h2, g)
    BY <1>4, <1>5, <1>6 DEF Spared, NoneOpened, Id
  <2> QED
    BY <2>1, <2>2 DEF Shut
<1>9. Shut(h, g, i)
  BY <1>1, <1>2, <1>8, ShutTransitive
<1> QED
  BY <1>4, <1>6, <1>7, <1>9 DEF g

(* iwdp_iwi_close *)
LEMMA CloseInspectorShut ==
  ASSUME NEW h, Sound(h, Client), NEW d \in Device
  PROVE  LET g == CloseInspector(h, d)
         IN  Sound(g, Client) /\ Shut(h, g, d)
<1> DEFINE h1 == FreeInspector(h, d)
<1>1. Sound(h1, Client) /\ Shut(h, h1, d)
  BY FreeInspectorShut
<1> HIDE DEF h1
<1>2. Sound(ClosePort(h1, d), Client) /\ Shut(h1, ClosePort(h1, d), d)
  BY <1>1, ClosePortShut DEF Id
<1>3. Shut(h, ClosePort(h1, d), d)
  BY <1>1, <1>2, ShutTransitive
<1> QED
  BY <1>1, <1>2, <1>3 DEF CloseInspector, h1

(* iwdp_ifs_close *)
LEMMA CloseFetchSound ==
  ASSUME NEW h, Sound(h, Client), NEW f \in Fetch
  PROVE  LET g == CloseFetch(h, f)
         IN  /\ Sound(g, Client) /\ Spared(h, g)
             /\ g.iport = h.iport /\ g.iwi = h.iwi
<1> DEFINE c == h.ifs[f].iws
           clients == [x \in Client |->
                         IF x = c /\ h.iws[x].ifs = f
                         THEN [h.iws[x] EXCEPT !.ifs = None] ELSE h.iws[x]]
           fetches == [h.ifs EXCEPT ![f] = NoFetch]
           h1 == [h EXCEPT !.ifs = fetches, !.iws = clients]
           g == CloseFetch(h, f)
<1>1. h \in HeapType
  BY DEF Sound
<1>2. /\ fetches \in [Fetch -> FetchRec]
      /\ fetches[f] = NoFetch /\ \A x \in Fetch \ {f} : fetches[x] = h.ifs[x]
  BY <1>1 DEF HeapType, FetchRec, NoFetch
<1>3. ASSUME NEW x \in Client
      PROVE  /\ clients[x] \in ClientRec
             /\ clients[x].iport = h.iws[x].iport /\ clients[x].ipage = h.iws[x].ipage
             /\ clients[x].phase = h.iws[x].phase
             /\ clients[x].ifs = IF x = c /\ h.iws[x].ifs = f THEN None ELSE h.iws[x].ifs
  <2>1. h.iws[x] \in ClientRec
    BY <1>1 DEF HeapType
  <2> QED
    BY <2>1 DEF ClientRec
<1> HIDE DEF clients, fetches
<1>4. clients \in [Client -> ClientRec]
  BY <1>3 DEF clients
<1>5. /\ h1 \in HeapType
      /\ h1.iport = h.iport /\ h1.iwi = h.iwi /\ h1.ipage = h.ipage
      /\ h1.iws = clients /\ h1.ifs = fetches
  BY <1>1, <1>2, <1>4 DEF HeapType
<1>6. g = IF c \in Client /\ h.iws[c].iport # None THEN CloseClients(h1, {c}) ELSE h1
  BY DEF CloseFetch, Live, clients, fetches
<1> HIDE DEF h1, g
<1>7. Fetches(h1)
  <2>1. ASSUME NEW x \in Client, h1.iws[x].ifs # None
        PROVE  h1.ifs[h1.iws[x].ifs].iws = x
    <3>1. /\ h1.iws[x].ifs = h.iws[x].ifs /\ h.iws[x].ifs \in Fetch
          /\ ~(x = c /\ h.iws[x].ifs = f)
      BY <1>1, <1>3, <1>5, <2>1 DEF HeapType, ClientRec
    <3>2. h.ifs[h.iws[x].ifs].iws = x
      BY <2>1, <3>1 DEF Sound, Fetches
    <3> QED
      BY <1>2, <1>5, <3>1, <3>2
  <2>2. \A x \in Fetch : h1.ifs[x].open \/ h1.ifs[x] = NoFetch
    BY <1>2, <1>5 DEF Sound, Fetches
  <2> QED
    BY <2>1, <2>2 DEF Fetches
<1>8. Sound(h1, Client) /\ Spared(h, h1)
  BY <1>3, <1>5, <1>7 DEF Sound, Senders, Remembered, Spared
<1>9. ASSUME c \in Client
      PROVE  LET k == CloseClients(h1, {c})
             IN  Sound(k, Client) /\ Spared(h1, k) /\ k.iport = h1.iport /\ k.iwi = h1.iwi
  <2>1. Sound(h1, Client \ {c})
    BY <1>8 DEF Sound, Senders
  <2> QED
    BY <1>9, <2>1, CloseClientsSound
<1>10. CASE g = h1
  BY <1>5, <1>8, <1>10 DEF g
<1>11. CASE c \in Client /\ g = CloseClients(h1, {c})
  <2>1. Sound(g, Client) /\ Spared(h1, g) /\ g.iport = h1.iport /\ g.iwi = h1.iwi
    BY <1>9, <1>11
  <2>2. Spared(h, g)
    BY <1>8, <2>1 DEF Spared
  <2> QED
    BY <1>5, <2>1, <2>2 DEF g
<1> QED
  BY <1>6, <1>10, <1>11

-----------------------------------------------------------------------------
(* What a step from one heap to another may do: the action properties of Iwdp,
   of any two heaps. *)

(* OthersLeftAlone: only sockets of one browser port are closed. *)
Local(h, g) ==
  \/ \A d \in Device : h.iwi[d].open => g.iwi[d].open
  \/ \E i \in Id : Only(h, g, i)

(* LossExplained *)
Loss(h, g) ==
  \A c \in Client :
    LET p == h.iws[c].ipage
    IN  /\ p # None /\ g.iws[c].iport # None /\ g.iws[c].ipage # p
        => \/ g.ipage[p].sender # c
           \/ g.ipage[p].remote
           \/ \E q \in PageRef : h.ipage[q].iws = c /\ h.ipage[q].sender # c

(* PortKept *)
Kept(h, g) ==
  \A d \in Device :
    /\ h.iport[d].sticky /\ ~h.iport[d].open /\ g.iport[d].open
    /\ h.iport[d].port \notin taken
    /\ SelectPort(entries, d, h.iport[d].port).port = h.iport[d].port
    => g.iport[d].port = h.iport[d].port

Allowed(h, g) == Sound(g, Client) /\ Local(h, g) /\ Loss(h, g) /\ Kept(h, g)

(* Closing the sockets of one browser port is allowed. *)
LEMMA ShutAllowed ==
  ASSUME NEW h, NEW g, NEW i \in Id, Sound(g, Client), Shut(h, g, i)
  PROVE  Allowed(h, g)
<1>1. Local(h, g)
  BY DEF Shut, Local
<1>2. Loss(h, g)
  BY DEF Shut, Spared, Loss
<1>3. Kept(h, g)
  BY DEF Shut, NoneOpened, Kept
<1> QED
  BY <1>1, <1>2, <1>3 DEF Allowed

(* A step that leaves ports alone, keeps open inspectors open and explains the
   pages that clients lose is allowed. *)
LEMMA OpenAllowed ==
  ASSUME NEW h, NEW g, Sound(g, Client), Loss(h, g), g.iport = h.iport,
         \A d \in Device : h.iwi[d].open => g.iwi[d].open
  PROVE  Allowed(h, g)
  BY DEF Allowed, Local, Kept

LEMMA SparedLoss ==
  ASSUME NEW h, NEW g, Spared(h, g)
  PROVE  Loss(h, g)
  BY DEF Spared, Loss

(* A loss stays explained when clients are closed or pages lose their client. *)
LEMMA LossThenSpared ==
  ASSUME NEW h, NEW g, NEW k, Loss(h, g), Spared(g, k), h \in HeapType,
         \A p \in PageRef : /\ k.ipage[p].sender \in {g.ipage[p].sender, None, Gone}
                            /\ k.ipage[p].remote = g.ipage[p].remote
  PROVE  Loss(h, k)
<1> SUFFICES ASSUME NEW c \in Client, h.iws[c].ipage # None, k.iws[c].iport # None,
                    k.iws[c].ipage # h.iws[c].ipage
             PROVE  LET p == h.iws[c].ipage
                    IN  \/ k.ipage[p].sender # c
                        \/ k.ipage[p].remote
                        \/ \E q \in PageRef : h.ipage[q].iws = c /\ h.ipage[q].sender # c
  BY DEF Loss
<1>1. h.iws[c].ipage \in PageRef
  BY DEF HeapType, ClientRec
<1>2. g.iws[c].iport # None /\ g.iws[c].ipage # h.iws[c].ipage
  BY DEF Spared
<1> QED
  BY <1>1, <1>2, IwdpAssumption DEF Loss

-----------------------------------------------------------------------------
(* Attaching a device. *)

(* Writing the record of a browser port is no concern of clients and pages. *)
LEMMA PortWrite ==
  ASSUME NEW h, Sound(h, Client), NEW i \in Id, NEW r \in PortRec,
         i \in Device /\ r.sticky => r.known /\ r.port # 0
  PROVE  LET g == [h EXCEPT !.iport = [h.iport EXCEPT ![i] = r]]
         IN  /\ Sound(g, Client)
             /\ g.iwi = h.iwi /\ g.ipage = h.ipage /\ g.iws = h.iws
             /\ g.iport[i] = r /\ \A j \in Id \ {i} : g.iport[j] = h.iport[j]
<1> DEFINE g == [h EXCEPT !.iport = [h.iport EXCEPT ![i] = r]]
<1>1. [h.iport EXCEPT ![i] = r] \in [Id -> PortRec]
  BY DEF Sound, HeapType
<1>2. /\ g \in HeapType
      /\ g.iport = [h.iport EXCEPT ![i] = r]
      /\ g.iwi = h.iwi /\ g.ipage = h.ipage /\ g.iws = h.iws /\ g.ifs = h.ifs
  BY <1>1 DEF Sound, HeapType
<1> HIDE DEF g
<1>3. g.iport[i] = r /\ \A j \in Id \ {i} : g.iport[j] = h.iport[j]
  BY <1>2 DEF Sound, HeapType
<1>4. Remembered(g)
  BY <1>3 DEF Sound, Remembered, Id
<1>5. Fetches(g) /\ Senders(g, Client)
  BY <1>2 DEF Sound, Fetches, Senders
<1> QED
  BY <1>2, <1>3, <1>4, <1>5 DEF Sound, g

(* iwdp_listen: what it does to the record of the browser port.  A port that is
   remembered is bound again unless another process has it or the configuration
   forbids it, since no other browser port can have taken it. *)
LEMMA ListenEffect ==
  ASSUME NEW h, NEW i \in Id, Good(h)
  PROVE  LET l == Listen(h, i)
             old == h.iport[i]
         IN  \E r \in PortRec :
               /\ l.heap = [h EXCEPT !.iport = [h.iport EXCEPT ![i] = r]]
               /\ r.sticky = old.sticky
               /\ old.known => r.known
               /\ old.port # 0 => r.port # 0
               /\ l.err => r.open = old.open
               /\ ~l.err => ~old.open /\ r.open /\ r.known /\ r.port # 0
               /\ /\ ~l.err /\ old.known /\ old.port # 0 /\ old.port \notin taken
                  /\ SelectPort(entries, i, old.port).port = old.port
                  => r.port = old.port
<1> DEFINE old == h.iport[i]
           sel == SelectPort(entries, i, Preferred(old))
           free == IF sel.min > 0
                   THEN {p \in Port : /\ p >= sel.min /\ p <= sel.max
                                      /\ p \notin UsedPorts(h) /\ p # sel.port /\ CanBind(h, p)}
                   ELSE {}
           set(r) == [h EXCEPT !.iport = [h.iport EXCEPT ![i] = r]]
           open(p) == [old EXCEPT !.known = TRUE, !.open = TRUE, !.port = p]
           fails == old.open \/ sel.err \/ (sel.port < 0 /\ (sel.min < 0 \/ sel.max < sel.min))
           l == Listen(h, i)
           again == /\ old.known /\ old.port # 0 /\ old.port \notin taken
                    /\ SelectPort(entries, i, old.port).port = old.port
<1>1. h \in HeapType /\ old \in PortRec
  BY DEF Good, HeapType
<1>2. free # {} => Min(free) \in Port
  <2>1. free \in SUBSET Nat
    BY IwdpAssumption
  <2>2. free # {} => Min(free) \in free
    BY <2>1, MinOfNat
  <2> QED
    BY <2>2
<1>3. again => sel.port = old.port
  BY DEF Preferred
<1>4. fails => l = [err |-> TRUE, heap |-> h]
  BY DEF Listen
<1>5. ~fails => l = IF sel.port \in Port /\ CanBind(h, sel.port)
                    THEN [err |-> FALSE, heap |-> set(open(sel.port))]
                    ELSE IF free # {} THEN [err |-> FALSE, heap |-> set(open(Min(free)))]
                    ELSE [err |-> TRUE, heap |-> set(Unbound(old, sel.port))]
  BY DEF Listen
<1>6. again /\ ~old.open => old.port \in Port /\ CanBind(h, old.port)
  <2>1. old.port \in Port \cup {0}
    BY <1>1 DEF PortRec
  <2> QED
    BY <2>1 DEF CanBind, Good, Distinct
<1>7. ASSUME NEW p \in Port
      PROVE  LET r == open(p)
             IN  /\ r \in PortRec /\ r.sticky = old.sticky /\ r.known /\ r.open
                 /\ r.port = p /\ r.port # 0
  BY <1>1, IwdpAssumption DEF PortRec
<1>8. LET r == Unbound(old, sel.port)
      IN  /\ r \in PortRec /\ r.sticky = old.sticky /\ r.known
          /\ r.open = old.open /\ r.port = old.port
  BY <1>1 DEF Unbound, PortRec
<1>9. set(old) = h
  BY <1>1 DEF HeapType
<1> SUFFICES \E r \in PortRec :
               /\ l.heap = set(r)
               /\ r.sticky = old.sticky
               /\ old.known => r.known
               /\ old.port # 0 => r.port # 0
               /\ l.err => r.open = old.open
               /\ ~l.err => ~old.open /\ r.open /\ r.known /\ r.port # 0
               /\ ~l.err /\ again => r.port = old.port
  OBVIOUS
<1>10. fails \/ ~old.open
  OBVIOUS
<1> HIDE DEF sel, free, set, open, fails, l, again
<1>11. CASE fails
  <2>1. l.heap = set(old) /\ l.err
    BY <1>4, <1>9, <1>11
  <2> HIDE DEF old
  <2> QED
    BY <1>1, <2>1
<1>12. CASE ~fails
  <2>1. CASE sel.port \in Port /\ CanBind(h, sel.port)
    <3>1. l.heap = set(open(sel.port)) /\ ~l.err
      BY <1>5, <1>12, <2>1
    <3> HIDE DEF old
    <3> QED
      BY <1>3, <1>7, <1>10, <1>12, <2>1, <3>1
  <2>2. CASE ~(sel.port \in Port /\ CanBind(h, sel.port)) /\ free # {}
    <3>1. l.heap = set(open(Min(free))) /\ ~l.err
      BY <1>5, <1>12, <2>2
    <3>2. ~again
      BY <1>3, <1>6, <1>10, <1>12, <2>2
    <3> HIDE DEF old
    <3> QED
      BY <1>2, <1>7, <1>10, <1>12, <2>2, <3>1, <3>2
  <2>3. CASE ~(sel.port \in Port /\ CanBind(h, sel.port)) /\ free = {}
    <3>1. l.heap = set(Unbound(old, sel.port)) /\ l.err
      BY <1>5, <1>12, <2>3
    <3> DEFINE r == Unbound(old, sel.port)
    <3>2. /\ r \in PortRec /\ r.sticky = old.sticky /\ r.known
          /\ r.open = old.open /\ r.port = old.port
      BY <1>8
    <3> HIDE DEF r, old
    <3> QED
      BY <3>1, <3>2 DEF r
  <2> QED
    BY <2>1, <2>2, <2>3
<1> QED
  BY <1>11, <1>12

LEMMA OnlyTransitive ==
  ASSUME NEW h, NEW g, NEW k, NEW i, Only(h, g, i), Only(g, k, i)
  PROVE  Only(h, k, i)
  BY DEF Only

LEMMA SparedTransitive ==
  ASSUME NEW h, NEW g, NEW k, Spared(h, g), Spared(g, k)
  PROVE  Spared(h, k)
  BY DEF Spared

(* iwdp_on_attach: whether it fails or not, only the port and the inspector of the
   device change, and a port it leaves open is the one that was remembered. *)
LEMMA AttachAllowed ==
  ASSUME NEW h, NEW d \in Device, Good(h), Sound(h, Client),
         NEW connects \in BOOLEAN, NEW sends \in BOOLEAN
  PROVE  LET g == Attach(h, d, connects, sends)
         IN  Allowed(h, g) /\ Only(h, g, d) /\ Spared(h, g)
<1> DEFINE l == Listen(h, d)
           old == h.iport[d]
           l1 == l.heap
           inspector == [NoInspector EXCEPT !.open = TRUE]
           h1 == [l1 EXCEPT !.iwi = [l1.iwi EXCEPT ![d] = inspector]]
           port == [h1.iport[d] EXCEPT !.sticky = TRUE]
           h2 == [h1 EXCEPT !.iport = [h1.iport EXCEPT ![d] = port]]
           again == /\ old.port \notin taken
                    /\ SelectPort(entries, d, old.port).port = old.port
           g == Attach(h, d, connects, sends)
<1>1. PICK r \in PortRec :
        /\ l1 = [h EXCEPT !.iport = [h.iport EXCEPT ![d] = r]]
        /\ r.sticky = old.sticky
        /\ old.known => r.known
        /\ old.port # 0 => r.port # 0
        /\ l.err => r.open = old.open
        /\ ~l.err => ~old.open /\ r.open /\ r.known /\ r.port # 0
        /\ ~l.err /\ old.known /\ old.port # 0 /\ again => r.port = old.port
  <2>1. d \in Id
    BY DEF Id
  <2>2. PICK r \in PortRec :
          /\ Listen(h, d).heap = [h EXCEPT !.iport = [h.iport EXCEPT ![d] = r]]
          /\ r.sticky = old.sticky
          /\ old.known => r.known
          /\ old.port # 0 => r.port # 0
          /\ Listen(h, d).err => r.open = old.open
          /\ ~Listen(h, d).err => ~old.open /\ r.open /\ r.known /\ r.port # 0
          /\ /\ ~Listen(h, d).err /\ old.known /\ old.port # 0 /\ old.port \notin taken
             /\ SelectPort(entries, d, old.port).port = old.port
             => r.port = old.port
    BY <2>1, ListenEffect, Zenon
  <2> HIDE DEF old
  <2> QED
    BY <2>2
<1>2. g = IF l.err \/ l1.iwi[d].open THEN l1
          ELSE IF ~connects THEN ClosePort(l1, d)
          ELSE IF ~sends THEN ClosePort(h1, d)
          ELSE h2
  BY DEF Attach, GiveUp
<1> HIDE DEF l, g, again
<1>3. d \in Id /\ (old.sticky => old.known /\ old.port # 0)
  BY DEF Id, Sound, Remembered
<1>4. /\ Sound(l1, Client)
      /\ l1.iwi = h.iwi /\ l1.ipage = h.ipage /\ l1.iws = h.iws
      /\ l1.iport[d] = r /\ \A j \in Id \ {d} : l1.iport[j] = h.iport[j]
  BY <1>1, <1>3, PortWrite
<1> HIDE DEF l1
<1>5. Only(h, l1, d) /\ Spared(h, l1)
  BY <1>4 DEF Only, Spared, Id
<1> USE DEF Id
<1>6. CASE l.err \/ l1.iwi[d].open
  <2>1. l.err
    <3>1. ASSUME ~l.err PROVE ~h.iwi[d].open
      BY <1>1, <3>1 DEF Good, Paired
    <3> QED
      BY <1>4, <1>6, <3>1
  <2>2. g = l1 /\ r.open = old.open
    BY <1>1, <1>2, <2>1
  <2>3. NoneOpened(h, g)
    BY <1>4, <2>2 DEF NoneOpened
  <2>4. Shut(h, g, d)
    BY <1>5, <2>2, <2>3 DEF Shut
  <2> QED
    BY <1>3, <1>4, <1>5, <2>2, <2>4, ShutAllowed DEF g
<1>7. inspector \in InspectorRec
  <2>1. NoInspector \in InspectorRec
    BY IwdpAssumption DEF NoInspector, InspectorRec
  <2> QED
    BY <2>1 DEF InspectorRec
<1> HIDE DEF inspector
<1>8. /\ Sound(h1, Client) /\ h1.iport = l1.iport
      /\ Only(h, h1, d) /\ Spared(h, h1)
  <2>1. /\ Ends(l1, h1)
        /\ h1.ipage = l1.ipage /\ h1.iws = l1.iws
        /\ \A e \in Device \ {d} : h1.iwi[e] = l1.iwi[e]
    <3>1. l1 \in HeapType
      BY <1>4 DEF Sound
    <3> QED
      BY <1>7, <3>1, InspectorEnds
  <2>2. Sound(h1, Client) /\ h1.iport = l1.iport
    BY <1>4, <2>1, EndsSound DEF Ends
  <2>3. Only(l1, h1, d) /\ Spared(l1, h1)
    BY <2>1, <2>2 DEF Only, Spared
  <2> QED
    BY <1>5, <2>2, <2>3, OnlyTransitive, SparedTransitive
<1> HIDE DEF h1
<1>9. ASSUME NEW k, Sound(k, Client), Only(h, k, d), Spared(h, k), g = ClosePort(k, d)
      PROVE  Allowed(h, g) /\ Only(h, g, d) /\ Spared(h, g)
  <2> HIDE DEF old
  <2>1. Sound(g, Client) /\ Shut(k, g, d) /\ ~g.iport[d].open
    BY <1>9, ClosePortShut
  <2>2. Only(h, g, d) /\ Spared(h, g)
    BY <1>9, <2>1, OnlyTransitive, SparedTransitive DEF Shut
  <2>3. NoneOpened(h, g)
    BY <2>1, <2>2 DEF NoneOpened, Only
  <2>4. Shut(h, g, d)
    BY <2>2, <2>3 DEF Shut
  <2> QED
    BY <2>1, <2>2, <2>4, <1>3, ShutAllowed
<1>10. CASE ~l.err /\ g = h2
  <2>1. h1.iport[d] = r
    BY <1>4, <1>8
  <2>2. port \in PortRec /\ port.known /\ port.port # 0 /\ port.port = r.port
    BY <1>1, <1>10, <2>1 DEF PortRec
  <2> HIDE DEF port
  <2>3. /\ Sound(g, Client)
        /\ g.iwi = h1.iwi /\ g.ipage = h1.ipage /\ g.iws = h1.iws
        /\ g.iport[d] = port /\ \A j \in Id \ {d} : g.iport[j] = h1.iport[j]
    BY <1>3, <1>8, <1>10, <2>2, PortWrite
  <2> HIDE DEF h2
  <2>4. Only(h1, g, d) /\ Spared(h1, g)
    BY <2>3 DEF Only, Spared
  <2>5. Only(h, g, d) /\ Spared(h, g)
    BY <1>8, <2>4, OnlyTransitive, SparedTransitive
  <2>6. Kept(h, g)
    <3> SUFFICES ASSUME NEW e \in Device,
                        h.iport[e].sticky, ~h.iport[e].open, g.iport[e].open,
                        h.iport[e].port \notin taken,
                        SelectPort(entries, e, h.iport[e].port).port = h.iport[e].port
                 PROVE  g.iport[e].port = h.iport[e].port
      BY DEF Kept
    <3>1. e = d
      BY <2>5 DEF Only
    <3> QED
      BY <1>1, <1>3, <1>10, <2>2, <2>3, <3>1 DEF again
  <2>7. Local(h, g)
    BY <1>3, <2>5 DEF Local
  <2> QED
    BY <2>3, <2>5, <2>6, <2>7, SparedLoss DEF Allowed, g
<1>11. \/ l.err \/ l1.iwi[d].open
       \/ g = ClosePort(l1, d) \/ g = ClosePort(h1, d)
       \/ ~l.err /\ g = h2
  BY <1>2
<1> QED
  BY <1>4, <1>5, <1>6, <1>8, <1>9, <1>10, <1>11 DEF g

-----------------------------------------------------------------------------
(* Browser clients. *)

(* iwdp_start_devtools: the client that had the page loses it, and only that one;
   the new client is not a websocket yet. *)
LEMMA StartDevtoolsSound ==
  ASSUME NEW h, Good(h), Sound(h, Client), NEW c \in Client, NEW p \in PageRef,
         h.iws[c].phase = "http", h.iws[c].ipage = None, h.iws[c].iport = p[1],
         p[2] <= h.iwi[p[1]].max
  PROVE  LET g == StartDevtools(h, p, c)
         IN  /\ Sound(g, Client \ {c}) /\ Loss(h, g)
             /\ g.iport = h.iport /\ g.iwi = h.iwi
<1> DEFINE old == h.ipage[p].iws
           h1 == IF old = None THEN h ELSE StopDevtools(h, {p})
           num(x) == IF x = c \/ (x = old /\ Live(h, x)) THEN p[2] ELSE h1.iws[x].pageNum
           clients == [x \in Client |->
                         [h1.iws[x] EXCEPT !.pageNum = num(x),
                                           !.ipage = IF x = c THEN p ELSE h1.iws[x].ipage]]
           page == [h1.ipage[p] EXCEPT !.iws = c, !.sender = c, !.sessions = @ \cup {c}]
           pages == [h1.ipage EXCEPT ![p] = page]
           g == StartDevtools(h, p, c)
<1>1. /\ h1 \in HeapType
      /\ h1.iport = h.iport /\ h1.iwi = h.iwi /\ h1.ifs = h.ifs
      /\ \A q \in PageRef : h1.ipage[q].sender \in {h.ipage[q].sender, None}
      /\ \A x \in Client : /\ h1.iws[x].iport = h.iws[x].iport
                           /\ h1.iws[x].phase = h.iws[x].phase
                           /\ h1.iws[x].ifs = h.iws[x].ifs
                           /\ h1.iws[x].ipage \in {h.iws[x].ipage, None}
                           /\ h1.iws[x].ipage = h.iws[x].ipage \/ h.iws[x].ipage = p
  <2>1. CASE old = None
    BY <2>1 DEF Sound
  <2>2. CASE old # None
    <3>1. h1 = StopDevtools(h, {p})
      BY <2>2
    <3>2. h \in HeapType /\ {p} \in SUBSET PageRef
      BY DEF Sound
    <3> HIDE DEF h1
    <3>3. Ends(h, h1) /\ h1.iwi = h.iwi
      BY <3>1, <3>2, StopDevtoolsEnds, StopDevtoolsType
    <3>4. \A x \in Client : h1.iws[x] = h.iws[x] \/ h.iws[x].ipage = p
      BY <3>1, <3>2, StopDevtoolsEffect DEF Stoppable
    <3> QED
      BY <3>3, <3>4 DEF Ends
  <2> QED
    BY <2>1, <2>2
<1>2. g = [h1 EXCEPT !.ipage = pages, !.iws = clients]
  BY DEF StartDevtools
<1>3. g \in HeapType
  BY StartDevtoolsGood DEF Good
<1> HIDE DEF h1, num, g
<1>4. /\ g.ipage = pages /\ g.iws = clients
      /\ g.iport = h.iport /\ g.iwi = h.iwi /\ g.ifs = h.ifs
  BY <1>1, <1>2 DEF HeapType
<1>5. ASSUME NEW x \in Client
      PROVE  /\ g.iws[x].ipage = IF x = c THEN p ELSE h1.iws[x].ipage
             /\ g.iws[x].iport = h.iws[x].iport
             /\ g.iws[x].phase = h.iws[x].phase
             /\ g.iws[x].ifs = h.iws[x].ifs
  <2>1. h1.iws[x] \in ClientRec
    BY <1>1 DEF HeapType
  <2>2. /\ clients[x].ipage = (IF x = c THEN p ELSE h1.iws[x].ipage)
        /\ clients[x].phase = h1.iws[x].phase
        /\ clients[x].iport = h1.iws[x].iport
        /\ clients[x].ifs = h1.iws[x].ifs
    BY <2>1 DEF ClientRec
  <2> HIDE DEF clients
  <2> QED
    BY <1>1, <1>4, <2>2
<1>6. /\ g.ipage[p].sender = c
      /\ \A q \in PageRef \ {p} : g.ipage[q].sender \in {h.ipage[q].sender, None}
  <2>1. h1.ipage[p] \in PageRec /\ h1.ipage \in [PageRef -> PageRec]
    BY <1>1 DEF HeapType
  <2>2. page.sender = c
    BY <2>1 DEF PageRec
  <2> HIDE DEF page
  <2> QED
    BY <1>1, <1>4, <2>1, <2>2
<1> HIDE DEF clients, pages
<1>7. \A q \in PageRef : h.ipage[q].sender # c
  BY DEF Sound, Senders
<1>8. Senders(g, Client \ {c})
  <2> SUFFICES ASSUME NEW q \in PageRef, NEW x \in Client, g.ipage[q].sender = x
               PROVE  /\ g.iws[x].iport = q[1]
                      /\ g.iws[x].ipage \in {q, None}
                      /\ x \in Client \ {c} => g.iws[x].phase # "http"
    BY DEF Senders
  <2>1. CASE q = p
    BY <1>5, <1>6, <2>1
  <2>2. CASE q # p
    <3>1. h.ipage[q].sender = x /\ x # c
      BY <1>6, <1>7, <2>2, IwdpAssumption
    <3>2. h.iws[x].iport = q[1] /\ h.iws[x].ipage \in {q, None} /\ h.iws[x].phase # "http"
      BY <3>1 DEF Sound, Senders
    <3> QED
      BY <1>1, <1>5, <3>1, <3>2
  <2> QED
    BY <2>1, <2>2
<1>9. Fetches(g) /\ Remembered(g)
  BY <1>4, <1>5 DEF Sound, Fetches, Remembered
<1>10. Loss(h, g)
  <2> SUFFICES ASSUME NEW x \in Client, h.iws[x].ipage # None,
                      g.iws[x].ipage # h.iws[x].ipage
               PROVE  g.ipage[h.iws[x].ipage].sender # x
    BY DEF Loss
  <2>1. x # c /\ h.iws[x].ipage = p
    BY <1>1, <1>5
  <2> QED
    BY <1>6, <2>1
<1> QED
  BY <1>3, <1>4, <1>8, <1>9, <1>10 DEF Sound, g

(* Writing a client and the fetches. *)
WithClient(h, c, r, fetches) == [h EXCEPT !.ifs = fetches, !.iws = [h.iws EXCEPT ![c] = r]]

(* Writing fields of a client other than its port and its page. *)
LEMMA ClientWrite ==
  ASSUME NEW h \in HeapType, NEW c \in Client, NEW r \in ClientRec,
         r.iport = h.iws[c].iport, r.ipage = h.iws[c].ipage,
         NEW fetches \in [Fetch -> FetchRec]
  PROVE  LET g == WithClient(h, c, r, fetches)
         IN  /\ g \in HeapType
             /\ g.iport = h.iport /\ g.iwi = h.iwi /\ g.ipage = h.ipage /\ g.ifs = fetches
             /\ g.iws[c] = r /\ \A x \in Client \ {c} : g.iws[x] = h.iws[x]
             /\ Spared(h, g)
<1> DEFINE clients == [h.iws EXCEPT ![c] = r]
           g == WithClient(h, c, r, fetches)
<1>1. /\ clients \in [Client -> ClientRec]
      /\ clients[c] = r /\ \A x \in Client \ {c} : clients[x] = h.iws[x]
  BY DEF HeapType
<1>2. g = [h EXCEPT !.ifs = fetches, !.iws = clients]
  BY DEF WithClient
<1> HIDE DEF clients, g
<1>3. /\ g \in HeapType
      /\ g.iport = h.iport /\ g.iwi = h.iwi /\ g.ipage = h.ipage /\ g.ifs = fetches
      /\ g.iws = clients
  BY <1>1, <1>2 DEF HeapType
<1>4. Spared(h, g)
  BY <1>1, <1>3 DEF Spared
<1> QED
  BY <1>1, <1>3, <1>4 DEF g

(* A client that is closed after a step on its behalf. *)
LEMMA CloseOneAllowed ==
  ASSUME NEW h, NEW g, NEW c \in Client, Sound(g, Client \ {c}), h \in HeapType,
         Loss(h, g), g.iport = h.iport, g.iwi = h.iwi
  PROVE  Allowed(h, CloseClients(g, {c}))
<1> DEFINE k == CloseClients(g, {c})
<1>1. {c} \in SUBSET Client /\ g \in HeapType
  BY DEF Sound
<1>2. /\ Sound(k, Client) /\ Spared(g, k)
      /\ k.iport = g.iport /\ k.iwi = g.iwi
  BY <1>1, CloseClientsSound
<1>3. \A p \in PageRef : /\ k.ipage[p].sender \in {g.ipage[p].sender, None, Gone}
                         /\ k.ipage[p].remote = g.ipage[p].remote
  BY <1>1, CloseClientsEffect
<1> HIDE DEF k
<1>4. Loss(h, k)
  BY <1>2, <1>3, LossThenSpared
<1> QED
  BY <1>2, <1>4, OpenAllowed DEF k

(* iwdp_on_devtools_request *)
LEMMA DevtoolsAllowed ==
  ASSUME NEW h, NEW g, NEW c \in Client, Sound(g, Client \ {c}), h \in HeapType,
         Loss(h, g), g.iport = h.iport, g.iwi = h.iwi,
         NEW phase \in {"ws", "devtools"}
  PROVE  Allowed(h, [g EXCEPT !.iws[c].phase = phase])
<1> DEFINE r == [g.iws[c] EXCEPT !.phase = phase]
           k == [g EXCEPT !.iws[c].phase = phase]
<1>1. g \in HeapType /\ g.iws[c] \in ClientRec /\ g.ifs \in [Fetch -> FetchRec]
  BY DEF Sound, HeapType
<1>2. /\ r \in ClientRec /\ r.phase = phase
      /\ r.iport = g.iws[c].iport /\ r.ipage = g.iws[c].ipage /\ r.ifs = g.iws[c].ifs
  BY <1>1 DEF ClientRec
<1>3. k = WithClient(g, c, r, g.ifs)
  BY <1>1 DEF HeapType, WithClient
<1> HIDE DEF k, r
<1>4. /\ k \in HeapType
      /\ k.iport = g.iport /\ k.iwi = g.iwi /\ k.ipage = g.ipage /\ k.ifs = g.ifs
      /\ k.iws[c] = r /\ \A x \in Client \ {c} : k.iws[x] = g.iws[x]
      /\ Spared(g, k)
  BY <1>1, <1>2, <1>3, ClientWrite
<1>5. Senders(k, Client)
  <2> SUFFICES ASSUME NEW p \in PageRef, NEW x \in Client, k.ipage[p].sender = x
               PROVE  /\ k.iws[x].iport = p[1]
                      /\ k.iws[x].ipage \in {p, None}
                      /\ k.iws[x].phase # "http"
    BY DEF Senders
  <2> QED
    BY <1>2, <1>4 DEF Sound, Senders
<1>6. Fetches(k) /\ Remembered(k)
  BY <1>2, <1>4 DEF Sound, Fetches, Remembered
<1>7. Sound(k, Client)
  BY <1>4, <1>5, <1>6 DEF Sound
<1>8. Loss(h, k)
  BY <1>4, LossThenSpared
<1>9. Allowed(h, k)
  BY <1>4, <1>7, <1>8, OpenAllowed
<1> QED
  BY <1>9 DEF k

(* iwdp_on_static_request_for_http: the fetch is a new one, which no other client
   points to. *)
LEMMA StaticRequestSound ==
  ASSUME NEW h, Sound(h, Client), NEW c \in Client, NEW f \in Fetch, ~h.ifs[f].open
  PROVE  LET g == [h EXCEPT !.ifs[f] = [open |-> TRUE, iws |-> c], !.iws[c].ifs = f]
         IN  /\ Sound(g, Client) /\ Spared(h, g)
             /\ g.iport = h.iport /\ g.iwi = h.iwi
<1> DEFINE fetches == [h.ifs EXCEPT ![f] = [open |-> TRUE, iws |-> c]]
           r == [h.iws[c] EXCEPT !.ifs = f]
           g == [h EXCEPT !.ifs[f] = [open |-> TRUE, iws |-> c], !.iws[c].ifs = f]
<1>1. h \in HeapType /\ h.iws[c] \in ClientRec
  BY DEF Sound, HeapType
<1>2. /\ r \in ClientRec /\ r.ifs = f /\ r.phase = h.iws[c].phase
      /\ r.iport = h.iws[c].iport /\ r.ipage = h.iws[c].ipage
  BY <1>1 DEF ClientRec
<1>3. /\ fetches \in [Fetch -> FetchRec]
      /\ fetches[f].open /\ fetches[f].iws = c
      /\ \A x \in Fetch \ {f} : fetches[x] = h.ifs[x]
  BY <1>1 DEF HeapType, FetchRec
<1>4. g = WithClient(h, c, r, fetches)
  BY DEF WithClient
<1> HIDE DEF g, r, fetches
<1>5. /\ g \in HeapType
      /\ g.iport = h.iport /\ g.iwi = h.iwi /\ g.ipage = h.ipage /\ g.ifs = fetches
      /\ g.iws[c] = r /\ \A x \in Client \ {c} : g.iws[x] = h.iws[x]
      /\ Spared(h, g)
  BY <1>1, <1>2, <1>3, <1>4, ClientWrite
<1>6. Fetches(g)
  <2>1. ASSUME NEW x \in Client, g.iws[x].ifs # None PROVE g.ifs[g.iws[x].ifs].iws = x
    <3>1. CASE x = c
      BY <1>2, <1>3, <1>5, <3>1
    <3>2. CASE x # c
      <4>1. /\ g.iws[x].ifs = h.iws[x].ifs /\ h.iws[x].ifs \in Fetch
            /\ h.ifs[h.iws[x].ifs].iws = x
        BY <1>1, <1>5, <2>1, <3>2 DEF Sound, Fetches, HeapType, ClientRec
      <4>2. h.iws[x].ifs # f
        BY <4>1, IwdpAssumption DEF Sound, Fetches, NoFetch
      <4> QED
        BY <1>3, <1>5, <4>1, <4>2
    <3> QED
      BY <3>1, <3>2
  <2>2. \A x \in Fetch : g.ifs[x].open \/ g.ifs[x] = NoFetch
    BY <1>3, <1>5 DEF Sound, Fetches
  <2> QED
    BY <2>1, <2>2 DEF Fetches
<1>7. Senders(g, Client) /\ Remembered(g)
  BY <1>2, <1>5 DEF Sound, Senders, Remembered
<1> QED
  BY <1>5, <1>6, <1>7 DEF Sound, g

-----------------------------------------------------------------------------
(* Messages of an inspector. *)

(* Stopping the sessions of pages and then freeing them. *)
LEMMA StopAndFreeEnds ==
  ASSUME NEW h \in HeapType, NEW P \in SUBSET PageRef
  PROVE  LET g == FreePages(StopDevtools(h, P), P)
         IN  /\ Ends(h, g) /\ g.iwi = h.iwi
             /\ \A p \in PageRef : /\ p \in P => g.ipage[p] = NoPage
                                   /\ p \notin P => g.ipage[p] = h.ipage[p]
             /\ \A c \in Client : \/ g.iws[c] = h.iws[c]
                                  \/ h.iws[c].ipage \in P
<1> DEFINE h1 == StopDevtools(h, P)
           g == FreePages(h1, P)
<1>1. Ends(h, h1) /\ h1 \in HeapType /\ h1.iwi = h.iwi
  BY StopDevtoolsEnds, StopDevtoolsType
<1>2. /\ \A p \in PageRef : p \notin P => h1.ipage[p] = h.ipage[p]
      /\ \A c \in Client : \/ h1.iws[c] = h.iws[c]
                           \/ \E p \in P : h.iws[c].ipage = p
  BY StopDevtoolsEffect DEF Stoppable
<1> HIDE DEF h1
<1>3. /\ Ends(h1, g) /\ g.iwi = h1.iwi /\ g.iws = h1.iws
      /\ \A p \in PageRef : g.ipage[p] = IF p \in P THEN NoPage ELSE h1.ipage[p]
  BY <1>1, FreePagesEnds, FreePagesType
<1> HIDE DEF g
<1>4. Ends(h, g)
  BY <1>1, <1>3, EndsTransitive
<1> QED
  BY <1>1, <1>2, <1>3, <1>4 DEF g, h1

(* A client whose page is freed loses it to nobody. *)
LEMMA FreedLoss ==
  ASSUME NEW h \in HeapType, NEW g, NEW P \in SUBSET PageRef,
         \A p \in P : g.ipage[p] = NoPage,
         \A c \in Client : g.iws[c].ipage = h.iws[c].ipage \/ h.iws[c].ipage \in P
  PROVE  Loss(h, g)
  BY IwdpAssumption DEF Loss, NoPage

(* iwdp_remove_app_id *)
LEMMA RemoveAppsStep ==
  ASSUME NEW h, Good(h), Sound(h, Client), NEW d \in Device, h.iwi[d].open,
         NEW apps \in SUBSET App
  PROVE  LET g == RemoveApps(h, d, apps)
         IN  /\ Sound(g, Client) /\ Loss(h, g)
             /\ g.iport = h.iport
             /\ \A e \in Device : g.iwi[e].open <=> h.iwi[e].open
<1> DEFINE P == {p \in PagesOf(d) : h.ipage[p].app \in apps \cap h.iwi[d].apps}
           h1 == FreePages(StopDevtools(h, P), P)
           r == [h1.iwi[d] EXCEPT !.apps = @ \ apps]
           g == RemoveApps(h, d, apps)
<1>1. P \in SUBSET PageRef /\ h \in HeapType
  BY DEF PagesOf, Sound
<1>2. g = [h1 EXCEPT !.iwi = [h1.iwi EXCEPT ![d] = r]]
  BY DEF RemoveApps
<1> HIDE DEF P
<1>3. /\ Ends(h, h1) /\ h1.iwi = h.iwi
      /\ \A p \in P : h1.ipage[p] = NoPage
      /\ \A c \in Client : h1.iws[c] = h.iws[c] \/ h.iws[c].ipage \in P
  BY <1>1, StopAndFreeEnds
<1> HIDE DEF h1
<1>4. h1 \in HeapType /\ r \in InspectorRec /\ r.open = h1.iwi[d].open
  <2>1. h1 \in HeapType /\ h1.iwi[d] \in InspectorRec
    BY <1>3 DEF Ends, HeapType
  <2> QED
    BY <2>1 DEF InspectorRec
<1> HIDE DEF r, g
<1>5. /\ Ends(h1, g) /\ g.ipage = h1.ipage /\ g.iws = h1.iws
      /\ g.iwi[d] = r /\ \A e \in Device \ {d} : g.iwi[e] = h1.iwi[e]
  BY <1>2, <1>4, InspectorEnds
<1>6. Sound(g, Client) /\ g.iport = h.iport
  <2>1. Ends(h, g)
    BY <1>3, <1>5, EndsTransitive
  <2> QED
    BY <2>1, EndsSound DEF Ends
<1>7. Loss(h, g)
  <2>1. /\ \A p \in P : g.ipage[p] = NoPage
        /\ \A c \in Client : g.iws[c].ipage = h.iws[c].ipage \/ h.iws[c].ipage \in P
    BY <1>3, <1>5
  <2> QED
    BY <1>1, <2>1, FreedLoss
<1>8. \A e \in Device : g.iwi[e].open <=> h.iwi[e].open
  BY <1>3, <1>4, <1>5
<1> QED
  BY <1>6, <1>7, <1>8 DEF g

(* iwdp_add_app_id and rpc_set_app *)
LEMMA AppsStep ==
  ASSUME NEW h, Sound(h, Client), NEW d \in Device, NEW apps \in SUBSET App, NEW a \in App,
         NEW g, g = AddApps(h, d, apps) \/ g = SetApp(h, d, a)
  PROVE  /\ Sound(g, Client) /\ g.iport = h.iport
         /\ g.ipage = h.ipage /\ g.iws = h.iws
         /\ \A e \in Device : g.iwi[e].open <=> h.iwi[e].open
         /\ Only(h, g, d)
<1>1. h \in HeapType /\ h.iwi[d] \in InspectorRec
  BY DEF Sound, HeapType
<1>2. ASSUME NEW r \in InspectorRec, r.open = h.iwi[d].open,
             NEW k, k = [h EXCEPT !.iwi = [h.iwi EXCEPT ![d] = r]]
      PROVE  /\ Sound(k, Client) /\ k.iport = h.iport
             /\ k.ipage = h.ipage /\ k.iws = h.iws
             /\ \A e \in Device : k.iwi[e].open <=> h.iwi[e].open
             /\ Only(h, k, d)
  <2>1. /\ Ends(h, k) /\ k.ipage = h.ipage /\ k.iws = h.iws
        /\ k.iwi[d] = r /\ \A e \in Device \ {d} : k.iwi[e] = h.iwi[e]
    BY <1>1, <1>2, InspectorEnds
  <2>2. Sound(k, Client) /\ k.iport = h.iport
    BY <2>1, EndsSound DEF Ends
  <2>3. Only(h, k, d)
    BY <2>1, <2>2 DEF Only
  <2> QED
    BY <1>2, <2>1, <2>2, <2>3
<1>3. CASE g = AddApps(h, d, apps)
  <2> DEFINE r == [h.iwi[d] EXCEPT !.apps = @ \cup apps]
  <2>1. r \in InspectorRec /\ r.open = h.iwi[d].open
    BY <1>1 DEF InspectorRec
  <2>2. g = [h EXCEPT !.iwi = [h.iwi EXCEPT ![d] = r]]
    BY <1>3 DEF AddApps
  <2> HIDE DEF r
  <2> QED
    BY <1>2, <2>1, <2>2
<1>4. CASE g = SetApp(h, d, a)
  <2> DEFINE r == [h.iwi[d] EXCEPT !.app = a]
  <2>1. r \in InspectorRec /\ r.open = h.iwi[d].open
    BY <1>1 DEF InspectorRec
  <2>2. g = [h EXCEPT !.iwi = [h.iwi EXCEPT ![d] = r]]
    BY <1>4 DEF SetApp
  <2> HIDE DEF r
  <2> QED
    BY <1>2, <2>1, <2>2
<1> QED
  BY <1>3, <1>4

(* The part of iwdp_on_applicationSentListing before pages are freed: a client
   loses its page when another inspector client has claimed a page that records
   the client. *)
LEMMA MergeListingStep ==
  ASSUME NEW h, Good(h), Sound(h, Client), NEW d \in Device, h.iwi[d].open, NEW a \in App,
         NEW ids \in SUBSET PageId, NEW listing \in [ids -> BOOLEAN], NEW num,
         LET new == NewPages(h, d, a, listing)
             max == h.iwi[d].max
         IN  /\ max + Cardinality(new) <= MaxPage
             /\ num \in Bijection(new, (max + 1)..(max + Cardinality(new)))
  PROVE  LET g == MergeListing(h, d, a, listing, num)
         IN  /\ Ends(h, g)
             /\ \A e \in Device : g.iwi[e].open <=> h.iwi[e].open
             /\ \A c \in Client :
                  \/ g.iws[c] = h.iws[c]
                  \/ \E q \in AppPages(h, d, a) :
                       /\ h.ipage[q].id \in DOMAIN listing
                       /\ h.ipage[q].iws = c /\ g.ipage[q].remote
<1> DEFINE kept == {p \in AppPages(h, d, a) : h.ipage[p].id \in DOMAIN listing}
           claimed == Claimed(h, kept, listing)
           losers == {h.ipage[p].iws : p \in claimed} \ {None}
           mark(p) == IF p \in claimed THEN Gone ELSE Lost
           left(p) == IF h.ipage[p].iws \in losers
                      THEN LeftOpen(h.ipage[p], h.ipage[p].iws, mark(p)) ELSE h.ipage[p]
           idOf(n) == CHOOSE i \in DOMAIN num : num[i] = n
           given(p) == p[1] = d /\ \E i \in DOMAIN num : num[i] = p[2]
           page(p) ==
             IF p \in kept THEN [left(p) EXCEPT !.remote = listing[h.ipage[p].id]]
             ELSE IF given(p)
             THEN [NoPage EXCEPT !.app = a, !.id = idOf(p[2]), !.remote = listing[idOf(p[2])]]
             ELSE left(p)
           pages == [p \in PageRef |-> page(p)]
           clients == [c \in Client |->
                         IF c \in losers
                         THEN [h.iws[c] EXCEPT !.ipage = None] ELSE h.iws[c]]
           inspectors == [h.iwi EXCEPT ![d] = CountPages(h.iwi[d], num)]
           g == [h EXCEPT !.iwi = inspectors, !.ipage = pages, !.iws = clients]
<1>1. h \in HeapType
  BY DEF Sound
<1>2. g = MergeListing(h, d, a, listing, num)
  BY DEF MergeListing
<1>3. g \in HeapType
  <2>1. Good(MergeListing(h, d, a, listing, num))
    BY MergeListingGood
  <2> QED
    BY <1>2, <2>1 DEF Good
<1>4. /\ g.iport = h.iport /\ g.iwi = inspectors /\ g.ipage = pages
      /\ g.iws = clients /\ g.ifs = h.ifs
  BY <1>1 DEF HeapType
<1>5. ASSUME NEW c \in Client
      PROVE  /\ g.iws[c].iport = h.iws[c].iport
             /\ g.iws[c].phase = h.iws[c].phase
             /\ g.iws[c].ifs = h.iws[c].ifs
             /\ g.iws[c].ipage \in {h.iws[c].ipage, None}
             /\ g.iws[c] = h.iws[c] \/ c \in losers
  <2>1. h.iws[c] \in ClientRec
    BY <1>1 DEF HeapType
  <2>2. /\ clients[c].iport = h.iws[c].iport
        /\ clients[c].phase = h.iws[c].phase
        /\ clients[c].ifs = h.iws[c].ifs
        /\ clients[c].ipage \in {h.iws[c].ipage, None}
        /\ clients[c] = h.iws[c] \/ c \in losers
    BY <2>1 DEF ClientRec
  <2> HIDE DEF clients, losers
  <2> QED
    BY <1>4, <2>2
<1>6. ASSUME NEW p \in PageRef
      PROVE  /\ g.ipage[p].sender \in {h.ipage[p].sender, None}
             /\ p \in kept => g.ipage[p].remote = listing[h.ipage[p].id]
  <2>1. h.ipage[p] \in PageRec
    BY <1>1 DEF HeapType
  <2>2. left(p) \in PageRec /\ left(p).sender = h.ipage[p].sender
    <3>1. mark(p) \in {Gone, Lost}
      OBVIOUS
    <3> HIDE DEF losers, mark
    <3> DEFINE open == LeftOpen(h.ipage[p], h.ipage[p].iws, mark(p))
    <3>2. /\ open \in PageRec
          /\ open.iws = h.ipage[p].iws
          /\ open.sender = h.ipage[p].sender
      BY <2>1, <3>1, LeftOpenType
    <3>3. left(p) = IF h.ipage[p].iws \in losers THEN open ELSE h.ipage[p]
      OBVIOUS
    <3> HIDE DEF open, left
    <3> QED
      BY <2>1, <3>2, <3>3
  <2>3. pages[p] = page(p)
    OBVIOUS
  <2> HIDE DEF left, pages, clients, inspectors, g, kept, given, idOf, losers
  <2>4. CASE p \in kept
    <3>1. pages[p] = [left(p) EXCEPT !.remote = listing[h.ipage[p].id]]
      BY <2>3, <2>4
    <3>2. /\ [left(p) EXCEPT !.remote = listing[h.ipage[p].id]].sender = left(p).sender
          /\ [left(p) EXCEPT !.remote = listing[h.ipage[p].id]].remote = listing[h.ipage[p].id]
      BY <2>2 DEF PageRec
    <3> QED
      BY <1>4, <2>2, <3>1, <3>2
  <2>5. CASE p \notin kept /\ given(p)
    <3>1. \A x, y, z : [NoPage EXCEPT !.app = x, !.id = y, !.remote = z].sender = None
      BY DEF NoPage
    <3>2. pages[p] = [NoPage EXCEPT !.app = a, !.id = idOf(p[2]), !.remote = listing[idOf(p[2])]]
      BY <2>3, <2>5
    <3> QED
      BY <1>4, <2>5, <3>1, <3>2
  <2>6. CASE p \notin kept /\ ~given(p)
    <3>1. pages[p] = left(p)
      BY <2>3, <2>6
    <3> QED
      BY <1>4, <2>2, <2>6, <3>1
  <2> QED
    BY <2>4, <2>5, <2>6
<1>7. \A e \in Device : g.iwi[e].open <=> h.iwi[e].open
  <2>1. h.iwi \in [Device -> InspectorRec] /\ h.iwi[d] \in InspectorRec
    BY <1>1 DEF HeapType
  <2>2. CountPages(h.iwi[d], num).open = h.iwi[d].open
    BY <2>1 DEF CountPages, InspectorRec
  <2>3. /\ inspectors[d] = CountPages(h.iwi[d], num)
        /\ \A e \in Device \ {d} : inspectors[e] = h.iwi[e]
    BY <2>1
  <2> HIDE DEF g, inspectors
  <2> QED
    BY <1>4, <2>2, <2>3
<1>8. \A c \in Client :
        \/ g.iws[c] = h.iws[c]
        \/ \E q \in AppPages(h, d, a) : /\ h.ipage[q].id \in DOMAIN listing
                                      /\ h.ipage[q].iws = c /\ g.ipage[q].remote
  <2> SUFFICES ASSUME NEW c \in Client, c \in losers
               PROVE  \E q \in AppPages(h, d, a) :
                        /\ h.ipage[q].id \in DOMAIN listing
                        /\ h.ipage[q].iws = c /\ g.ipage[q].remote
    BY <1>5
  <2>1. PICK q \in kept : listing[h.ipage[q].id] /\ h.ipage[q].iws = c
    BY DEF Claimed
  <2>2. q \in PageRef
    BY DEF AppPages, PagesOf
  <2> HIDE DEF g
  <2> QED
    BY <1>6, <2>1, <2>2
<1> HIDE DEF g
<1>9. Ends(h, g)
  BY <1>3, <1>4, <1>5, <1>6 DEF Ends
<1> QED
  BY <1>2, <1>7, <1>8, <1>9

(* iwdp_on_applicationSentListing *)
LEMMA TakeListingAllowed ==
  ASSUME NEW h, Good(h), Sound(h, Client), NEW d \in Device, h.iwi[d].open, NEW a \in App,
         NEW ids \in SUBSET PageId, NEW listing \in [ids -> BOOLEAN], NEW num,
         LET new == NewPages(h, d, a, listing)
             max == h.iwi[d].max
         IN  /\ max + Cardinality(new) <= MaxPage
             /\ num \in Bijection(new, (max + 1)..(max + Cardinality(new)))
  PROVE  Allowed(h, TakeListing(h, d, a, listing, num))
<1> DEFINE gone == {p \in AppPages(h, d, a) : h.ipage[p].id \notin DOMAIN listing}
           h1 == MergeListing(h, d, a, listing, num)
           g == FreePages(StopDevtools(h1, gone), gone)
<1>1. /\ Ends(h, h1)
      /\ \A e \in Device : h1.iwi[e].open <=> h.iwi[e].open
      /\ \A c \in Client :
           \/ h1.iws[c] = h.iws[c]
           \/ \E q \in AppPages(h, d, a) :
                /\ h.ipage[q].id \in DOMAIN listing
                /\ h.ipage[q].iws = c /\ h1.ipage[q].remote
  BY MergeListingStep
<1>2. gone \in SUBSET PageRef /\ \A p \in AppPages(h, d, a) : p \in PageRef
  BY DEF AppPages, PagesOf
<1>3. TakeListing(h, d, a, listing, num) = g
  BY DEF TakeListing
<1>4. h \in HeapType
  BY DEF Sound
<1> HIDE DEF h1
<1>5. /\ Ends(h1, g) /\ g.iwi = h1.iwi
      /\ \A p \in PageRef : /\ p \in gone => g.ipage[p] = NoPage
                            /\ p \notin gone => g.ipage[p] = h1.ipage[p]
      /\ \A c \in Client : g.iws[c] = h1.iws[c] \/ h1.iws[c].ipage \in gone
  <2>1. h1 \in HeapType
    BY <1>1 DEF Ends
  <2> HIDE DEF gone
  <2> QED
    BY <1>2, <2>1, StopAndFreeEnds
<1> HIDE DEF g
<1>6. Sound(g, Client) /\ g.iport = h.iport
  <2>1. Ends(h, g)
    BY <1>1, <1>5, EndsTransitive
  <2> QED
    BY <2>1, EndsSound DEF Ends
<1>7. Loss(h, g)
  <2> SUFFICES ASSUME NEW c \in Client, NEW p \in PageRef,
                      h.iws[c].ipage = p, g.iws[c].ipage # p
               PROVE  \/ g.ipage[p].sender # c
                      \/ g.ipage[p].remote
                      \/ \E q \in PageRef : h.ipage[q].iws = c /\ h.ipage[q].sender # c
    BY <1>4 DEF Loss, HeapType, ClientRec
  <2>1. CASE h1.iws[c] = h.iws[c]
    <3>1. p \in gone
      BY <1>5, <2>1
    <3> QED
      BY <1>5, <3>1, IwdpAssumption DEF NoPage
  <2>2. ASSUME NEW q \in AppPages(h, d, a), h.ipage[q].id \in DOMAIN listing,
               h.ipage[q].iws = c, h1.ipage[q].remote
        PROVE  \/ g.ipage[p].sender # c
               \/ g.ipage[p].remote
               \/ \E x \in PageRef : h.ipage[x].iws = c /\ h.ipage[x].sender # c
    <3>1. q \in PageRef /\ q \notin gone
      BY <1>2, <2>2
    <3>2. CASE q = p
      BY <1>5, <2>2, <3>1, <3>2
    <3>3. CASE q # p
      <4>1. h.ipage[q].sender # c
        BY <3>1, <3>3, NoneIsNoPage DEF Sound, Senders
      <4> QED
        BY <2>2, <3>1, <4>1
    <3> QED
      BY <3>2, <3>3
  <2> QED
    BY <1>1, <2>1, <2>2
<1>8. Allowed(h, g)
  BY <1>1, <1>5, <1>6, <1>7, OpenAllowed
<1> QED
  BY <1>3, <1>8

-----------------------------------------------------------------------------
(* The proof action by action. *)

(* What every step keeps and may do. *)
Careful == Sound(Heap, Client)' /\ OthersLeftAlone /\ PortKept /\ LossExplained

(* A callback that makes the heap an allowed one. *)
LEMMA BecomeAllowed ==
  ASSUME NEW g, Allowed(Heap, g), Become(g)
  PROVE  Careful
<1>1. Heap' = g
  BY DEF Allowed, Sound, HeapType, Heap, Become
<1>2. /\ iport' = g.iport /\ iwi' = g.iwi /\ ipage' = g.ipage /\ iws' = g.iws
  BY DEF Become
<1>3. Sound(Heap, Client)'
  BY <1>1 DEF Allowed, Sound, HeapType, Fetches, Senders, Remembered
<1>4. OthersLeftAlone
  <2> SUFFICES ASSUME NEW d \in Device, NEW e \in Device, d # e, iwi[d].open, ~iwi'[d].open
               PROVE  /\ iport'[e] = iport[e] /\ iwi'[e] = iwi[e]
                      /\ \A p \in PagesOf(e) : ipage'[p] = ipage[p]
                      /\ \A c \in ClientsOf(Heap, e) : iws'[c] = iws[c]
    BY DEF OthersLeftAlone
  <2>1. PICK i \in Id : Only(Heap, g, i)
    BY <1>2, HeapRecord DEF Allowed, Local
  <2>2. i = d
    BY <1>2, <2>1, HeapRecord DEF Only
  <2> QED
    BY <1>2, <2>1, <2>2, HeapRecord DEF Only, PagesOf, ClientsOf
<1>5. PortKept
  BY <1>2, HeapRecord DEF Allowed, Kept, PortKept
<1>6. LossExplained
  BY <1>2, HeapRecord DEF Allowed, Loss, LossExplained
<1> QED
  BY <1>3, <1>4, <1>5, <1>6 DEF Careful

LEMMA SameAllowed ==
  ASSUME NEW h, Sound(h, Client)
  PROVE  Allowed(h, h)
<1>1. Spared(h, h)
  BY DEF Spared
<1> QED
  BY <1>1, SparedLoss, OpenAllowed

LEMMA SameHeapCareful ==
  ASSUME Sound(Heap, Client), UNCHANGED heapVars
  PROVE  Careful
<1>1. Become(Heap)
  BY DEF heapVars, Become, Heap
<1> QED
  BY <1>1, SameAllowed, BecomeAllowed

(* What a callback does to a heap that the invariants hold of, from usbmuxd and
   the listening sockets. *)
LEMMA DeviceNextCareful ==
  ASSUME Inv, Sound(Heap, Client), DeviceNext
  PROVE  Careful
<1>1. Good(Heap)
  BY DEF Inv
<1>2. CASE Start
  <2> DEFINE h == Listen(Heap, DeviceList).heap
  <2>1. Good(h)
    <3> DEFINE l == Listen(Heap, DeviceList)
    <3>1. /\ l.err => Good(l.heap)
          /\ ~l.err => Closable(l.heap, DeviceList) /\ Own(l.heap, Client)
      BY <1>1, ListenGood DEF Id
    <3>2. Device \ {DeviceList} = Device
      BY IwdpAssumption
    <3> HIDE DEF l
    <3>3. Good(l.heap)
      BY <3>1, <3>2 DEF Closable, Good
    <3> QED
      BY <3>3 DEF l
  <2>2. DeviceList \in Id /\ DeviceList \notin Device /\ Simulator \in Device
    BY IwdpAssumption DEF Id
  <2>3. /\ Sound(h, Client)
        /\ h.iwi = Heap.iwi /\ h.ipage = Heap.ipage /\ h.iws = Heap.iws
        /\ \A d \in Device : h.iport[d] = Heap.iport[d]
    <3> DEFINE l == Listen(Heap, DeviceList)
               old == Heap.iport[DeviceList]
    <3>1. PICK r \in PortRec :
            /\ l.heap = [Heap EXCEPT !.iport = [Heap.iport EXCEPT ![DeviceList] = r]]
            /\ r.sticky = old.sticky
            /\ old.known => r.known
            /\ old.port # 0 => r.port # 0
            /\ l.err => r.open = old.open
            /\ ~l.err => ~old.open /\ r.open /\ r.known /\ r.port # 0
            /\ /\ ~l.err /\ old.known /\ old.port # 0 /\ old.port \notin taken
               /\ SelectPort(entries, DeviceList, old.port).port = old.port
               => r.port = old.port
      BY <1>1, <2>2, ListenEffect, Zenon
    <3>2. h = [Heap EXCEPT !.iport = [Heap.iport EXCEPT ![DeviceList] = r]]
      BY <3>1
    <3> HIDE DEF h
    <3>3. /\ Sound(h, Client)
          /\ h.iwi = Heap.iwi /\ h.ipage = Heap.ipage /\ h.iws = Heap.iws
          /\ \A j \in Id \ {DeviceList} : h.iport[j] = Heap.iport[j]
      BY <2>2, <3>2, PortWrite
    <3> QED
      BY <2>2, <3>3 DEF Id
  <2> HIDE DEF h
  <2>4. PICK connects \in BOOLEAN, sends \in BOOLEAN :
          Become(Attach(h, Simulator, connects, sends))
    BY <1>2 DEF Start, h
  <2> DEFINE g == Attach(h, Simulator, connects, sends)
  <2>5. Allowed(h, g) /\ Only(h, g, Simulator) /\ Spared(h, g)
    BY <2>1, <2>2, <2>3, AttachAllowed
  <2> HIDE DEF g
  <2>6. Only(Heap, g, Simulator) /\ Spared(Heap, g) /\ Kept(Heap, g)
    BY <2>3, <2>5 DEF Only, Spared, Allowed, Kept
  <2>7. Allowed(Heap, g)
    BY <2>2, <2>5, <2>6, SparedLoss DEF Allowed, Local, Id
  <2> QED
    BY <2>4, <2>7, BecomeAllowed DEF g
<1>3. ASSUME NEW d \in Device, DeviceAttached(d) PROVE Careful
  <2>1. PICK connects \in BOOLEAN, sends \in BOOLEAN :
          Become(Attach(Heap, d, connects, sends))
    BY <1>3 DEF DeviceAttached
  <2>2. Allowed(Heap, Attach(Heap, d, connects, sends))
    BY <1>1, AttachAllowed
  <2> QED
    BY <2>1, <2>2, BecomeAllowed
<1>4. ASSUME NEW i \in Id, Become(ClosePort(Heap, i)) PROVE Careful
  <2>1. Allowed(Heap, ClosePort(Heap, i))
    BY ClosePortShut, ShutAllowed
  <2> QED
    BY <1>4, <2>1, BecomeAllowed
<1>5. CASE ListenerCloses
  BY <1>5, SameHeapCareful DEF ListenerCloses
<1> QED
  BY <1>2, <1>3, <1>4, <1>5 DEF DeviceNext, DeviceDetached, PortFails, Id

(* ... from browser clients. *)
LEMMA ClientNextCareful ==
  ASSUME Inv, Settled(Heap, Client), Sound(Heap, Client), ClientNext
  PROVE  Careful
<1>1. Good(Heap) /\ Heap \in HeapType
  BY DEF Inv, Good
<1>2. ASSUME NEW h, Sound(h, Client), Spared(Heap, h), h.iport = Heap.iport, h.iwi = Heap.iwi,
             NEW c \in Client
      PROVE  Allowed(Heap, h) /\ Allowed(Heap, CloseClients(h, {c}))
  <2>1. Loss(Heap, h)
    BY <1>2, SparedLoss
  <2>2. Sound(h, Client \ {c})
    BY <1>2 DEF Sound, Senders
  <2> QED
    BY <1>1, <1>2, <2>1, <2>2, OpenAllowed, CloseOneAllowed
<1>3. ASSUME NEW c \in Client
      PROVE  Allowed(Heap, Heap) /\ Allowed(Heap, CloseClients(Heap, {c}))
  <2>1. Spared(Heap, Heap)
    BY DEF Spared
  <2> QED
    BY <1>2, <2>1
<1>4. ASSUME NEW c \in Client, NEW i \in Id, Accept(i, c) PROVE Careful
  <2> DEFINE r == [NoClient EXCEPT !.iport = i]
             clients == [Heap.iws EXCEPT ![c] = r]
             h == [Heap EXCEPT !.iws = clients]
  <2>1. /\ r \in ClientRec
        /\ r.iport = i /\ r.ipage = None /\ r.ifs = None
    BY DEF NoClient, ClientRec
  <2>2. Heap.iws[c].iport = None /\ Heap.iws[c].ipage = None
    <3>1. Heap.iws[c].ipage \in PageRef \cup {None} /\ Heap.iws[c].iport = None
      BY <1>1, <1>4, HeapRecord DEF Accept, Live, HeapType, ClientRec
    <3>2. ASSUME NEW p \in PageRef, Heap.iws[c].ipage = p PROVE Heap.iws[c].iport \in Id
      BY <1>1, <3>2 DEF Good, Own, PageRef, Id
    <3> QED
      BY <3>1, <3>2, IwdpAssumption
  <2>3. Become(h)
    BY <1>4, HeapRecord DEF Accept, Become, Heap
  <2> HIDE DEF r
  <2>4. /\ clients \in [Client -> ClientRec]
        /\ clients[c] = r /\ \A x \in Client \ {c} : clients[x] = Heap.iws[x]
    BY <1>1, <2>1 DEF HeapType
  <2> HIDE DEF clients
  <2>5. /\ h \in HeapType
        /\ h.iport = Heap.iport /\ h.iwi = Heap.iwi /\ h.ipage = Heap.ipage
        /\ h.iws = clients /\ h.ifs = Heap.ifs
    BY <1>1, <2>4 DEF HeapType
  <2> HIDE DEF h
  <2>6. Senders(h, Client)
    <3> SUFFICES ASSUME NEW p \in PageRef, NEW x \in Client, h.ipage[p].sender = x
                 PROVE  /\ h.iws[x].iport = p[1]
                        /\ h.iws[x].ipage \in {p, None}
                        /\ h.iws[x].phase # "http"
      BY DEF Senders
    <3>1. Heap.ipage[p].sender = x /\ Heap.iws[x].iport = p[1] /\ p[1] \in Id
      BY <2>5 DEF Sound, Senders, PageRef, Id
    <3>2. x # c
      BY <2>2, <3>1, IwdpAssumption
    <3> QED
      BY <2>4, <2>5, <3>1, <3>2 DEF Sound, Senders
  <2>7. Fetches(h) /\ Remembered(h)
    BY <2>1, <2>4, <2>5 DEF Sound, Fetches, Remembered
  <2>8. Sound(h, Client)
    BY <2>5, <2>6, <2>7 DEF Sound
  <2>9. Loss(Heap, h)
    BY <2>2, <2>4, <2>5 DEF Loss
  <2>10. Allowed(Heap, h)
    BY <2>5, <2>8, <2>9, OpenAllowed
  <2> QED
    BY <2>3, <2>10, BecomeAllowed
<1>5. ASSUME NEW c \in Client, ClientCloses(c) PROVE Careful
  BY <1>3, <1>5, BecomeAllowed DEF ClientCloses
<1>6. ASSUME NEW c \in Client, NEW n \in {0} \cup PageNum, DevtoolsRequest(c, n)
      PROVE  Careful
  <2> DEFINE p == <<iws[c].iport, n>>
             found == p \in PageRef /\ iwi[p[1]].open /\ n <= iwi[p[1]].max /\ ipage[p] # NoPage
             h == IF found THEN StartDevtools(Heap, p, c) ELSE Heap
             phase == IF found THEN "devtools" ELSE "ws"
             g == [h EXCEPT !.iws[c].phase = phase]
  <2>1. /\ Sound(h, Client \ {c}) /\ Loss(Heap, h)
        /\ h.iport = Heap.iport /\ h.iwi = Heap.iwi
    <3>1. CASE found
      <4>1. p \in PageRef /\ Heap.iws[c].iport = p[1] /\ p[2] <= Heap.iwi[p[1]].max
        BY <3>1, HeapRecord
      <4>2. Heap.iws[c].phase = "http"
        BY <1>6, HeapRecord DEF DevtoolsRequest
      <4>3. Heap.iws[c].ipage = None
        BY <4>2 DEF Settled, Idle
      <4>4. h = StartDevtools(Heap, p, c)
        BY <3>1
      <4> HIDE DEF p, found, h
      <4> QED
        BY <1>1, <4>1, <4>2, <4>3, <4>4, StartDevtoolsSound
    <3>2. CASE ~found
      <4>1. h = Heap /\ Spared(Heap, Heap)
        BY <3>2 DEF Spared
      <4> HIDE DEF h
      <4> QED
        BY <4>1, SparedLoss DEF Sound, Senders
    <3> QED
      BY <3>1, <3>2
  <2>2. PICK sends \in BOOLEAN : Become(IF sends THEN g ELSE CloseClients(h, {c}))
    BY <1>6 DEF DevtoolsRequest
  <2>3. phase \in {"ws", "devtools"}
    OBVIOUS
  <2> HIDE DEF h, found, phase
  <2>4. Allowed(Heap, g)
    BY <1>1, <2>1, <2>3, DevtoolsAllowed
  <2>5. Allowed(Heap, CloseClients(h, {c}))
    BY <1>1, <2>1, CloseOneAllowed
  <2> HIDE DEF g
  <2> QED
    BY <2>2, <2>4, <2>5, BecomeAllowed
<1>7. ASSUME NEW c \in Client, NEW f \in Fetch, StaticRequest(c, f) PROVE Careful
  <2> DEFINE h == [Heap EXCEPT !.ifs[f] = [open |-> TRUE, iws |-> c], !.iws[c].ifs = f]
  <2>1. PICK sends \in BOOLEAN : Become(IF sends THEN h ELSE CloseClients(h, {c}))
    BY <1>7 DEF StaticRequest
  <2>2. ~Heap.ifs[f].open
    BY <1>7, HeapRecord DEF StaticRequest
  <2>3. /\ Sound(h, Client) /\ Spared(Heap, h)
        /\ h.iport = Heap.iport /\ h.iwi = Heap.iwi
    BY <2>2, StaticRequestSound
  <2> HIDE DEF h
  <2>4. Allowed(Heap, h) /\ Allowed(Heap, CloseClients(h, {c}))
    BY <1>2, <2>3
  <2> QED
    BY <2>1, <2>4, BecomeAllowed
<1>8. ASSUME NEW c \in Client, NEW masked \in BOOLEAN, Frame(c, masked) PROVE Careful
  <2> DEFINE d == iws[c].iport
             refused == ~masked \/ d = DeviceList \/ ~iwi[d].open \/ iws[c].ipage = None
             r == [Heap.iws[c] EXCEPT !.sentClose = TRUE]
             close == [Heap EXCEPT !.iws[c].sentClose = TRUE]
  <2>1. PICK sends \in BOOLEAN :
          Become(CASE ~sends \/ (refused /\ iws[c].sentClose) -> CloseClients(Heap, {c})
                   [] sends /\ refused /\ ~iws[c].sentClose -> close
                   [] OTHER -> Heap)
    BY <1>8 DEF Frame
  <2>2. close = WithClient(Heap, c, r, Heap.ifs)
    BY <1>1 DEF WithClient, HeapType
  <2>3. /\ r \in ClientRec /\ r.phase = Heap.iws[c].phase /\ r.ifs = Heap.iws[c].ifs
        /\ r.iport = Heap.iws[c].iport /\ r.ipage = Heap.iws[c].ipage
    <3>1. Heap.iws[c] \in ClientRec
      BY <1>1 DEF HeapType
    <3> QED
      BY <3>1 DEF ClientRec
  <2> HIDE DEF r, close, refused
  <2>4. Heap.ifs \in [Fetch -> FetchRec]
    BY <1>1 DEF HeapType
  <2>5. /\ close \in HeapType
        /\ close.iport = Heap.iport /\ close.iwi = Heap.iwi /\ close.ipage = Heap.ipage
        /\ close.ifs = Heap.ifs
        /\ close.iws[c] = r /\ \A x \in Client \ {c} : close.iws[x] = Heap.iws[x]
        /\ Spared(Heap, close)
    BY <1>1, <2>2, <2>3, <2>4, ClientWrite
  <2>6. Sound(close, Client)
    <3>1. Senders(close, Client)
      BY <2>3, <2>5 DEF Sound, Senders
    <3>2. Fetches(close) /\ Remembered(close)
      BY <2>3, <2>5 DEF Sound, Fetches, Remembered
    <3> QED
      BY <2>5, <3>1, <3>2 DEF Sound
  <2>7. Allowed(Heap, close)
    BY <1>2, <2>5, <2>6
  <2>8. Become(CloseClients(Heap, {c})) \/ Become(close) \/ Become(Heap)
    BY <2>1
  <2> QED
    BY <1>3, <2>7, <2>8, BecomeAllowed
<1> QED
  BY <1>4, <1>5, <1>6, <1>7, <1>8 DEF ClientNext

(* ... from inspectors. *)
LEMMA InspectorNextCareful ==
  ASSUME Inv, Sound(Heap, Client), InspectorNext
  PROVE  Careful
<1>1. Good(Heap) /\ Heap \in HeapType
  BY DEF Inv, Good
<1>2. ASSUME NEW d \in Device, Become(CloseInspector(Heap, d)) PROVE Careful
  <2>1. Allowed(Heap, CloseInspector(Heap, d))
    BY CloseInspectorShut, ShutAllowed DEF Id
  <2> QED
    BY <1>2, <2>1, BecomeAllowed
<1>3. ASSUME Become(Heap) PROVE Careful
  BY <1>3, SameAllowed, BecomeAllowed
<1>4. ASSUME NEW d \in Device, NEW apps \in SUBSET App, AppList(d, apps) PROVE Careful
  <2> DEFINE h1 == RemoveApps(Heap, d, App \ apps)
             h2 == AddApps(h1, d, apps)
  <2>1. Heap.iwi[d].open
    BY <1>4, HeapRecord DEF AppList
  <2>2. /\ Sound(h1, Client) /\ Loss(Heap, h1)
        /\ h1.iport = Heap.iport
        /\ \A e \in Device : h1.iwi[e].open <=> Heap.iwi[e].open
    BY <1>1, <2>1, RemoveAppsStep
  <2> HIDE DEF h1
  <2>3. PICK last \in apps : Become(SetApp(h2, d, last))
    BY <1>4 DEF AppList, h1
  <2>4. /\ Sound(h2, Client) /\ h2.iport = h1.iport
        /\ h2.ipage = h1.ipage /\ h2.iws = h1.iws
        /\ \A e \in Device : h2.iwi[e].open <=> h1.iwi[e].open
    BY <2>2, AppsStep
  <2> HIDE DEF h2
  <2> DEFINE g == SetApp(h2, d, last)
  <2> HIDE DEF g
  <2>5. /\ Sound(g, Client) /\ g.iport = h2.iport
        /\ g.ipage = h2.ipage /\ g.iws = h2.iws
        /\ \A e \in Device : g.iwi[e].open <=> h2.iwi[e].open
    <3>1. last \in App /\ (g = AddApps(h2, d, apps) \/ g = SetApp(h2, d, last))
      BY DEF g
    <3> QED
      BY <2>4, <3>1, AppsStep
  <2>6. Loss(Heap, g)
    BY <2>2, <2>4, <2>5 DEF Loss
  <2>7. Allowed(Heap, g)
    BY <2>2, <2>4, <2>5, <2>6, OpenAllowed
  <2> QED
    BY <2>3, <2>7, BecomeAllowed DEF g
<1>5. ASSUME NEW d \in Device, NEW a \in App, NEW updated \in BOOLEAN,
             AppConnected(d, a, updated)
      PROVE  Careful
  <2> DEFINE h1 == IF updated THEN Heap ELSE SetApp(Heap, d, a)
             h2 == AddApps(h1, d, {a})
  <2>1. /\ Sound(h1, Client) /\ h1.iport = Heap.iport
        /\ h1.ipage = Heap.ipage /\ h1.iws = Heap.iws
        /\ \A e \in Device : h1.iwi[e].open <=> Heap.iwi[e].open
        /\ Only(Heap, h1, d)
    <3>1. CASE updated
      BY <3>1 DEF Only
    <3>2. CASE ~updated
      BY <3>2, AppsStep
    <3> QED
      BY <3>1, <3>2
  <2>2. PICK sends \in BOOLEAN :
          Become(IF sends \/ a \in iwi[d].apps THEN h2 ELSE CloseInspector(h2, d))
    BY <1>5 DEF AppConnected
  <2> HIDE DEF h1
  <2>3. /\ Sound(h2, Client) /\ h2.iport = h1.iport
        /\ h2.ipage = h1.ipage /\ h2.iws = h1.iws
        /\ \A e \in Device : h2.iwi[e].open <=> h1.iwi[e].open
        /\ Only(h1, h2, d)
    BY <2>1, AppsStep
  <2> HIDE DEF h2
  <2>4. Only(Heap, h2, d) /\ Spared(Heap, h2)
    BY <2>1, <2>3, OnlyTransitive DEF Spared
  <2>5. Allowed(Heap, h2)
    BY <2>1, <2>3, <2>4, SparedLoss, OpenAllowed
  <2>6. Allowed(Heap, CloseInspector(h2, d))
    <3> DEFINE g == CloseInspector(h2, d)
    <3>1. Sound(g, Client) /\ Shut(h2, g, d)
      BY <2>3, CloseInspectorShut
    <3> HIDE DEF g
    <3>2. Shut(Heap, h2, d)
      BY <2>1, <2>3, <2>4 DEF Shut, NoneOpened
    <3>3. Shut(Heap, g, d)
      BY <3>1, <3>2, ShutTransitive
    <3> QED
      BY <3>1, <3>3, ShutAllowed DEF g, Id
  <2> QED
    BY <2>2, <2>5, <2>6, BecomeAllowed
<1>6. ASSUME NEW d \in Device, NEW a \in App, AppDisconnected(d, a) PROVE Careful
  <2> DEFINE g == RemoveApps(Heap, d, {a})
  <2>1. Heap.iwi[d].open
    BY <1>6, HeapRecord DEF AppDisconnected
  <2>2. /\ Sound(g, Client) /\ Loss(Heap, g)
        /\ g.iport = Heap.iport
        /\ \A e \in Device : g.iwi[e].open <=> Heap.iwi[e].open
    BY <1>1, <2>1, RemoveAppsStep
  <2>3. Become(g)
    BY <1>6 DEF AppDisconnected
  <2> HIDE DEF g
  <2> QED
    BY <2>2, <2>3, OpenAllowed, BecomeAllowed
<1>7. ASSUME NEW d \in Device, NEW a \in App, SentListing(d, a) PROVE Careful
  <2>0. PICK ids \in SUBSET PageId : \E listing \in [ids -> BOOLEAN] :
          LET new == NewPages(Heap, d, a, listing)
              max == iwi[d].max
          IN  /\ max + Cardinality(new) <= MaxPage
              /\ \E num \in Bijection(new, (max + 1)..(max + Cardinality(new))) :
                   Become(TakeListing(Heap, d, a, listing, num))
    BY <1>7 DEF SentListing
  <2>1. PICK listing \in [ids -> BOOLEAN] :
          LET new == NewPages(Heap, d, a, listing)
              max == iwi[d].max
          IN  /\ max + Cardinality(new) <= MaxPage
              /\ \E num \in Bijection(new, (max + 1)..(max + Cardinality(new))) :
                   Become(TakeListing(Heap, d, a, listing, num))
    BY <2>0
  <2> DEFINE new == NewPages(Heap, d, a, listing)
             max == iwi[d].max
  <2>2. PICK num \in Bijection(new, (max + 1)..(max + Cardinality(new))) :
          Become(TakeListing(Heap, d, a, listing, num))
    BY <2>1
  <2>3. Heap.iwi[d].open /\ Heap.iwi[d].max = max
    BY <1>7, HeapRecord DEF SentListing
  <2>4. Allowed(Heap, TakeListing(Heap, d, a, listing, num))
    BY <1>1, <2>1, <2>2, <2>3, TakeListingAllowed
  <2> QED
    BY <2>2, <2>4, BecomeAllowed
<1> QED
  BY <1>2, <1>3, <1>4, <1>5, <1>6, <1>7
  DEF InspectorNext, InspectorCloses, StrayListing, SentData, DeliverData

(* ... and from the servers of static files. *)
LEMMA FetchNextCareful ==
  ASSUME Sound(Heap, Client), FetchNext
  PROVE  Careful
<1>1. ASSUME NEW h, Sound(h, Client), Spared(Heap, h), h.iport = Heap.iport, h.iwi = Heap.iwi,
             NEW f \in Fetch
      PROVE  Allowed(Heap, h) /\ Allowed(Heap, CloseFetch(h, f))
  <2> DEFINE g == CloseFetch(h, f)
  <2>1. /\ Sound(g, Client) /\ Spared(h, g)
        /\ g.iport = h.iport /\ g.iwi = h.iwi
    BY <1>1, CloseFetchSound
  <2> HIDE DEF g
  <2>2. Loss(Heap, h) /\ Loss(Heap, g)
    BY <1>1, <2>1, SparedTransitive, SparedLoss
  <2>3. Allowed(Heap, h)
    BY <1>1, <2>2, OpenAllowed
  <2>4. Allowed(Heap, g)
    BY <1>1, <2>1, <2>2, OpenAllowed
  <2> QED
    BY <2>3, <2>4 DEF g
<1>2. Spared(Heap, Heap)
  BY DEF Spared
<1>3. ASSUME NEW f \in Fetch, FetchData(f) PROVE Careful
  <2> DEFINE c == ifs[f].iws
             h == IF Live(Heap, c) THEN CloseClients(Heap, {c}) ELSE Heap
  <2>1. PICK sends \in BOOLEAN :
          Become(IF sends /\ Live(Heap, c) THEN Heap
                 ELSE IF h.ifs[f].open THEN CloseFetch(h, f) ELSE h)
    BY <1>3 DEF FetchData
  <2>2. /\ Sound(h, Client) /\ Spared(Heap, h)
        /\ h.iport = Heap.iport /\ h.iwi = Heap.iwi
    <3>1. CASE Live(Heap, c)
      <4>1. {c} \in SUBSET Client /\ Sound(Heap, Client \ {c})
        BY <3>1 DEF Live, Sound, Senders
      <4>2. h = CloseClients(Heap, {c})
        BY <3>1
      <4> HIDE DEF h
      <4> QED
        BY <4>1, <4>2, CloseClientsSound
    <3>2. CASE ~Live(Heap, c)
      BY <1>2, <3>2
    <3> QED
      BY <3>1, <3>2
  <2> HIDE DEF h
  <2>3. Allowed(Heap, h) /\ Allowed(Heap, CloseFetch(h, f))
    BY <1>1, <2>2
  <2>4. Become(Heap) \/ Become(CloseFetch(h, f)) \/ Become(h)
    BY <2>1
  <2> QED
    BY <2>3, <2>4, SameAllowed, BecomeAllowed
<1>4. ASSUME NEW f \in Fetch, FetchCloses(f) PROVE Careful
  <2>1. Allowed(Heap, CloseFetch(Heap, f))
    BY <1>1, <1>2
  <2> QED
    BY <1>4, <2>1, BecomeAllowed DEF FetchCloses
<1> QED
  BY <1>3, <1>4 DEF FetchNext

LEMMA NextCareful ==
  ASSUME Inv, Settled(Heap, Client), Sound(Heap, Client), [Next]_vars
  PROVE  Careful
<1>1. CASE UNCHANGED vars
  BY <1>1, SameHeapCareful DEF vars
<1>2. CASE EnvNext
  <2>1. UNCHANGED heapVars
    BY <1>2 DEF EnvNext, TakePort, ReleasePort, Reconfigure
  <2> QED
    BY <2>1, SameHeapCareful
<1> QED
  BY <1>1, <1>2, DeviceNextCareful, ClientNextCareful, InspectorNextCareful,
     FetchNextCareful DEF Next

LEMMA SoundInvariance == Spec => []Sound(Heap, Client)
<1>1. Init => Sound(Heap, Client)
  <2> SUFFICES ASSUME Init PROVE Sound(Heap, Client)
    OBVIOUS
  <2>1. Heap \in HeapType
    BY InitGood DEF Inv, Good
  <2>2. Fetches(Heap) /\ Remembered(Heap)
    BY HeapRecord DEF Init, Fetches, Remembered, NoClient, NoFetch, NoPort, Id
  <2>3. Senders(Heap, Client)
    BY HeapRecord, IwdpAssumption DEF Init, Senders, NoPage
  <2> QED
    BY <2>1, <2>2, <2>3 DEF Sound
<1>2. ASSUME Inv, Settled(Heap, Client), Sound(Heap, Client), [Next]_vars
      PROVE  Sound(Heap, Client)'
  BY <1>2, NextCareful DEF Careful
<1> QED
  BY <1>1, <1>2, Invariance, SettledInvariance, PTL DEF Spec

-----------------------------------------------------------------------------
(* The fetch a client points to names that client, so that closing a client closes
   no fetch of another: for any number of clients and fetches. *)
THEOREM FetchesAreOfClients == Spec => []FetchOfClient
<1>1. Sound(Heap, Client) => FetchOfClient
  BY HeapRecord DEF Sound, Fetches, FetchOfClient
<1> QED
  BY <1>1, SoundInvariance, PTL

(* No step that closes the inspector of a device touches the port, the inspector,
   the pages or the clients of another. *)
THEOREM FailuresAreLocal == Spec => FailureIsLocal
<1>1. Inv /\ Settled(Heap, Client) /\ Sound(Heap, Client) /\ [Next]_vars
      => [OthersLeftAlone]_vars
  BY NextCareful DEF Careful
<1> QED
  BY <1>1, Invariance, SettledInvariance, SoundInvariance, PTL DEF Spec, FailureIsLocal

(* A device that was attached before gets its port back, if it still may have it. *)
THEOREM PortsAreSticky == Spec => StickyPort
<1>1. Inv /\ Settled(Heap, Client) /\ Sound(Heap, Client) /\ [Next]_vars
      => [PortKept]_vars
  BY NextCareful DEF Careful
<1> QED
  BY <1>1, Invariance, SettledInvariance, SoundInvariance, PTL DEF Spec, StickyPort

(* A connected client loses its page only to another client, to another inspector
   client, or with the page. *)
THEOREM LossesAreExplained == Spec => PagesTakenForAReason
<1>1. Inv /\ Settled(Heap, Client) /\ Sound(Heap, Client) /\ [Next]_vars
      => [LossExplained]_vars
  BY NextCareful DEF Careful
<1> QED
  BY <1>1, Invariance, SettledInvariance, SoundInvariance, PTL DEF Spec, PagesTakenForAReason
=============================================================================
