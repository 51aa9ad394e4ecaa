----------------------------- MODULE IwdpProofs -----------------------------
(***************************************************************************)
(* Proofs about module Iwdp.                                               *)
(***************************************************************************)
EXTENDS Iwdp, FiniteSetTheorems, WellFoundedInduction, TLAPS

-----------------------------------------------------------------------------
(* A set of natural numbers that is not empty has a least element. *)
LEMMA MinOfNat ==
  ASSUME NEW S \in SUBSET Nat, S # {}
  PROVE  Min(S) \in S
<1> DEFINE less == {ss \in Nat \X Nat : ss[1] < ss[2]}
<1>1. IsWellFoundedOn(less, Nat)
  BY NatLessThanWellFounded DEF OpToRel
<1>2. PICK x \in S : \A y \in S : ~ (<<y, x>> \in less)
  <2> HIDE DEF less
  <2> QED
    BY <1>1, WFMin
<1>3. ASSUME NEW y \in S PROVE x <= y
  <2>1. <<y, x>> \in Nat \X Nat /\ ~ (<<y, x>> \in less)
    BY <1>2
  <2> QED
    BY <2>1
<1> QED
  BY <1>3 DEF Min

-----------------------------------------------------------------------------
(* Heaps and what holds of the heap between two callbacks. *)

HeapType == [iport: [Id -> PortRec], iwi: [Device -> InspectorRec],
             ipage: [PageRef -> PageRec], iws: [Client -> ClientRec],
             ifs: [Fetch -> FetchRec]]

(* The clients of C own the page they point to, and its number was given out. *)
Own(h, C) ==
  \A c \in C : \A p \in PageRef :
    h.iws[c].ipage = p =>
      /\ h.ipage[p].iws = c /\ h.ipage[p].sender = c
      /\ h.iws[c].iport = p[1]
      /\ p[2] <= h.iwi[p[1]].max

(* An inspector that is closed has been zeroed. *)
Zeroed(h) == \A d \in Device : h.iwi[d].open \/ h.iwi[d] = NoInspector

Paired(h, D) == \A d \in D : h.iport[d].open <=> h.iwi[d].open

Served(h) == \A c \in Client : Live(h, c) => h.iport[h.iws[c].iport].open

Distinct(h) ==
  \A i, j \in Id : i # j /\ h.iport[i].port = h.iport[j].port => h.iport[i].port = 0

Good(h) ==
  h \in HeapType /\ Own(h, Client) /\ Zeroed(h) /\ Paired(h, Device) /\ Served(h) /\ Distinct(h)

(* A good heap but for the port i, which is about to be closed. *)
Closable(h, i) ==
  /\ h \in HeapType
  /\ Own(h, Client \ ClientsOf(h, i))
  /\ Zeroed(h)
  /\ Paired(h, Device \ {i})
  /\ Served(h)
  /\ Distinct(h)

-----------------------------------------------------------------------------
(* A session that is left open stays with its page. *)
LEMMA LeftOpenType ==
  ASSUME NEW page \in PageRec, NEW s, NEW m \in {Gone, Lost}
  PROVE  /\ LeftOpen(page, s, m) \in PageRec
         /\ LeftOpen(page, s, m).iws = page.iws
         /\ LeftOpen(page, s, m).sender = page.sender
<1>1. {IF x = s THEN m ELSE x : x \in page.sessions} \in SUBSET (Client \cup {Gone, Lost})
  BY DEF PageRec
<1> QED
  BY <1>1 DEF PageRec, LeftOpen

(* The session of a page is ended in the page alone. *)
LEMMA EndSessionType ==
  ASSUME NEW page \in PageRec
  PROVE  /\ EndSession(page) \in PageRec
         /\ EndSession(page).iws = None
         /\ EndSession(page).sessions =
              IF page.remote THEN {IF x = page.sender THEN Gone ELSE x : x \in page.sessions}
              ELSE page.sessions \ {page.sender}
<1>1. LeftOpen(page, page.sender, Gone) \in PageRec
  BY LeftOpenType
<1>2. CASE page.remote
  <2>1. EndSession(page) =
          [LeftOpen(page, page.sender, Gone) EXCEPT !.iws = None, !.sender = None]
    BY <1>2 DEF EndSession
  <2>2. LeftOpen(page, page.sender, Gone).sessions =
          {IF x = page.sender THEN Gone ELSE x : x \in page.sessions}
    BY DEF LeftOpen, PageRec
  <2> QED
    BY <1>1, <1>2, <2>1, <2>2 DEF PageRec
<1>3. CASE ~page.remote
  <2>1. page.sessions \ {page.sender} \in SUBSET (Client \cup {Gone, Lost})
    BY DEF PageRec
  <2> QED
    BY <1>3, <2>1 DEF PageRec, EndSession
<1> QED
  BY <1>2, <1>3

(* Ending sessions leaves everything alone but the pointers between clients and
   pages, and a client keeps its page or has none. *)
LEMMA StopDevtoolsType ==
  ASSUME NEW h \in HeapType, NEW P \in SUBSET PageRef
  PROVE  LET g == StopDevtools(h, P)
         IN  /\ g \in HeapType
             /\ g.iport = h.iport /\ g.iwi = h.iwi /\ g.ifs = h.ifs
             /\ \A c \in Client : /\ g.iws[c].iport = h.iws[c].iport
                                  /\ g.iws[c].ipage \in {h.iws[c].ipage, None}
<1> DEFINE g == StopDevtools(h, P)
           stopped == {p \in P : Stoppable(h, p)}
           pages == [p \in PageRef |->
                       IF p \in stopped THEN EndSession(h.ipage[p]) ELSE h.ipage[p]]
           clients == [c \in Client |->
                         IF \E p \in stopped : h.ipage[p].iws = c
                         THEN WithoutPage(h.iws[c]) ELSE h.iws[c]]
<1>1. g = [h EXCEPT !.ipage = pages, !.iws = clients]
  BY DEF StopDevtools
<1>2. pages \in [PageRef -> PageRec]
  <2>1. ASSUME NEW p \in PageRef PROVE pages[p] \in PageRec
    BY EndSessionType DEF HeapType
  <2> QED
    BY <2>1
<1>3. ASSUME NEW c \in Client
      PROVE  /\ clients[c] \in ClientRec
             /\ clients[c].iport = h.iws[c].iport
             /\ clients[c].ipage \in {h.iws[c].ipage, None}
  <2>1. h.iws[c] \in ClientRec
    BY DEF HeapType
  <2>2. /\ WithoutPage(h.iws[c]) \in ClientRec
        /\ WithoutPage(h.iws[c]).iport = h.iws[c].iport
        /\ WithoutPage(h.iws[c]).ipage = None
    BY <2>1 DEF ClientRec, WithoutPage
  <2> QED
    BY <2>1, <2>2
<1>4. clients \in [Client -> ClientRec]
  BY <1>3
<1> HIDE DEF g, stopped, pages, clients
<1>5. /\ g \in HeapType
      /\ g.iport = h.iport /\ g.iwi = h.iwi /\ g.ifs = h.ifs /\ g.iws = clients
  BY <1>1, <1>2, <1>4 DEF HeapType
<1>6. g.iws = clients
  BY <1>5
<1> QED
  BY <1>3, <1>5, <1>6 DEF g

(* Of the clients that own their page, those of a page whose session ends lose
   it, and the others still own theirs. *)
LEMMA StopDevtoolsOwn ==
  ASSUME NEW h \in HeapType, NEW P \in SUBSET PageRef,
         NEW C \in SUBSET Client, Own(h, C)
  PROVE  /\ Own(StopDevtools(h, P), C)
         /\ \A c \in C : StopDevtools(h, P).iws[c].ipage \notin P
<1> DEFINE g == StopDevtools(h, P)
<1> SUFFICES ASSUME NEW c \in C, NEW p \in PageRef, g.iws[c].ipage = p
             PROVE  /\ p \notin P
                    /\ g.ipage[p].iws = c /\ g.ipage[p].sender = c
                    /\ g.iws[c].iport = p[1]
                    /\ p[2] <= g.iwi[p[1]].max
  BY DEF Own
<1>1. /\ h.iws[c].ipage = p
      /\ g.iws[c].iport = h.iws[c].iport
      /\ g.iwi = h.iwi
  BY StopDevtoolsType, NoneIsNoPage
<1>2. /\ h.ipage[p].iws = c /\ h.ipage[p].sender = c
      /\ h.iws[c].iport = p[1]
      /\ p[2] <= h.iwi[p[1]].max
  BY <1>1 DEF Own
<1>3. p \notin P
  <2>1. SUFFICES ASSUME p \in P PROVE FALSE
    OBVIOUS
  <2>2. Stoppable(h, p)
    BY <1>1, <1>2 DEF Stoppable
  <2>3. g.iws[c] = WithoutPage(h.iws[c])
    BY <1>2, <2>1, <2>2 DEF StopDevtools, HeapType
  <2>4. g.iws[c].ipage = None
    BY <2>3 DEF WithoutPage, HeapType, ClientRec
  <2> QED
    BY <2>4, NoneIsNoPage
<1>4. g.ipage[p] = h.ipage[p]
  BY <1>3 DEF StopDevtools, HeapType
<1> QED
  BY <1>1, <1>2, <1>3, <1>4

(* The pages that record one of the clients of K. *)
PagesWith(h, K) == {p \in PageRef : h.ipage[p].iws \in K}

(* Closing clients closes nothing else that an invariant speaks of. *)
LEMMA CloseClientsType ==
  ASSUME NEW h \in HeapType, NEW K \in SUBSET Client
  PROVE  LET h1 == StopDevtools(h, PagesWith(h, K))
             g == CloseClients(h, K)
         IN  /\ g \in HeapType /\ g.iport = h.iport /\ g.iwi = h.iwi
             /\ \A p \in PageRef : g.ipage[p] = IF h1.ipage[p].sender \in K
                                                THEN [h1.ipage[p] EXCEPT !.sender = Gone]
                                                ELSE h1.ipage[p]
             /\ \A c \in Client : /\ g.iws[c] = IF c \in K THEN NoClient ELSE h1.iws[c]
                                  /\ g.iws[c].iport = IF c \in K THEN None ELSE h.iws[c].iport
<1> DEFINE h1 == StopDevtools(h, PagesWith(h, K))
           pages == [p \in PageRef |->
                       IF h1.ipage[p].sender \in K
                       THEN [h1.ipage[p] EXCEPT !.sender = Gone] ELSE h1.ipage[p]]
           clients == [c \in Client |-> IF c \in K THEN NoClient ELSE h1.iws[c]]
           fetches == [f \in Fetch |->
                         IF f \in {h.iws[c].ifs : c \in K} THEN NoFetch ELSE h.ifs[f]]
           g == CloseClients(h, K)
<1>1. g = [h1 EXCEPT !.ipage = pages, !.iws = clients, !.ifs = fetches]
  BY DEF CloseClients, PagesWith
<1>2. /\ h1 \in HeapType
      /\ h1.iport = h.iport /\ h1.iwi = h.iwi
      /\ \A c \in Client : h1.iws[c].iport = h.iws[c].iport
  BY StopDevtoolsType DEF PagesWith
<1> HIDE DEF h1
<1>3. pages \in [PageRef -> PageRec]
  <2>1. ASSUME NEW p \in PageRef PROVE pages[p] \in PageRec
    <3>1. h1.ipage[p] \in PageRec
      BY <1>2 DEF HeapType
    <3>2. [h1.ipage[p] EXCEPT !.sender = Gone] \in PageRec
      BY <3>1 DEF PageRec
    <3> QED
      BY <3>1, <3>2
  <2> QED
    BY <2>1
<1>4. clients \in [Client -> ClientRec]
  BY <1>2 DEF HeapType, ClientRec, NoClient
<1>5. fetches \in [Fetch -> FetchRec]
  BY DEF HeapType, FetchRec, NoFetch
<1> HIDE DEF fetches, g
<1>6. /\ g \in HeapType
      /\ g.iport = h.iport /\ g.iwi = h.iwi
      /\ g.ipage = pages /\ g.iws = clients
  BY <1>1, <1>2, <1>3, <1>4, <1>5 DEF HeapType
<1>7. \A c \in Client : g.iws[c].iport = IF c \in K THEN None ELSE h.iws[c].iport
  BY <1>2, <1>6 DEF NoClient
<1> QED
  BY <1>6, <1>7 DEF g, h1

(* The clients that are left own their pages. *)
LEMMA CloseClientsGood ==
  ASSUME NEW h \in HeapType, NEW K \in SUBSET Client, Own(h, Client \ K)
  PROVE  LET g == CloseClients(h, K)
         IN  /\ g \in HeapType /\ g.iport = h.iport /\ g.iwi = h.iwi
             /\ Own(g, Client)
             /\ \A c \in Client :
                  g.iws[c].iport = IF c \in K THEN None ELSE h.iws[c].iport
<1> DEFINE h1 == StopDevtools(h, PagesWith(h, K))
           g == CloseClients(h, K)
<1>1. Own(h1, Client \ K) /\ h1.iwi = h.iwi
  BY StopDevtoolsType, StopDevtoolsOwn DEF PagesWith
<1>2. /\ g \in HeapType /\ g.iport = h.iport /\ g.iwi = h.iwi
      /\ \A p \in PageRef : g.ipage[p] = IF h1.ipage[p].sender \in K
                                         THEN [h1.ipage[p] EXCEPT !.sender = Gone]
                                         ELSE h1.ipage[p]
      /\ \A c \in Client : /\ g.iws[c] = IF c \in K THEN NoClient ELSE h1.iws[c]
                           /\ g.iws[c].iport = IF c \in K THEN None ELSE h.iws[c].iport
  BY CloseClientsType
<1> HIDE DEF h1, g
<1>3. Own(g, Client)
  <2> SUFFICES ASSUME NEW c \in Client, NEW p \in PageRef, g.iws[c].ipage = p
               PROVE  /\ g.ipage[p].iws = c /\ g.ipage[p].sender = c
                      /\ g.iws[c].iport = p[1]
                      /\ p[2] <= g.iwi[p[1]].max
    BY DEF Own
  <2>1. c \notin K
    BY <1>2, NoneIsNoPage DEF NoClient
  <2>2. g.iws[c] = h1.iws[c]
    BY <1>2, <2>1
  <2>3. /\ h1.ipage[p].iws = c /\ h1.ipage[p].sender = c
        /\ h1.iws[c].iport = p[1]
        /\ p[2] <= h1.iwi[p[1]].max
    BY <1>1, <2>1, <2>2 DEF Own
  <2>4. g.ipage[p] = h1.ipage[p]
    BY <1>2, <2>1, <2>3
  <2> QED
    BY <1>1, <1>2, <2>2, <2>3, <2>4
<1> QED
  BY <1>2, <1>3 DEF g

(* iwdp_ipage_free zeroes the pages it is given and touches nothing else. *)
LEMMA FreePagesType ==
  ASSUME NEW h \in HeapType, NEW P \in SUBSET PageRef
  PROVE  LET g == FreePages(h, P)
         IN  /\ g \in HeapType
             /\ g.iport = h.iport /\ g.iwi = h.iwi /\ g.iws = h.iws /\ g.ifs = h.ifs
             /\ \A p \in PageRef : g.ipage[p] = IF p \in P THEN NoPage ELSE h.ipage[p]
  BY DEF FreePages, HeapType, PageRec, NoPage

(* Freeing the inspector of a device leaves the clients of other devices with
   the pages they own. *)
LEMMA FreeInspectorOwn ==
  ASSUME NEW h \in HeapType, NEW d \in Device, NEW C \in SUBSET Client, Own(h, C)
  PROVE  LET g == FreeInspector(h, d)
         IN  /\ g \in HeapType
             /\ g.iport = h.iport /\ g.iws = h.iws
             /\ g.iwi[d] = NoInspector
             /\ \A e \in Device \ {d} : g.iwi[e] = h.iwi[e]
             /\ Own(g, C \ ClientsOf(h, d))
<1> DEFINE h1 == FreePages(h, PagesOf(d))
           g == FreeInspector(h, d)
<1>1. /\ h1 \in HeapType
      /\ h1.iport = h.iport /\ h1.iwi = h.iwi /\ h1.iws = h.iws
      /\ \A p \in PageRef \ PagesOf(d) : h1.ipage[p] = h.ipage[p]
  BY FreePagesType DEF PagesOf
<1>2. g = [h1 EXCEPT !.iwi = [h1.iwi EXCEPT ![d] = NoInspector]]
  BY DEF FreeInspector
<1> HIDE DEF h1, g
<1>3. [h.iwi EXCEPT ![d] = NoInspector] \in [Device -> InspectorRec]
  BY IwdpAssumption DEF HeapType, InspectorRec, NoInspector
<1>4. /\ g \in HeapType
      /\ g.iport = h.iport /\ g.iws = h.iws /\ g.ipage = h1.ipage
      /\ g.iwi = [h.iwi EXCEPT ![d] = NoInspector]
  BY <1>1, <1>2, <1>3 DEF HeapType
<1>5. g.iwi[d] = NoInspector /\ \A e \in Device \ {d} : g.iwi[e] = h.iwi[e]
  BY <1>4 DEF HeapType
<1>6. Own(g, C \ ClientsOf(h, d))
  <2> SUFFICES ASSUME NEW c \in C \ ClientsOf(h, d), NEW p \in PageRef, g.iws[c].ipage = p
               PROVE  /\ g.ipage[p].iws = c /\ g.ipage[p].sender = c
                      /\ g.iws[c].iport = p[1]
                      /\ p[2] <= g.iwi[p[1]].max
    BY DEF Own
  <2>1. /\ h.ipage[p].iws = c /\ h.ipage[p].sender = c
        /\ h.iws[c].iport = p[1]
        /\ p[2] <= h.iwi[p[1]].max
    BY <1>4 DEF Own
  <2>2. p[1] # d /\ p[1] \in Device
    BY <2>1 DEF ClientsOf, PageRef
  <2>3. g.ipage[p] = h.ipage[p]
    BY <1>1, <1>4, <2>2 DEF PagesOf
  <2> QED
    BY <1>4, <1>5, <2>1, <2>2, <2>3
<1> QED
  BY <1>4, <1>5, <1>6 DEF g

-----------------------------------------------------------------------------
(* Closing a browser port makes a heap good that was but for that port. *)
LEMMA ClosePortGood ==
  ASSUME NEW h, NEW i \in Id, Closable(h, i)
  PROVE  Good(ClosePort(h, i))
<1> DEFINE K == ClientsOf(h, i)
           h1 == CloseClients(h, K)
           h2 == IF i \in Device THEN FreeInspector(h1, i) ELSE h1
           g == ClosePort(h, i)
           port == IF h2.iport[i].sticky THEN [h2.iport[i] EXCEPT !.open = FALSE] ELSE NoPort
<1>1. /\ h \in HeapType
      /\ K \in SUBSET Client
      /\ Own(h, Client \ K)
  BY DEF Closable, ClientsOf
<1>2. /\ h1 \in HeapType /\ h1.iport = h.iport /\ h1.iwi = h.iwi
      /\ Own(h1, Client)
      /\ \A c \in Client : h1.iws[c].iport = IF c \in K THEN None ELSE h.iws[c].iport
  BY <1>1, CloseClientsGood
<1> HIDE DEF h1
<1>3. ClientsOf(h1, i) = {}
  BY <1>2, IwdpAssumption DEF ClientsOf
<1>4. /\ h2 \in HeapType /\ h2.iport = h.iport
      /\ Own(h2, Client)
      /\ i \in Device => h2.iwi[i] = NoInspector
      /\ \A d \in Device \ {i} : h2.iwi[d] = h.iwi[d]
      /\ h2.iws = h1.iws
  <2>1. CASE i \in Device
    <3> DEFINE f == FreeInspector(h1, i)
    <3>1. /\ f \in HeapType
          /\ f.iport = h1.iport /\ f.iws = h1.iws
          /\ f.iwi[i] = NoInspector
          /\ \A d \in Device \ {i} : f.iwi[d] = h1.iwi[d]
          /\ Own(f, Client \ ClientsOf(h1, i))
      BY <1>2, <2>1, FreeInspectorOwn
    <3>2. Client \ ClientsOf(h1, i) = Client
      BY <1>3
    <3>3. h2 = f
      BY <2>1
    <3> HIDE DEF f, h2
    <3> QED
      BY <1>2, <3>1, <3>2, <3>3
  <2>2. CASE i \notin Device
    BY <1>2, <2>2
  <2> QED
    BY <2>1, <2>2
<1>5. g = [h2 EXCEPT !.iport = [h2.iport EXCEPT ![i] = port]]
  BY DEF ClosePort, h1
<1>6. port \in PortRec /\ ~port.open /\ port.port \in {h.iport[i].port, 0}
  <2>1. h2.iport[i] \in PortRec /\ h2.iport[i] = h.iport[i]
    BY <1>4 DEF HeapType
  <2> HIDE DEF h2
  <2> QED
    BY <2>1 DEF PortRec, NoPort
<1> HIDE DEF K, h2, g, port
<1>7. /\ g \in HeapType
      /\ g.iport = [h.iport EXCEPT ![i] = port]
      /\ g.iwi = h2.iwi /\ g.ipage = h2.ipage /\ g.iws = h1.iws
  BY <1>4, <1>5, <1>6 DEF HeapType
<1>8. g.iport[i] = port /\ \A j \in Id \ {i} : g.iport[j] = h.iport[j]
  BY <1>1, <1>7 DEF HeapType
<1>9. Own(g, Client)
  BY <1>4, <1>7 DEF Own
<1>10. Zeroed(g) /\ Paired(g, Device)
  <2> SUFFICES ASSUME NEW d \in Device
               PROVE  /\ g.iwi[d].open \/ g.iwi[d] = NoInspector
                      /\ g.iport[d].open <=> g.iwi[d].open
    BY DEF Zeroed, Paired
  <2>1. CASE d = i
    <3>1. g.iwi[d] = NoInspector /\ ~g.iport[d].open
      BY <1>4, <1>6, <1>7, <1>8, <2>1
    <3> QED
      BY <3>1 DEF NoInspector
  <2>2. CASE d # i
    <3>1. g.iwi[d] = h.iwi[d] /\ g.iport[d] = h.iport[d]
      BY <1>4, <1>7, <1>8, <2>2 DEF Id
    <3>2. /\ h.iwi[d].open \/ h.iwi[d] = NoInspector
          /\ h.iport[d].open <=> h.iwi[d].open
      BY <2>2 DEF Closable, Zeroed, Paired
    <3> QED
      BY <3>1, <3>2
  <2> QED
    BY <2>1, <2>2
<1>11. Served(g)
  <2> SUFFICES ASSUME NEW c \in Client, Live(g, c)
               PROVE  g.iport[g.iws[c].iport].open
    BY DEF Served
  <2>1. c \notin K /\ g.iws[c].iport = h.iws[c].iport
    BY <1>2, <1>7 DEF Live
  <2>2. h.iws[c].iport \in Id \ {i} /\ h.iport[h.iws[c].iport].open
    BY <1>1, <2>1 DEF Live, Closable, Served, K, ClientsOf, HeapType, ClientRec
  <2> QED
    BY <1>8, <2>1, <2>2
<1>12. Distinct(g)
  BY <1>6, <1>8 DEF Closable, Distinct
<1> QED
  BY <1>7, <1>9, <1>10, <1>11, <1>12 DEF Good, g

(* A port of a good heap may be closed (iwdp_iport_close). *)
LEMMA GoodIsClosable ==
  ASSUME NEW h, NEW i, Good(h)
  PROVE  Closable(h, i)
  BY DEF Good, Closable, Own, Paired

(* iwdp_iwi_close: the inspector, its pages, its port and its clients go together. *)
LEMMA CloseInspectorGood ==
  ASSUME NEW h, NEW d \in Device, Good(h), h.iwi[d].open
  PROVE  Good(CloseInspector(h, d))
<1> DEFINE h1 == FreeInspector(h, d)
<1>1. /\ h1 \in HeapType /\ h1.iport = h.iport /\ h1.iws = h.iws
      /\ h1.iwi[d] = NoInspector
      /\ \A e \in Device \ {d} : h1.iwi[e] = h.iwi[e]
      /\ Own(h1, Client \ ClientsOf(h, d))
  BY FreeInspectorOwn DEF Good
<1> HIDE DEF h1
<1>2. ClientsOf(h1, d) = ClientsOf(h, d)
  BY <1>1 DEF ClientsOf
<1>3. Closable(h1, d)
  <2>1. Own(h1, Client \ ClientsOf(h1, d))
    BY <1>1, <1>2
  <2>2. Zeroed(h1)
    <3> SUFFICES ASSUME NEW e \in Device, e # d
                 PROVE  h1.iwi[e].open \/ h1.iwi[e] = NoInspector
      BY <1>1 DEF Zeroed
    <3>1. h1.iwi[e] = h.iwi[e]
      BY <1>1
    <3> QED
      BY <3>1 DEF Good, Zeroed
  <2>3. Paired(h1, Device \ {d})
    <3> SUFFICES ASSUME NEW e \in Device \ {d}
                 PROVE  h1.iport[e].open <=> h1.iwi[e].open
      BY DEF Paired
    <3>1. h1.iport[e] = h.iport[e] /\ h1.iwi[e] = h.iwi[e]
      BY <1>1
    <3> QED
      BY <3>1 DEF Good, Paired
  <2>4. Served(h1) /\ Distinct(h1)
    BY <1>1 DEF Good, Served, Distinct, Live
  <2> QED
    BY <1>1, <2>1, <2>2, <2>3, <2>4 DEF Closable
<1>4. CloseInspector(h, d) = ClosePort(h1, d)
  BY <1>1 DEF Good, Paired, CloseInspector, h1
<1> QED
  BY <1>3, <1>4, ClosePortGood DEF Id

(* Closing clients keeps a heap good. *)
LEMMA CloseClientsKeepsGood ==
  ASSUME NEW h, NEW K \in SUBSET Client, Good(h)
  PROVE  Good(CloseClients(h, K))
<1> DEFINE g == CloseClients(h, K)
<1>1. /\ g \in HeapType /\ g.iport = h.iport /\ g.iwi = h.iwi
      /\ Own(g, Client)
      /\ \A c \in Client : g.iws[c].iport = IF c \in K THEN None ELSE h.iws[c].iport
  <2>1. Own(h, Client \ K)
    BY DEF Good, Own
  <2> QED
    BY <2>1, CloseClientsGood DEF Good
<1> HIDE DEF g
<1>2. Served(g)
  BY <1>1 DEF Good, Served, Live
<1> QED
  BY <1>1, <1>2 DEF Good, Zeroed, Paired, Distinct, g

(* A heap that differs from a good one in the fetches and in what clients have
   besides their port and page is good. *)
LEMMA SameSessionsGood ==
  ASSUME NEW h, Good(h), NEW g \in HeapType,
         g.iport = h.iport, g.iwi = h.iwi, g.ipage = h.ipage,
         \A c \in Client : g.iws[c].iport = h.iws[c].iport /\ g.iws[c].ipage = h.iws[c].ipage
  PROVE  Good(g)
  BY DEF Good, Own, Zeroed, Paired, Served, Distinct, Live

(* iwdp_ifs_close: a fetch that ends takes its client with it. *)
LEMMA CloseFetchGood ==
  ASSUME NEW h, NEW f \in Fetch, Good(h)
  PROVE  Good(CloseFetch(h, f))
<1> DEFINE c == h.ifs[f].iws
           clients == [x \in Client |->
                         IF x = c /\ h.iws[x].ifs = f
                         THEN [h.iws[x] EXCEPT !.ifs = None] ELSE h.iws[x]]
           fetches == [h.ifs EXCEPT ![f] = NoFetch]
           h1 == [h EXCEPT !.ifs = fetches, !.iws = clients]
<1>1. h \in HeapType
  BY DEF Good
<1>2. fetches \in [Fetch -> FetchRec]
  BY <1>1 DEF HeapType, FetchRec, NoFetch
<1>3. ASSUME NEW x \in Client
      PROVE  /\ clients[x] \in ClientRec
             /\ clients[x].iport = h.iws[x].iport /\ clients[x].ipage = h.iws[x].ipage
  <2>1. h.iws[x] \in ClientRec
    BY <1>1 DEF HeapType
  <2> QED
    BY <2>1 DEF ClientRec
<1> HIDE DEF clients, fetches
<1>4. clients \in [Client -> ClientRec]
  BY <1>3 DEF clients
<1>5. /\ h1 \in HeapType
      /\ h1.iport = h.iport /\ h1.iwi = h.iwi /\ h1.ipage = h.ipage /\ h1.iws = clients
  BY <1>1, <1>2, <1>4 DEF HeapType
<1> HIDE DEF h1
<1>6. Good(h1)
  BY <1>3, <1>5, SameSessionsGood
<1>7. c \in Client => Good(CloseClients(h1, {c}))
  BY <1>6, CloseClientsKeepsGood
<1> QED
  BY <1>6, <1>7 DEF CloseFetch, Live, h1, clients, fetches

-----------------------------------------------------------------------------
(* Attaching a device. *)

(* A browser port that is opened is one no other known browser port has. *)
LEMMA ListenGood ==
  ASSUME NEW h, NEW i \in Id, Good(h)
  PROVE  LET l == Listen(h, i)
         IN  /\ l.err => Good(l.heap)
             /\ ~l.err => /\ ~h.iport[i].open /\ l.heap.iport[i].open
                          /\ Closable(l.heap, i)
                          /\ Own(l.heap, Client)
             /\ l.heap.iwi = h.iwi
<1> DEFINE old == h.iport[i]
           sel == SelectPort(entries, i, Preferred(old))
           free == IF sel.min > 0
                   THEN {p \in Port : /\ p >= sel.min /\ p <= sel.max
                                      /\ p \notin UsedPorts(h) /\ p # sel.port /\ CanBind(h, p)}
                   ELSE {}
           set(r) == [h EXCEPT !.iport = [h.iport EXCEPT ![i] = r]]
           open(p) == [old EXCEPT !.known = TRUE, !.open = TRUE, !.port = p]
           l == Listen(h, i)
<1>1. h \in HeapType /\ old \in PortRec
  BY DEF Good, HeapType
<1>2. sel.port \in Port => sel.port = old.port
  BY <1>1, IwdpAssumption DEF SelectPort, Preferred, PortRec
<1>3. free # {} => Min(free) \in Port /\ Min(free) \notin UsedPorts(h)
  <2>1. free \in SUBSET Nat
    BY IwdpAssumption
  <2>2. free # {} => Min(free) \in free
    BY <2>1, MinOfNat
  <2> QED
    BY <2>2
<1> HIDE DEF sel, free
<1>4. \/ l.err /\ l.heap = h
      \/ l.err /\ ~old.open /\ l.heap = set(Unbound(old, sel.port))
      \/ \E p \in Port : /\ ~l.err /\ ~old.open /\ l.heap = set(open(p))
                         /\ p = old.port \/ p \notin UsedPorts(h)
  <2>1. CASE old.open \/ sel.err \/ (sel.port < 0 /\ (sel.min < 0 \/ sel.max < sel.min))
    BY <2>1 DEF Listen, sel
  <2>2. CASE ~(old.open \/ sel.err \/ (sel.port < 0 /\ (sel.min < 0 \/ sel.max < sel.min)))
    <3>1. l = IF sel.port \in Port /\ CanBind(h, sel.port)
              THEN [err |-> FALSE, heap |-> set(open(sel.port))]
              ELSE IF free # {} THEN [err |-> FALSE, heap |-> set(open(Min(free)))]
              ELSE [err |-> TRUE, heap |-> set(Unbound(old, sel.port))]
      BY <2>2 DEF Listen, sel, free
    <3> HIDE DEF l, set, open
    <3> QED
      BY <1>2, <1>3, <2>2, <3>1
  <2> QED
    BY <2>1, <2>2
<1> HIDE DEF l
(* Setting the port of i to a record with a port that is not in use. *)
<1>5. ASSUME NEW r \in PortRec, r.port = old.port \/ r.port \notin UsedPorts(h), ~old.open
      PROVE  LET g == set(r)
             IN  /\ g \in HeapType /\ g.iwi = h.iwi
                 /\ g.iport[i] = r
                 /\ Own(g, Client)
                 /\ Closable(g, i)
                 /\ ~r.open => Good(g)
  <2> DEFINE g == set(r)
  <2>1. [h.iport EXCEPT ![i] = r] \in [Id -> PortRec]
    BY <1>1 DEF HeapType
  <2>2. /\ g \in HeapType
        /\ g.iport = [h.iport EXCEPT ![i] = r]
        /\ g.iwi = h.iwi /\ g.ipage = h.ipage /\ g.iws = h.iws
    BY <1>1, <2>1 DEF HeapType
  <2> HIDE DEF g, set
  <2>3. g.iport[i] = r /\ \A j \in Id \ {i} : g.iport[j] = h.iport[j]
    BY <1>1, <2>2 DEF HeapType
  <2>4. Own(g, Client)
    BY <2>2 DEF Good, Own
  <2>5. Zeroed(g) /\ Served(g)
    <3>1. Zeroed(g)
      BY <2>2 DEF Good, Zeroed
    <3>2. ASSUME NEW c \in Client, Live(g, c) PROVE g.iport[g.iws[c].iport].open
      <4>1. /\ h.iws[c].iport \in Id /\ h.iport[h.iws[c].iport].open
            /\ g.iws[c].iport = h.iws[c].iport
        BY <1>1, <2>2, <3>2 DEF Good, Served, Live, HeapType, ClientRec
      <4> QED
        BY <1>5, <2>3, <4>1
    <3> QED
      BY <3>1, <3>2 DEF Served
  <2>6. Distinct(g)
    BY <1>5, <2>3 DEF Good, Distinct, UsedPorts
  <2>7. Paired(g, Device \ {i})
    BY <2>2, <2>3 DEF Good, Paired, Id
  <2>8. Closable(g, i)
    BY <2>2, <2>4, <2>5, <2>6, <2>7 DEF Closable, Own
  <2>9. ASSUME ~r.open PROVE Paired(g, Device)
    BY <1>5, <2>2, <2>3, <2>9 DEF Good, Paired, Id
  <2> QED
    BY <2>2, <2>3, <2>4, <2>5, <2>6, <2>8, <2>9 DEF Good, g
<1>6. CASE l.err /\ l.heap = h
  BY <1>6 DEF l
<1>7. CASE l.err /\ ~old.open /\ l.heap = set(Unbound(old, sel.port))
  <2> DEFINE r == Unbound(old, sel.port)
  <2>1. r \in PortRec /\ r.port = old.port /\ ~r.open
    BY <1>1, <1>7 DEF Unbound, PortRec
  <2> HIDE DEF r, set
  <2> QED
    BY <1>5, <1>7, <2>1 DEF l, r
<1>8. ASSUME NEW p \in Port,
             ~l.err /\ ~old.open /\ l.heap = set(open(p)),
             p = old.port \/ p \notin UsedPorts(h)
      PROVE  /\ ~h.iport[i].open /\ l.heap.iport[i].open
             /\ Closable(l.heap, i)
             /\ Own(l.heap, Client)
             /\ l.heap.iwi = h.iwi
  <2> DEFINE r == open(p)
  <2>1. r \in PortRec /\ r.port = p /\ r.open
    BY <1>1 DEF PortRec
  <2> HIDE DEF r, set
  <2> QED
    BY <1>5, <1>8, <2>1, ZenonT(40) DEF r
<1> QED
  BY <1>4, <1>6, <1>7, <1>8 DEF l

(* iwdp_on_attach: whatever fails on the way, the port is open exactly with its
   inspector afterwards. *)
LEMMA AttachGood ==
  ASSUME NEW h, NEW d \in Device, Good(h), NEW connects \in BOOLEAN, NEW sends \in BOOLEAN
  PROVE  Good(Attach(h, d, connects, sends))
<1> DEFINE l == Listen(h, d)
           inspector == [NoInspector EXCEPT !.open = TRUE]
           h1 == [l.heap EXCEPT !.iwi = [l.heap.iwi EXCEPT ![d] = inspector]]
           h2 == [h1 EXCEPT !.iport = [h1.iport EXCEPT ![d] = [@ EXCEPT !.sticky = TRUE]]]
<1>1. /\ l.err => Good(l.heap)
      /\ ~l.err => /\ ~h.iport[d].open /\ l.heap.iport[d].open
                   /\ Closable(l.heap, d)
                   /\ Own(l.heap, Client)
      /\ l.heap.iwi = h.iwi
  BY ListenGood DEF Id
<1>2. Attach(h, d, connects, sends) =
        IF l.err \/ l.heap.iwi[d].open THEN l.heap
        ELSE IF ~connects THEN ClosePort(l.heap, d)
        ELSE IF ~sends THEN ClosePort(h1, d)
        ELSE h2
  BY DEF Attach, GiveUp
<1> HIDE DEF l
<1>3. CASE l.err
  BY <1>1, <1>2, <1>3
<1>4. CASE ~l.err
  <2>1. ~l.heap.iwi[d].open /\ l.heap.iwi[d] = NoInspector
    <3>1. ~h.iwi[d].open
      BY <1>1, <1>4 DEF Good, Paired
    <3>2. h.iwi[d] = NoInspector
      BY <3>1 DEF Good, Zeroed
    <3> QED
      BY <1>1, <3>1, <3>2
  <2>2. Good(ClosePort(l.heap, d))
    BY <1>1, <1>4, ClosePortGood DEF Id
  <2>3. l.heap \in HeapType
    BY <1>1, <1>4 DEF Closable
  <2>4. inspector \in InspectorRec /\ inspector.open /\ inspector.max = 0
    <3>1. NoInspector \in InspectorRec /\ NoInspector.max = 0
      BY IwdpAssumption DEF NoInspector, InspectorRec
    <3> QED
      BY <3>1 DEF InspectorRec
  <2> HIDE DEF inspector
  <2>5. /\ h1 \in HeapType
        /\ h1.iport = l.heap.iport /\ h1.ipage = l.heap.ipage /\ h1.iws = l.heap.iws
        /\ h1.iwi = [l.heap.iwi EXCEPT ![d] = inspector]
    <3>1. [l.heap.iwi EXCEPT ![d] = inspector] \in [Device -> InspectorRec]
      BY <2>3, <2>4 DEF HeapType
    <3> QED
      BY <2>3, <3>1 DEF HeapType
  <2>6. h1.iwi[d] = inspector /\ \A e \in Device \ {d} : h1.iwi[e] = l.heap.iwi[e]
    BY <2>3, <2>5 DEF HeapType
  <2> HIDE DEF h1
  <2>7. Own(h1, Client)
    <3>1. \A e \in Device : h1.iwi[e].max = l.heap.iwi[e].max
      BY <2>1, <2>4, <2>6 DEF NoInspector
    <3>2. \A p \in PageRef : p[1] \in Device
      BY DEF PageRef
    <3> QED
      BY <1>1, <1>4, <2>5, <3>1, <3>2 DEF Own
  <2>8. Zeroed(h1)
    <3> SUFFICES ASSUME NEW e \in Device
                 PROVE  h1.iwi[e].open \/ h1.iwi[e] = NoInspector
      BY DEF Zeroed
    <3> QED
      BY <1>1, <1>4, <2>4, <2>6 DEF Closable, Zeroed
  <2>9. Paired(h1, Device \ {d})
    <3> SUFFICES ASSUME NEW e \in Device \ {d}
                 PROVE  h1.iport[e].open <=> h1.iwi[e].open
      BY DEF Paired
    <3>1. h1.iport[e] = l.heap.iport[e] /\ h1.iwi[e] = l.heap.iwi[e]
      BY <2>5, <2>6
    <3> QED
      BY <1>1, <1>4, <3>1 DEF Closable, Paired
  <2>10. Served(h1) /\ Distinct(h1)
    BY <1>1, <1>4, <2>5 DEF Closable, Served, Distinct, Live
  <2>11. Closable(h1, d)
    BY <2>5, <2>7, <2>8, <2>9, <2>10 DEF Closable, Own
  <2>12. Good(ClosePort(h1, d))
    BY <2>11, ClosePortGood DEF Id
  <2>13. Good(h2)
    <3> DEFINE port == [h1.iport[d] EXCEPT !.sticky = TRUE]
    <3>1. port \in PortRec /\ port.open /\ port.port = h1.iport[d].port
      <4>1. h1.iport[d] \in PortRec /\ h1.iport[d].open
        BY <1>1, <1>4, <2>5 DEF HeapType, Id
      <4> QED
        BY <4>1 DEF PortRec
    <3> HIDE DEF port
    <3>2. h2 = [h1 EXCEPT !.iport = [h1.iport EXCEPT ![d] = port]]
      BY DEF port
    <3>3. [h1.iport EXCEPT ![d] = port] \in [Id -> PortRec]
      BY <2>5, <3>1 DEF HeapType
    <3>4. /\ h2 \in HeapType
          /\ h2.iwi = h1.iwi /\ h2.ipage = h1.ipage /\ h2.iws = h1.iws
          /\ h2.iport = [h1.iport EXCEPT ![d] = port]
      BY <2>5, <3>2, <3>3 DEF HeapType
    <3> HIDE DEF h2
    <3>5. h2.iport[d] = port /\ \A i \in Id \ {d} : h2.iport[i] = h1.iport[i]
      BY <2>5, <3>4 DEF HeapType, Id
    <3>6. Own(h2, Client) /\ Zeroed(h2)
      BY <2>7, <2>8, <3>4 DEF Own, Zeroed
    <3>7. Paired(h2, Device)
      BY <2>4, <2>6, <2>9, <3>1, <3>4, <3>5 DEF Paired, Id
    <3>8. Served(h2)
      <4> SUFFICES ASSUME NEW c \in Client, Live(h2, c)
                   PROVE  h2.iport[h2.iws[c].iport].open
        BY DEF Served
      <4>1. /\ h1.iws[c].iport \in Id /\ h1.iport[h1.iws[c].iport].open
            /\ h2.iws[c].iport = h1.iws[c].iport
        BY <2>5, <2>10, <3>4 DEF Served, Live, HeapType, ClientRec
      <4> QED
        BY <3>1, <3>5, <4>1
    <3>9. Distinct(h2)
      BY <2>10, <3>1, <3>5 DEF Distinct
    <3> QED
      BY <3>4, <3>6, <3>7, <3>8, <3>9 DEF Good
  <2> HIDE DEF h2
  <2> QED
    BY <1>2, <1>4, <2>1, <2>2, <2>12, <2>13
<1> QED
  BY <1>3, <1>4

-----------------------------------------------------------------------------
(* Sessions. *)

(* A heap in which the clients own their pages is good when the open ports and
   inspectors are those of a good one. *)
LEMMA SamePortsGood ==
  ASSUME NEW h, Good(h), NEW g \in HeapType, Own(g, Client),
         g.iport = h.iport,
         \A d \in Device : /\ g.iwi[d].open <=> h.iwi[d].open
                           /\ g.iwi[d].open \/ g.iwi[d] = h.iwi[d],
         \A c \in Client : g.iws[c].iport = h.iws[c].iport
  PROVE  Good(g)
<1>1. Zeroed(g) /\ Paired(g, Device)
  <2> SUFFICES ASSUME NEW d \in Device
               PROVE  /\ g.iwi[d].open \/ g.iwi[d] = NoInspector
                      /\ g.iport[d].open <=> g.iwi[d].open
    BY DEF Zeroed, Paired
  <2>1. /\ h.iwi[d].open \/ h.iwi[d] = NoInspector
        /\ h.iport[d].open <=> h.iwi[d].open
    BY DEF Good, Zeroed, Paired
  <2> QED
    BY <2>1
<1>2. Served(g) /\ Distinct(g)
  BY DEF Good, Served, Distinct, Live
<1> QED
  BY <1>1, <1>2 DEF Good

(* iwdp_start_devtools: the client that had the page loses it before another one
   gets it. *)
LEMMA StartDevtoolsGood ==
  ASSUME NEW h, Good(h), NEW c \in Client, NEW p \in PageRef,
         h.iws[c].iport = p[1], p[2] <= h.iwi[p[1]].max
  PROVE  Good(StartDevtools(h, p, c))
<1> DEFINE old == h.ipage[p].iws
           h1 == IF old = None THEN h ELSE StopDevtools(h, {p})
           num(x) == IF x = c \/ (x = old /\ Live(h, x)) THEN p[2] ELSE h1.iws[x].pageNum
           clients == [x \in Client |->
                         [h1.iws[x] EXCEPT !.pageNum = num(x),
                                           !.ipage = IF x = c THEN p ELSE h1.iws[x].ipage]]
           page == [h1.ipage[p] EXCEPT !.iws = c, !.sender = c, !.sessions = @ \cup {c}]
           pages == [h1.ipage EXCEPT ![p] = page]
           g == StartDevtools(h, p, c)
<1>1. h \in HeapType /\ Own(h, Client)
  BY DEF Good
<1>2. /\ h1 \in HeapType /\ h1.iport = h.iport /\ h1.iwi = h.iwi
      /\ Own(h1, Client)
      /\ \A x \in Client : h1.iws[x].iport = h.iws[x].iport /\ h1.iws[x].ipage # p
  <2>1. CASE old = None
    BY <1>1, <2>1, IwdpAssumption DEF Own
  <2>2. CASE old # None
    <3> DEFINE f == StopDevtools(h, {p})
    <3>1. /\ f \in HeapType /\ f.iport = h.iport /\ f.iwi = h.iwi
          /\ \A x \in Client : f.iws[x].iport = h.iws[x].iport
      BY <1>1, StopDevtoolsType
    <3>2. Own(f, Client) /\ \A x \in Client : f.iws[x].ipage \notin {p}
      BY <1>1, StopDevtoolsOwn
    <3>3. h1 = f
      BY <2>2
    <3> HIDE DEF f, h1
    <3> QED
      BY <3>1, <3>2, <3>3
  <2> QED
    BY <2>1, <2>2
<1>3. g = [h1 EXCEPT !.ipage = pages, !.iws = clients]
  BY DEF StartDevtools
<1> HIDE DEF h1, num
<1>4. page \in PageRec /\ page.iws = c /\ page.sender = c
  <2>1. h1.ipage[p] \in PageRec
    BY <1>2 DEF HeapType
  <2> QED
    BY <2>1 DEF PageRec
<1> HIDE DEF page
<1>5. pages \in [PageRef -> PageRec]
  BY <1>2, <1>4 DEF HeapType
<1>6. ASSUME NEW x \in Client
      PROVE  /\ clients[x] \in ClientRec
             /\ clients[x].iport = h.iws[x].iport
             /\ clients[x].ipage = IF x = c THEN p ELSE h1.iws[x].ipage
  <2>1. h1.iws[x] \in ClientRec /\ h1.iws[x].iport = h.iws[x].iport
    BY <1>2 DEF HeapType
  <2>2. num(x) \in {0} \cup PageNum
    BY <2>1 DEF num, PageRef, ClientRec
  <2> QED
    BY <2>1, <2>2 DEF ClientRec
<1>7. clients \in [Client -> ClientRec]
  BY <1>6
<1> HIDE DEF clients, pages, g
<1>8. /\ g \in HeapType
      /\ g.iport = h.iport /\ g.iwi = h.iwi /\ g.ipage = pages /\ g.iws = clients
  BY <1>2, <1>3, <1>5, <1>7 DEF HeapType
<1>9. g.ipage[p] = page /\ \A q \in PageRef \ {p} : g.ipage[q] = h1.ipage[q]
  BY <1>2, <1>8 DEF HeapType, pages
<1>10. Own(g, Client)
  <2> SUFFICES ASSUME NEW x \in Client, NEW q \in PageRef, g.iws[x].ipage = q
               PROVE  /\ g.ipage[q].iws = x /\ g.ipage[q].sender = x
                      /\ g.iws[x].iport = q[1]
                      /\ q[2] <= g.iwi[q[1]].max
    BY DEF Own
  <2>1. CASE x = c
    BY <1>4, <1>6, <1>8, <1>9, <2>1
  <2>2. CASE x # c
    <3>1. h1.iws[x].ipage = q /\ q # p
      BY <1>2, <1>6, <1>8, <2>2
    <3> QED
      BY <1>2, <1>6, <1>8, <1>9, <3>1 DEF Own
  <2> QED
    BY <2>1, <2>2
<1> QED
  BY <1>6, <1>8, <1>10, SamePortsGood DEF g

(* Clients of which no page is freed still own theirs. *)
LEMMA FreePagesOwn ==
  ASSUME NEW h \in HeapType, NEW P \in SUBSET PageRef, NEW C \in SUBSET Client,
         Own(h, C), \A c \in C : h.iws[c].ipage \notin P
  PROVE  Own(FreePages(h, P), C)
  BY FreePagesType DEF Own

(* Updating an open inspector keeps a heap good if it takes back no page number. *)
LEMMA UpdateInspectorGood ==
  ASSUME NEW h, Good(h), NEW d \in Device, NEW r \in InspectorRec,
         h.iwi[d].open, r.open, r.max >= h.iwi[d].max
  PROVE  Good([h EXCEPT !.iwi = [h.iwi EXCEPT ![d] = r]])
<1> DEFINE g == [h EXCEPT !.iwi = [h.iwi EXCEPT ![d] = r]]
<1>1. h \in HeapType
  BY DEF Good
<1>2. [h.iwi EXCEPT ![d] = r] \in [Device -> InspectorRec]
  BY <1>1 DEF HeapType
<1>3. /\ g \in HeapType
      /\ g.iport = h.iport /\ g.ipage = h.ipage /\ g.iws = h.iws
      /\ g.iwi = [h.iwi EXCEPT ![d] = r]
  BY <1>1, <1>2 DEF HeapType
<1> HIDE DEF g
<1>4. g.iwi[d] = r /\ \A e \in Device \ {d} : g.iwi[e] = h.iwi[e]
  BY <1>1, <1>3 DEF HeapType
<1>5. Own(g, Client)
  <2> SUFFICES ASSUME NEW c \in Client, NEW p \in PageRef, g.iws[c].ipage = p
               PROVE  /\ g.ipage[p].iws = c /\ g.ipage[p].sender = c
                      /\ g.iws[c].iport = p[1]
                      /\ p[2] <= g.iwi[p[1]].max
    BY DEF Own
  <2>1. /\ h.ipage[p].iws = c /\ h.ipage[p].sender = c
        /\ h.iws[c].iport = p[1]
        /\ p[2] <= h.iwi[p[1]].max
    BY <1>3 DEF Good, Own
  <2>2. p[1] \in Device /\ p[2] \in Nat
    BY DEF PageRef, PageNum
  <2>3. h.iwi[p[1]].max \in Nat /\ g.iwi[p[1]].max \in Nat
    BY <1>1, <1>3, <2>2, IwdpAssumption DEF HeapType, InspectorRec
  <2>4. h.iwi[p[1]].max <= g.iwi[p[1]].max
    BY <1>4, <2>2, <2>3
  <2> QED
    BY <1>3, <2>1, <2>2, <2>3, <2>4
<1>6. \A e \in Device : /\ g.iwi[e].open <=> h.iwi[e].open
                        /\ g.iwi[e].open \/ g.iwi[e] = h.iwi[e]
  BY <1>4
<1> QED
  BY <1>3, <1>5, <1>6, SamePortsGood DEF g

(* iwdp_add_app_id and rpc_set_app write the applications of an open inspector. *)
LEMMA AppsGood ==
  ASSUME NEW h, Good(h), NEW d \in Device, h.iwi[d].open, NEW apps \in SUBSET App
  PROVE  /\ Good(AddApps(h, d, apps)) /\ AddApps(h, d, apps).iwi[d].open
         /\ \A a \in App : Good(SetApp(h, d, a)) /\ SetApp(h, d, a).iwi[d].open
<1>1. h \in HeapType /\ h.iwi[d] \in InspectorRec
  BY DEF Good, HeapType
<1>2. Good(AddApps(h, d, apps)) /\ AddApps(h, d, apps).iwi[d].open
  <2> DEFINE r == [h.iwi[d] EXCEPT !.apps = @ \cup apps]
  <2>1. r \in InspectorRec /\ r.open /\ r.max = h.iwi[d].max /\ r.max \in Nat
    <3>1. h.iwi[d].apps \cup apps \in SUBSET App /\ h.iwi[d].max \in Nat
      BY <1>1, IwdpAssumption DEF InspectorRec
    <3> QED
      BY <1>1, <3>1 DEF InspectorRec
  <2>2. AddApps(h, d, apps) = [h EXCEPT !.iwi = [h.iwi EXCEPT ![d] = r]]
    BY DEF AddApps
  <2> HIDE DEF r
  <2>3. [h EXCEPT !.iwi = [h.iwi EXCEPT ![d] = r]].iwi[d] = r
    BY <1>1 DEF HeapType
  <2> QED
    BY <2>1, <2>2, <2>3, UpdateInspectorGood
<1>3. ASSUME NEW a \in App PROVE Good(SetApp(h, d, a)) /\ SetApp(h, d, a).iwi[d].open
  <2> DEFINE r == [h.iwi[d] EXCEPT !.app = a]
  <2>1. r \in InspectorRec /\ r.open /\ r.max = h.iwi[d].max /\ r.max \in Nat
    BY <1>1, IwdpAssumption DEF InspectorRec
  <2>2. SetApp(h, d, a) = [h EXCEPT !.iwi = [h.iwi EXCEPT ![d] = r]]
    BY DEF SetApp
  <2> HIDE DEF r
  <2>3. [h EXCEPT !.iwi = [h.iwi EXCEPT ![d] = r]].iwi[d] = r
    BY <1>1 DEF HeapType
  <2> QED
    BY <2>1, <2>2, <2>3, UpdateInspectorGood
<1> QED
  BY <1>2, <1>3

(* Stopping the sessions of pages and freeing these keeps a heap good. *)
LEMMA StopAndFreeGood ==
  ASSUME NEW h, Good(h), NEW P \in SUBSET PageRef
  PROVE  LET g == FreePages(StopDevtools(h, P), P)
         IN  Good(g) /\ g.iwi = h.iwi
<1> DEFINE h1 == StopDevtools(h, P)
           g == FreePages(h1, P)
<1>1. /\ h1 \in HeapType
      /\ h1.iport = h.iport /\ h1.iwi = h.iwi
      /\ \A c \in Client : h1.iws[c].iport = h.iws[c].iport
  BY StopDevtoolsType DEF Good
<1>2. Own(h1, Client) /\ \A c \in Client : h1.iws[c].ipage \notin P
  BY StopDevtoolsOwn DEF Good
<1> HIDE DEF h1
<1>3. /\ g \in HeapType
      /\ g.iport = h.iport /\ g.iwi = h.iwi
      /\ \A c \in Client : g.iws[c].iport = h.iws[c].iport
  BY <1>1, FreePagesType
<1>4. Own(g, Client)
  BY <1>1, <1>2, FreePagesOwn
<1> HIDE DEF g
<1>5. Good(g)
  BY <1>3, <1>4, SamePortsGood
<1> QED
  BY <1>3, <1>5 DEF g, h1

(* iwdp_remove_app_id: the pages of the applications go, with their sessions. *)
LEMMA RemoveAppsGood ==
  ASSUME NEW h, Good(h), NEW d \in Device, h.iwi[d].open, NEW apps \in SUBSET App
  PROVE  Good(RemoveApps(h, d, apps)) /\ RemoveApps(h, d, apps).iwi[d].open
<1> DEFINE P == {p \in PagesOf(d) : h.ipage[p].app \in apps \cap h.iwi[d].apps}
           h1 == FreePages(StopDevtools(h, P), P)
           r == [h1.iwi[d] EXCEPT !.apps = @ \ apps]
           g == [h1 EXCEPT !.iwi = [h1.iwi EXCEPT ![d] = r]]
<1>1. P \in SUBSET PageRef
  BY DEF PagesOf
<1>2. RemoveApps(h, d, apps) = g
  BY DEF RemoveApps
<1> HIDE DEF P
<1>3. Good(h1) /\ h1.iwi = h.iwi
  BY <1>1, StopAndFreeGood
<1> HIDE DEF h1
<1>4. h1 \in HeapType /\ h1.iwi[d] \in InspectorRec /\ h1.iwi[d].open
  BY <1>3 DEF Good, HeapType
<1>5. r \in InspectorRec /\ r.open /\ r.max = h1.iwi[d].max /\ r.max \in Nat
  BY <1>4, IwdpAssumption DEF InspectorRec
<1> HIDE DEF r
<1>6. g.iwi[d] = r
  BY <1>4 DEF HeapType
<1> QED
  BY <1>2, <1>3, <1>4, <1>5, <1>6, UpdateInspectorGood

(* A listing of an application: the new pages get numbers that no client has. *)
LEMMA MergeListingGood ==
  ASSUME NEW h, Good(h), NEW d \in Device, h.iwi[d].open, NEW a \in App,
         NEW ids \in SUBSET PageId, NEW listing \in [ids -> BOOLEAN], NEW num,
         LET new == NewPages(h, d, a, listing)
             max == h.iwi[d].max
         IN  /\ max + Cardinality(new) <= MaxPage
             /\ num \in Bijection(new, (max + 1)..(max + Cardinality(new)))
  PROVE  Good(MergeListing(h, d, a, listing, num))
<1> DEFINE new == NewPages(h, d, a, listing)
           max == h.iwi[d].max
           kept == {p \in AppPages(h, d, a) : h.ipage[p].id \in DOMAIN listing}
           idOf(n) == CHOOSE i \in DOMAIN num : num[i] = n
           given(p) == p[1] = d /\ \E i \in DOMAIN num : num[i] = p[2]
           claimed == Claimed(h, kept, listing)
           losers == {h.ipage[p].iws : p \in claimed} \ {None}
           left(p) == IF h.ipage[p].iws \in losers
                      THEN LeftOpen(h.ipage[p], h.ipage[p].iws,
                                    IF p \in claimed THEN Gone ELSE Lost)
                      ELSE h.ipage[p]
           page(p) ==
             IF p \in kept THEN [left(p) EXCEPT !.remote = listing[h.ipage[p].id]]
             ELSE IF given(p)
             THEN [NoPage EXCEPT !.app = a, !.id = idOf(p[2]), !.remote = listing[idOf(p[2])]]
             ELSE left(p)
           pages == [p \in PageRef |-> page(p)]
           clients == [c \in Client |->
                         IF c \in losers
                         THEN [h.iws[c] EXCEPT !.ipage = None] ELSE h.iws[c]]
           r == CountPages(h.iwi[d], num)
           h1 == [h EXCEPT !.iwi[d] = CountPages(@, num), !.ipage = pages, !.iws = clients]
<1>1. h \in HeapType /\ h.iwi[d] \in InspectorRec /\ max \in Nat
  BY IwdpAssumption DEF Good, HeapType, InspectorRec
<1>2. new \in SUBSET ids /\ Cardinality(new) \in Nat
  <2>1. new \in SUBSET ids
    BY DEF NewPages
  <2>2. IsFiniteSet(new)
    BY <2>1, FS_Subset, IwdpAssumption
  <2> QED
    BY <2>1, <2>2, FS_CardinalityType
<1>3. DOMAIN num = new /\ \A i \in new : num[i] \in Nat /\ num[i] > max
  <2>1. num \in [new -> (max + 1)..(max + Cardinality(new))]
    BY DEF Bijection, Injection
  <2> QED
    BY <1>1, <1>2, <2>1
<1>4. r \in InspectorRec /\ r.open /\ r.max \in Nat /\ r.max >= max
  <2>1. max + Cardinality(new) \in 0..MaxPage
    BY <1>1, <1>2, IwdpAssumption
  <2>2. r = [h.iwi[d] EXCEPT !.max = max + Cardinality(new)]
    BY <1>3 DEF CountPages
  <2> HIDE DEF r, new
  <2> QED
    BY <1>1, <1>2, <2>1, <2>2 DEF InspectorRec
<1>5. ASSUME NEW p \in PageRef
      PROVE  /\ pages[p] \in PageRec
             /\ ~given(p) => /\ pages[p].iws = h.ipage[p].iws
                             /\ pages[p].sender = h.ipage[p].sender
  <2>1. /\ left(p) \in PageRec
        /\ left(p).iws = h.ipage[p].iws /\ left(p).sender = h.ipage[p].sender
    <3>1. h.ipage[p] \in PageRec
      BY <1>1 DEF HeapType
    <3>2. (IF p \in claimed THEN Gone ELSE Lost) \in {Gone, Lost}
      OBVIOUS
    <3> QED
      BY <3>1, <3>2, LeftOpenType
  <2>2. CASE p \in kept
    <3>1. listing[h.ipage[p].id] \in BOOLEAN
      BY <2>2
    <3>2. pages[p] = [left(p) EXCEPT !.remote = listing[h.ipage[p].id]]
      BY <2>2
    <3> HIDE DEF pages, left
    <3> QED
      BY <2>1, <3>1, <3>2 DEF PageRec
  <2>3. CASE p \notin kept /\ given(p)
    <3> DEFINE i == idOf(p[2])
    <3>1. i \in ids /\ ids \subseteq PageId
      BY <1>2, <1>3, <2>3
    <3> HIDE DEF i
    <3>2. listing[i] \in BOOLEAN
      BY <3>1
    <3>3. pages[p] = [NoPage EXCEPT !.app = a, !.id = i, !.remote = listing[i]]
      BY <2>3 DEF i
    <3>4. NoPage \in PageRec
      BY DEF NoPage, PageRec
    <3> HIDE DEF pages
    <3> QED
      BY <2>3, <3>1, <3>2, <3>3, <3>4 DEF PageRec
  <2>4. CASE p \notin kept /\ ~given(p)
    <3>1. pages[p] = left(p)
      BY <2>4
    <3> HIDE DEF pages, left
    <3> QED
      BY <2>1, <3>1
  <2> QED
    BY <2>2, <2>3, <2>4
<1>6. ASSUME NEW c \in Client
      PROVE  /\ clients[c] \in ClientRec
             /\ clients[c].iport = h.iws[c].iport
             /\ clients[c].ipage \in {h.iws[c].ipage, None}
  <2>1. h.iws[c] \in ClientRec
    BY <1>1 DEF HeapType
  <2> QED
    BY <2>1 DEF ClientRec
<1>7. pages \in [PageRef -> PageRec] /\ clients \in [Client -> ClientRec]
  BY <1>5, <1>6
<1>8. h1 = [h EXCEPT !.iwi = [h.iwi EXCEPT ![d] = r], !.ipage = pages, !.iws = clients]
  OBVIOUS
<1>9. MergeListing(h, d, a, listing, num) = h1
  BY DEF MergeListing
<1> HIDE DEF pages, clients, r, h1, kept
<1>10. /\ h1 \in HeapType
       /\ h1.iport = h.iport /\ h1.ipage = pages /\ h1.iws = clients
       /\ h1.iwi = [h.iwi EXCEPT ![d] = r]
  <2>1. [h.iwi EXCEPT ![d] = r] \in [Device -> InspectorRec]
    BY <1>1, <1>4 DEF HeapType
  <2> QED
    BY <1>1, <1>7, <1>8, <2>1 DEF HeapType
<1>11. h1.iwi[d] = r /\ \A e \in Device \ {d} : h1.iwi[e] = h.iwi[e]
  BY <1>1, <1>10 DEF HeapType
<1>12. Own(h1, Client)
  <2> SUFFICES ASSUME NEW c \in Client, NEW p \in PageRef, h1.iws[c].ipage = p
               PROVE  /\ h1.ipage[p].iws = c /\ h1.ipage[p].sender = c
                      /\ h1.iws[c].iport = p[1]
                      /\ p[2] <= h1.iwi[p[1]].max
    BY DEF Own
  <2>1. h.iws[c].ipage = p
    BY <1>6, <1>10, NoneIsNoPage
  <2>2. /\ h.ipage[p].iws = c /\ h.ipage[p].sender = c
        /\ h.iws[c].iport = p[1]
        /\ p[2] <= h.iwi[p[1]].max
    BY <2>1 DEF Good, Own
  <2>3. p[1] \in Device /\ p[2] \in Nat
    BY DEF PageRef, PageNum
  <2>4. ~given(p)
    BY <1>1, <1>3, <2>2, <2>3
  <2>5. p[2] <= h1.iwi[p[1]].max
    BY <1>1, <1>4, <1>11, <2>2, <2>3
  <2> QED
    BY <1>5, <1>6, <1>10, <2>2, <2>4, <2>5
<1>13. Good(h1)
  <2>1. \A e \in Device : /\ h1.iwi[e].open <=> h.iwi[e].open
                          /\ h1.iwi[e].open \/ h1.iwi[e] = h.iwi[e]
    BY <1>4, <1>11
  <2>2. \A c \in Client : h1.iws[c].iport = h.iws[c].iport
    BY <1>6, <1>10
  <2> QED
    BY <1>10, <1>12, <2>1, <2>2, SamePortsGood
<1> QED
  BY <1>9, <1>13

LEMMA TakeListingGood ==
  ASSUME NEW h, Good(h), NEW d \in Device, h.iwi[d].open, NEW a \in App,
         NEW ids \in SUBSET PageId, NEW listing \in [ids -> BOOLEAN], NEW num,
         LET new == NewPages(h, d, a, listing)
             max == h.iwi[d].max
         IN  /\ max + Cardinality(new) <= MaxPage
             /\ num \in Bijection(new, (max + 1)..(max + Cardinality(new)))
  PROVE  Good(TakeListing(h, d, a, listing, num))
<1> DEFINE gone == {p \in AppPages(h, d, a) : h.ipage[p].id \notin DOMAIN listing}
           h1 == MergeListing(h, d, a, listing, num)
<1>1. Good(h1)
  BY MergeListingGood
<1>2. gone \in SUBSET PageRef
  BY DEF AppPages, PagesOf
<1>3. TakeListing(h, d, a, listing, num) = FreePages(StopDevtools(h1, gone), gone)
  BY DEF TakeListing
<1> HIDE DEF h1, gone
<1> QED
  BY <1>1, <1>2, <1>3, StopAndFreeGood

-----------------------------------------------------------------------------
(* The inductive invariant, and its proof action by action. *)

Inv ==
  /\ listener \in {"off", "up", "down"}
  /\ entries \in Configs
  /\ taken \subseteq Port
  /\ Good(Heap)

(* The heap is the record of the variables. *)
LEMMA HeapRecord ==
  /\ Heap.iport = iport /\ Heap.iwi = iwi /\ Heap.ipage = ipage
  /\ Heap.iws = iws /\ Heap.ifs = ifs
  BY DEF Heap

(* A callback that makes the heap a good one makes the variables good. *)
LEMMA BecomeGood ==
  ASSUME NEW h, Good(h), Become(h)
  PROVE  Good(Heap)'
<1>1. Heap' = h
  BY DEF Good, HeapType, Heap, Become
<1> QED
  BY <1>1 DEF Good, HeapType, Own, Zeroed, Paired, Served, Live, Distinct

(* The proxy starts with an empty heap, which is good. *)
LEMMA InitGood == Init => Inv
<1> SUFFICES ASSUME Init PROVE Inv
  OBVIOUS
<1>1. Heap \in HeapType
  <2>1. iport \in [Id -> PortRec]
    BY DEF Init, NoPort, PortRec
  <2>2. iwi \in [Device -> InspectorRec]
    BY IwdpAssumption DEF Init, NoInspector, InspectorRec
  <2>3. ipage \in [PageRef -> PageRec]
    BY DEF Init, NoPage, PageRec
  <2>4. iws \in [Client -> ClientRec]
    BY DEF Init, NoClient, ClientRec
  <2>5. ifs \in [Fetch -> FetchRec]
    BY DEF Init, NoFetch, FetchRec
  <2> QED
    BY <2>1, <2>2, <2>3, <2>4, <2>5 DEF Heap, HeapType
<1>2. Own(Heap, Client)
  BY HeapRecord, NoneIsNoPage DEF Init, Own, NoClient
<1>3. Zeroed(Heap)
  BY HeapRecord DEF Init, Zeroed
<1>4. Paired(Heap, Device)
  BY HeapRecord DEF Init, Paired, NoPort, NoInspector, Id
<1>5. Served(Heap)
  BY HeapRecord DEF Init, Served, Live, NoClient
<1>6. Distinct(Heap)
  BY HeapRecord DEF Init, Distinct, NoPort
<1> QED
  BY <1>1, <1>2, <1>3, <1>4, <1>5, <1>6 DEF Good, Inv, Init

(* What comes from usbmuxd and from the listening sockets keeps the invariant. *)
LEMMA DeviceNextGood ==
  ASSUME Inv, DeviceNext
  PROVE  Inv'
<1>1. Good(Heap)
  BY DEF Inv
<1>2. CASE Start
  <2> DEFINE l == Listen(Heap, DeviceList)
  <2>1. Good(l.heap)
    <3>1. /\ l.err => Good(l.heap)
          /\ ~l.err => Closable(l.heap, DeviceList) /\ Own(l.heap, Client)
      BY <1>1, ListenGood DEF Id
    <3>2. Device \ {DeviceList} = Device
      BY IwdpAssumption
    <3> HIDE DEF l
    <3> QED
      BY <3>1, <3>2 DEF Closable, Good
  <2> HIDE DEF l
  <2>2. PICK connects \in BOOLEAN, sends \in BOOLEAN :
          Become(Attach(l.heap, Simulator, connects, sends))
    BY <1>2 DEF Start, l
  <2>3. Good(Attach(l.heap, Simulator, connects, sends))
    BY <2>1, AttachGood, IwdpAssumption
  <2>4. Good(Heap)'
    BY <2>2, <2>3, BecomeGood
  <2> QED
    BY <1>2, <2>4 DEF Inv, Start
<1>3. ASSUME NEW d \in Device, DeviceAttached(d) PROVE Inv'
  <2>1. PICK connects \in BOOLEAN, sends \in BOOLEAN :
          Become(Attach(Heap, d, connects, sends))
    BY <1>3 DEF DeviceAttached
  <2>2. Good(Attach(Heap, d, connects, sends))
    BY <1>1, AttachGood
  <2>3. Good(Heap)'
    BY <2>1, <2>2, BecomeGood
  <2> QED
    BY <1>3, <2>3 DEF Inv, DeviceAttached, envVars
<1>4. ASSUME NEW i \in Id PROVE Good(ClosePort(Heap, i))
  BY <1>1, GoodIsClosable, ClosePortGood
<1>5. ASSUME NEW d \in Device, DeviceDetached(d) PROVE Inv'
  <2>1. Good(Heap)'
    BY <1>4, <1>5, BecomeGood DEF DeviceDetached, Id
  <2> QED
    BY <1>5, <2>1 DEF Inv, DeviceDetached, envVars
<1>6. ASSUME NEW i \in Id, PortFails(i) PROVE Inv'
  <2>1. Good(Heap)'
    BY <1>4, <1>6, BecomeGood DEF PortFails
  <2> QED
    BY <1>6, <2>1 DEF Inv, PortFails, envVars
<1>7. CASE ListenerCloses
  <2>1. Heap' = Heap
    BY <1>7 DEF ListenerCloses, heapVars, Heap
  <2>2. Good(Heap)'
    BY <1>1, <2>1 DEF Good, Own, Zeroed, Paired, Served, Live, Distinct
  <2> QED
    BY <1>7, <2>2 DEF Inv, ListenerCloses
<1> QED
  BY <1>2, <1>3, <1>5, <1>6, <1>7 DEF DeviceNext

(* Writing fields of a client other than its port and page. *)
LEMMA ClientFieldGood ==
  ASSUME NEW h, Good(h), NEW c \in Client, NEW r \in ClientRec,
         r.iport = h.iws[c].iport, r.ipage = h.iws[c].ipage,
         NEW fetches \in [Fetch -> FetchRec]
  PROVE  /\ Good([h EXCEPT !.iws = [h.iws EXCEPT ![c] = r]])
         /\ Good([h EXCEPT !.ifs = fetches, !.iws = [h.iws EXCEPT ![c] = r]])
<1> DEFINE clients == [h.iws EXCEPT ![c] = r]
<1>1. h \in HeapType
  BY DEF Good
<1>2. /\ clients \in [Client -> ClientRec]
      /\ \A x \in Client : clients[x].iport = h.iws[x].iport /\ clients[x].ipage = h.iws[x].ipage
  BY <1>1 DEF HeapType
<1> HIDE DEF clients
<1>3. ASSUME NEW g, g = [h EXCEPT !.iws = clients] \/ g = [h EXCEPT !.ifs = fetches, !.iws = clients]
      PROVE  Good(g)
  <2>1. /\ g \in HeapType
        /\ g.iport = h.iport /\ g.iwi = h.iwi /\ g.ipage = h.ipage /\ g.iws = clients
    BY <1>1, <1>2, <1>3 DEF HeapType
  <2> QED
    BY <1>2, <2>1, SameSessionsGood
<1> QED
  BY <1>3 DEF clients

(* What comes from browser clients keeps the invariant. *)
LEMMA ClientNextGood ==
  ASSUME Inv, ClientNext
  PROVE  Inv'
<1>1. Good(Heap) /\ Heap \in HeapType
  BY DEF Inv, Good
<1>2. ASSUME NEW K \in SUBSET Client PROVE Good(CloseClients(Heap, K))
  BY <1>1, CloseClientsKeepsGood
<1>3. ASSUME NEW c \in Client PROVE iws[c] \in ClientRec
  BY <1>1, HeapRecord DEF HeapType
<1>4. ASSUME NEW c \in Client, NEW i \in Id, Accept(i, c) PROVE Inv'
  <2> DEFINE g == Heap'
             r == [NoClient EXCEPT !.iport = i]
  <2>1. /\ iport' = iport /\ iwi' = iwi /\ ipage' = ipage /\ ifs' = ifs
        /\ iws' = [iws EXCEPT ![c] = r]
        /\ iport[i].open
    BY <1>4 DEF Accept
  <2>2. r \in ClientRec /\ r.iport = i /\ r.ipage = None
    <3>1. NoClient \in ClientRec /\ NoClient.ipage = None
      BY DEF NoClient, ClientRec
    <3> QED
      BY <3>1 DEF ClientRec
  <2> HIDE DEF r
  <2>3. /\ g \in HeapType
        /\ g.iport = iport /\ g.iwi = iwi /\ g.ipage = ipage
        /\ g.iws = [iws EXCEPT ![c] = r]
    BY <1>1, <2>1, <2>2 DEF Heap, HeapType
  <2> HIDE DEF g
  <2>4. g.iws[c] = r /\ \A x \in Client \ {c} : g.iws[x] = iws[x]
    BY <1>1, <2>3, HeapRecord DEF HeapType
  <2>5. Own(g, Client)
    BY <1>1, <2>2, <2>3, <2>4, HeapRecord, NoneIsNoPage DEF Good, Own
  <2>6. Zeroed(g) /\ Paired(g, Device) /\ Distinct(g)
    BY <1>1, <2>3, HeapRecord DEF Good, Zeroed, Paired, Distinct
  <2>7. Served(g)
    BY <1>1, <2>1, <2>2, <2>3, <2>4, HeapRecord DEF Good, Served, Live
  <2>8. Good(g)
    BY <2>3, <2>5, <2>6, <2>7 DEF Good
  <2>9. Good(Heap)'
    BY <2>8 DEF g, Good, Own, Zeroed, Paired, Served, Live, Distinct
  <2> QED
    BY <1>4, <2>9 DEF Inv, Accept, envVars
<1>5. ASSUME NEW c \in Client, ClientCloses(c) PROVE Inv'
  <2>1. Good(Heap)'
    BY <1>2, <1>5, BecomeGood DEF ClientCloses
  <2> QED
    BY <1>5, <2>1 DEF Inv, ClientCloses, envVars
<1>6. ASSUME NEW c \in Client, NEW n \in {0} \cup PageNum, DevtoolsRequest(c, n) PROVE Inv'
  <2> DEFINE p == <<iws[c].iport, n>>
             found == p \in PageRef /\ iwi[p[1]].open /\ n <= iwi[p[1]].max /\ ipage[p] # NoPage
             h == IF found THEN StartDevtools(Heap, p, c) ELSE Heap
             phase == IF found THEN "devtools" ELSE "ws"
             r == [h.iws[c] EXCEPT !.phase = phase]
             g == [h EXCEPT !.iws[c].phase = phase]
  <2>1. Good(h)
    <3>1. CASE found
      <4>1. p \in PageRef /\ Heap.iws[c].iport = p[1] /\ p[2] <= Heap.iwi[p[1]].max
        BY <3>1, HeapRecord
      <4> QED
        BY <1>1, <3>1, <4>1, StartDevtoolsGood
    <3>2. CASE ~found
      BY <1>1, <3>2
    <3> QED
      BY <3>1, <3>2
  <2>2. PICK sends \in BOOLEAN : Become(IF sends THEN g ELSE CloseClients(h, {c}))
    BY <1>6 DEF DevtoolsRequest
  <2>3. g = [h EXCEPT !.iws = [h.iws EXCEPT ![c] = r]]
    OBVIOUS
  <2> HIDE DEF h, found, g
  <2>4. r \in ClientRec /\ r.iport = h.iws[c].iport /\ r.ipage = h.iws[c].ipage
    <3>1. h.iws[c] \in ClientRec
      BY <2>1 DEF Good, HeapType
    <3> QED
      BY <3>1 DEF ClientRec
  <2> HIDE DEF r
  <2>5. Good(g)
    <3>1. ifs \in [Fetch -> FetchRec]
      BY <1>1, HeapRecord DEF HeapType
    <3> QED
      BY <2>1, <2>3, <2>4, <3>1, ClientFieldGood
  <2>6. Good(CloseClients(h, {c}))
    BY <2>1, CloseClientsKeepsGood
  <2>7. Good(Heap)'
    BY <2>2, <2>5, <2>6, BecomeGood
  <2> QED
    BY <1>6, <2>7 DEF Inv, DevtoolsRequest, envVars
<1>7. ASSUME NEW c \in Client, NEW f \in Fetch, StaticRequest(c, f) PROVE Inv'
  <2> DEFINE fetches == [ifs EXCEPT ![f] = [open |-> TRUE, iws |-> c]]
             r == [iws[c] EXCEPT !.ifs = f]
             h == [Heap EXCEPT !.ifs[f] = [open |-> TRUE, iws |-> c], !.iws[c].ifs = f]
  <2>1. PICK sends \in BOOLEAN : Become(IF sends THEN h ELSE CloseClients(h, {c}))
    BY <1>7 DEF StaticRequest
  <2>2. h = [Heap EXCEPT !.ifs = fetches, !.iws = [Heap.iws EXCEPT ![c] = r]]
    BY DEF Heap
  <2>3. r \in ClientRec /\ r.iport = Heap.iws[c].iport /\ r.ipage = Heap.iws[c].ipage
    BY <1>3, HeapRecord DEF ClientRec
  <2>4. fetches \in [Fetch -> FetchRec]
    BY <1>1, HeapRecord DEF HeapType, FetchRec
  <2> HIDE DEF r, fetches, h
  <2>5. Good(h)
    BY <1>1, <2>2, <2>3, <2>4, ClientFieldGood
  <2>6. Good(CloseClients(h, {c}))
    BY <2>5, CloseClientsKeepsGood
  <2>7. Good(Heap)'
    BY <2>1, <2>5, <2>6, BecomeGood
  <2> QED
    BY <1>7, <2>7 DEF Inv, StaticRequest, envVars
<1>8. ASSUME NEW c \in Client, NEW masked \in BOOLEAN, Frame(c, masked) PROVE Inv'
  <2> DEFINE d == iws[c].iport
             refused == ~masked \/ d = DeviceList \/ ~iwi[d].open \/ iws[c].ipage = None
             r == [iws[c] EXCEPT !.sentClose = TRUE]
             close == [Heap EXCEPT !.iws[c].sentClose = TRUE]
  <2>1. PICK sends \in BOOLEAN :
          Become(CASE ~sends \/ (refused /\ iws[c].sentClose) -> CloseClients(Heap, {c})
                   [] sends /\ refused /\ ~iws[c].sentClose -> close
                   [] OTHER -> Heap)
    BY <1>8 DEF Frame
  <2>2. close = [Heap EXCEPT !.iws = [Heap.iws EXCEPT ![c] = r]]
    BY DEF Heap
  <2>3. r \in ClientRec /\ r.iport = Heap.iws[c].iport /\ r.ipage = Heap.iws[c].ipage
    BY <1>3, HeapRecord DEF ClientRec
  <2> HIDE DEF r, close, refused
  <2>4. Good(close)
    <3>1. ifs \in [Fetch -> FetchRec]
      BY <1>1, HeapRecord DEF HeapType
    <3> QED
      BY <1>1, <2>2, <2>3, <3>1, ClientFieldGood
  <2>5. \/ Become(CloseClients(Heap, {c})) \/ Become(close) \/ Become(Heap)
    BY <2>1
  <2>6. Good(Heap)'
    BY <1>1, <1>2, <2>4, <2>5, BecomeGood
  <2> QED
    BY <1>8, <2>6 DEF Inv, Frame, envVars
<1> QED
  BY <1>4, <1>5, <1>6, <1>7, <1>8 DEF ClientNext

(* What comes from inspectors keeps the invariant. *)
LEMMA InspectorNextGood ==
  ASSUME Inv, InspectorNext
  PROVE  Inv'
<1>1. Good(Heap)
  BY DEF Inv
<1>2. ASSUME NEW d \in Device, iwi[d].open PROVE Good(CloseInspector(Heap, d))
  BY <1>1, <1>2, HeapRecord, CloseInspectorGood
<1>3. ASSUME NEW d \in Device, InspectorCloses(d) PROVE Inv'
  <2>1. Good(Heap)'
    BY <1>2, <1>3, BecomeGood DEF InspectorCloses
  <2> QED
    BY <1>3, <2>1 DEF Inv, InspectorCloses, envVars
<1>4. ASSUME NEW d \in Device, NEW apps \in SUBSET App, AppList(d, apps) PROVE Inv'
  <2> DEFINE h1 == RemoveApps(Heap, d, App \ apps)
             h2 == AddApps(h1, d, apps)
  <2>1. iwi[d].open
    BY <1>4 DEF AppList
  <2>2. Good(h1) /\ h1.iwi[d].open
    BY <1>1, <2>1, HeapRecord, RemoveAppsGood
  <2> HIDE DEF h1
  <2>3. Good(h2) /\ h2.iwi[d].open
    BY <2>2, AppsGood
  <2> HIDE DEF h2
  <2>4. PICK last \in apps : Become(SetApp(h2, d, last))
    BY <1>4 DEF AppList, h1, h2
  <2>5. Good(SetApp(h2, d, last))
    BY <2>3, AppsGood
  <2>6. Good(Heap)'
    BY <2>4, <2>5, BecomeGood
  <2> QED
    BY <1>4, <2>6 DEF Inv, AppList, envVars
<1>5. ASSUME NEW d \in Device, NEW a \in App, NEW updated \in BOOLEAN,
             AppConnected(d, a, updated)
      PROVE  Inv'
  <2> DEFINE h1 == IF updated THEN Heap ELSE SetApp(Heap, d, a)
             h2 == AddApps(h1, d, {a})
  <2>1. Heap.iwi[d].open
    BY <1>5, HeapRecord DEF AppConnected
  <2>2. Good(h1) /\ h1.iwi[d].open
    BY <1>1, <2>1, AppsGood
  <2>3. PICK sends \in BOOLEAN :
          Become(IF sends \/ a \in iwi[d].apps THEN h2 ELSE CloseInspector(h2, d))
    BY <1>5 DEF AppConnected
  <2> HIDE DEF h1
  <2>4. Good(h2) /\ h2.iwi[d].open
    BY <2>2, AppsGood
  <2> HIDE DEF h2
  <2>5. Good(CloseInspector(h2, d))
    BY <2>4, CloseInspectorGood
  <2>6. Good(Heap)'
    BY <2>3, <2>4, <2>5, BecomeGood
  <2> QED
    BY <1>5, <2>6 DEF Inv, AppConnected, envVars
<1>6. ASSUME NEW d \in Device, NEW a \in App, AppDisconnected(d, a) PROVE Inv'
  <2>1. Good(RemoveApps(Heap, d, {a}))
    BY <1>1, <1>6, HeapRecord, RemoveAppsGood DEF AppDisconnected
  <2>2. Good(Heap)'
    BY <1>6, <2>1, BecomeGood DEF AppDisconnected
  <2> QED
    BY <1>6, <2>2 DEF Inv, AppDisconnected, envVars
<1>7. ASSUME NEW d \in Device, NEW a \in App, SentListing(d, a) PROVE Inv'
  <2>0. PICK ids \in SUBSET PageId : \E listing \in [ids -> BOOLEAN] :
          LET new == NewPages(Heap, d, a, listing)
              max == iwi[d].max
          IN  /\ max + Cardinality(new) <= MaxPage
              /\ \E num \in Bijection(new, (max + 1)..(max + Cardinality(new))) :
                   Become(TakeListing(Heap, d, a, listing, num))
    BY <1>7 DEF SentListing
  <2>1. PICK listing \in [ids -> BOOLEAN] :
          LET new == NewPages(Heap, d, a, listing)
              max == iwi[d].max
          IN  /\ max + Cardinality(new) <= MaxPage
              /\ \E num \in Bijection(new, (max + 1)..(max + Cardinality(new))) :
                   Become(TakeListing(Heap, d, a, listing, num))
    BY <2>0
  <2> DEFINE new == NewPages(Heap, d, a, listing)
             max == iwi[d].max
  <2>2. PICK num \in Bijection(new, (max + 1)..(max + Cardinality(new))) :
          Become(TakeListing(Heap, d, a, listing, num))
    BY <2>1
  <2>3. Heap.iwi[d].open /\ Heap.iwi[d].max = max
    BY <1>7, HeapRecord DEF SentListing
  <2>4. Good(TakeListing(Heap, d, a, listing, num))
    BY <1>1, <2>1, <2>2, <2>3, TakeListingGood
  <2>5. Good(Heap)'
    BY <2>2, <2>4, BecomeGood
  <2> QED
    BY <1>7, <2>5 DEF Inv, SentListing, envVars
<1>8. ASSUME NEW d \in Device, NEW a \in App, StrayListing(d, a) PROVE Inv'
  <2>1. Good(Heap)'
    BY <1>1, <1>2, <1>8, BecomeGood DEF StrayListing
  <2> QED
    BY <1>8, <2>1 DEF Inv, StrayListing, envVars
<1>9. ASSUME NEW d \in Device, NEW c \in Client, SentData(d, c) PROVE Inv'
  <2>1. Good(Heap)'
    BY <1>1, <1>2, <1>9, BecomeGood DEF SentData, DeliverData
  <2> QED
    BY <1>9, <2>1 DEF Inv, SentData, envVars
<1> QED
  BY <1>3, <1>4, <1>5, <1>6, <1>7, <1>8, <1>9 DEF InspectorNext

(* What comes from the servers of static files keeps the invariant. *)
LEMMA FetchNextGood ==
  ASSUME Inv, FetchNext
  PROVE  Inv'
<1>1. Good(Heap)
  BY DEF Inv
<1>2. ASSUME NEW f \in Fetch, FetchData(f) PROVE Inv'
  <2> DEFINE c == ifs[f].iws
             h == IF Live(Heap, c) THEN CloseClients(Heap, {c}) ELSE Heap
  <2>1. PICK sends \in BOOLEAN :
          Become(IF sends /\ Live(Heap, c) THEN Heap
                 ELSE IF h.ifs[f].open THEN CloseFetch(h, f) ELSE h)
    BY <1>2 DEF FetchData
  <2>2. Good(h)
    <3>1. CASE Live(Heap, c)
      <4>1. {c} \in SUBSET Client
        BY <3>1 DEF Live
      <4> QED
        BY <1>1, <3>1, <4>1, CloseClientsKeepsGood
    <3>2. CASE ~Live(Heap, c)
      BY <1>1, <3>2
    <3> QED
      BY <3>1, <3>2
  <2> HIDE DEF h
  <2>3. Good(CloseFetch(h, f))
    BY <2>2, CloseFetchGood
  <2>4. Good(Heap)'
    BY <1>1, <2>1, <2>2, <2>3, BecomeGood
  <2> QED
    BY <1>2, <2>4 DEF Inv, FetchData, envVars
<1>3. ASSUME NEW f \in Fetch, FetchCloses(f) PROVE Inv'
  <2>1. Good(Heap)'
    BY <1>1, <1>3, CloseFetchGood, BecomeGood DEF FetchCloses
  <2> QED
    BY <1>3, <2>1 DEF Inv, FetchCloses, envVars
<1> QED
  BY <1>2, <1>3 DEF FetchNext

(* The invariant speaks of the heap only. *)
LEMMA SameHeapGood ==
  ASSUME Good(Heap), UNCHANGED heapVars
  PROVE  Good(Heap)'
<1>1. Heap' = Heap
  BY DEF heapVars, Heap
<1> QED
  BY <1>1 DEF Good, Own, Zeroed, Paired, Served, Live, Distinct

(* Other processes and edits of the configuration leave the heap alone. *)
LEMMA EnvNextGood ==
  ASSUME Inv, EnvNext
  PROVE  Inv'
<1>1. UNCHANGED heapVars
  BY DEF EnvNext, TakePort, ReleasePort, Reconfigure
<1>2. Good(Heap)'
  BY <1>1, SameHeapGood DEF Inv
<1>3. /\ listener' \in {"off", "up", "down"}
      /\ entries' \in Configs
      /\ taken' \subseteq Port
  BY DEF Inv, EnvNext, TakePort, ReleasePort, Reconfigure
<1> QED
  BY <1>2, <1>3 DEF Inv

(* The proxy's inductive invariant: it holds in every state, for any number of
   devices, ports, clients, fetches, applications and pages. *)
THEOREM Invariance == Spec => []Inv
<1>1. ASSUME Inv, [Next]_vars PROVE Inv'
  <2>1. CASE UNCHANGED vars
    <3>1. Good(Heap)'
      BY <1>1, <2>1, SameHeapGood DEF vars, Inv
    <3> QED
      BY <1>1, <2>1, <3>1 DEF vars, Inv
  <2> QED
    BY <1>1, <2>1, DeviceNextGood, ClientNextGood, InspectorNextGood, FetchNextGood,
       EnvNextGood DEF Next
<1> QED
  BY <1>1, InitGood, PTL DEF Spec

-----------------------------------------------------------------------------
(* What follows from it. *)

(* Every object has its type: every handler, with all the sockets it closes in
   turn, leaves the structures well formed. *)
THEOREM TypeCorrect == Spec => []TypeOK
<1>1. Inv => TypeOK
  BY HeapRecord DEF Inv, Good, HeapType, TypeOK
<1> QED
  BY <1>1, Invariance, PTL

(* A client that points to a page is the client of that page: what
   iwdp_on_frame relies on when it forwards a frame to the inspector. *)
THEOREM Ownership == Spec => []ClientsOwnTheirPage
<1>1. Inv => ClientsOwnTheirPage
  <2> SUFFICES ASSUME Inv, NEW c \in Client, iws[c].ipage # None
               PROVE  LET p == iws[c].ipage
                      IN  /\ ipage[p].iws = c /\ ipage[p].sender = c
                          /\ p[1] = iws[c].iport
                          /\ p[2] <= iwi[p[1]].max
    BY DEF ClientsOwnTheirPage
  <2>1. iws[c].ipage \in PageRef
    BY HeapRecord DEF Inv, Good, HeapType, ClientRec
  <2> QED
    BY <2>1, HeapRecord DEF Inv, Good, Own
<1> QED
  BY <1>1, Invariance, PTL

(* The browser port of a device is open exactly while its inspector is. *)
THEOREM PortsFollowInspectors == Spec => []PortFollowsInspector
<1>1. Inv => PortFollowsInspector
  BY HeapRecord DEF Inv, Good, Paired, PortFollowsInspector
<1> QED
  BY <1>1, Invariance, PTL

(* No cascade of closes leaves a client without an open port. *)
THEOREM ClientsAreServed == Spec => []ClientsOnOpenPorts
<1>1. Inv => ClientsOnOpenPorts
  BY HeapRecord DEF Inv, Good, Served, ClientsOnOpenPorts
<1> QED
  BY <1>1, Invariance, PTL

(* Known browser ports never share a TCP port. *)
THEOREM PortsAreDistinct == Spec => []PortsDistinct
<1>1. Inv => PortsDistinct
  BY HeapRecord DEF Inv, Good, Distinct, PortsDistinct
<1> QED
  BY <1>1, Invariance, PTL
=============================================================================
