---------------------------- MODULE StreamProofs ----------------------------
(***************************************************************************)
(* WebsocketStream implements Websocket for any requests and frames, of    *)
(* any length, and any division of the client's octets into reads.  The    *)
(* octets that the parser has not consumed, with those on the wire, are    *)
(* always those of the units that have not been handled; a request in      *)
(* headers lacks its first line.                                           *)
(***************************************************************************)
EXTENDS WebsocketStream, WebsocketProofs

Units == Requests \cup Frames

(* The octets that occur in units. *)
Mark ==
  {Octets(u)[i] : u \in Units, i \in Nat} \cup {<<"line", r>> : r \in Resource \cup {"none"}}

-----------------------------------------------------------------------------
(* Four sequences in a row. *)

LEMMA ThreeJoined ==
  ASSUME NEW S, NEW a \in Seq(S), NEW b \in Seq(S), NEW c \in Seq(S)
  PROVE  /\ (a \o b) \o c \in Seq(S)
         /\ Len((a \o b) \o c) = Len(a) + Len(b) + Len(c)
         /\ \A i \in 1..Len(a) : ((a \o b) \o c)[i] = a[i]
         /\ \A i \in 1..Len(b) : ((a \o b) \o c)[Len(a) + i] = b[i]
         /\ \A i \in 1..Len(c) : ((a \o b) \o c)[Len(a) + Len(b) + i] = c[i]
<1> PICK l \in Nat, m \in Nat, n \in Nat : l = Len(a) /\ m = Len(b) /\ n = Len(c)
  BY LenProperties
<1> PICK d : d = a \o b
  OBVIOUS
<1>1. /\ d \in Seq(S) /\ Len(d) = l + m
      /\ \A i \in 1..(l + m) : d[i] = IF i <= l THEN a[i] ELSE b[i - l]
  BY ConcatProperties
<1> PICK e : e = d \o c
  OBVIOUS
<1>2. /\ e \in Seq(S) /\ Len(e) = l + m + n
      /\ \A i \in 1..(l + m + n) : e[i] = IF i <= l + m THEN d[i] ELSE c[i - (l + m)]
  BY <1>1, ConcatProperties
<1>3. ASSUME NEW i \in 1..l PROVE e[i] = a[i]
  <2>1. i \in 1..(l + m + n) /\ i \in 1..(l + m) /\ i <= l + m /\ i <= l
    OBVIOUS
  <2> QED
    BY <1>1, <1>2, <2>1
<1>4. ASSUME NEW i \in 1..m PROVE e[l + i] = b[i]
  <2>1. l + i \in 1..(l + m + n) /\ l + i \in 1..(l + m) /\ l + i <= l + m /\ ~(l + i <= l)
    OBVIOUS
  <2>2. (l + i) - l = i
    OBVIOUS
  <2>3. e[l + i] = d[l + i]
    BY <1>2, <2>1
  <2>4. d[l + i] = b[(l + i) - l]
    BY <1>1, <2>1
  <2> QED
    BY <2>2, <2>3, <2>4
<1>5. ASSUME NEW i \in 1..n PROVE e[l + m + i] = c[i]
  <2>1. l + m + i \in 1..(l + m + n) /\ ~(l + m + i <= l + m)
    OBVIOUS
  <2>2. (l + m + i) - (l + m) = i
    OBVIOUS
  <2>3. e[l + m + i] = c[(l + m + i) - (l + m)]
    BY <1>2, <2>1
  <2> QED
    BY <2>2, <2>3
<1> QED
  BY <1>2, <1>3, <1>4, <1>5

Row(e, a, b, c, d) ==
  /\ e = ((a \o b) \o c) \o d
  /\ Len(e) = Len(a) + Len(b) + Len(c) + Len(d)
  /\ \A i \in 1..Len(a) : e[i] = a[i]
  /\ \A i \in 1..Len(b) : e[Len(a) + i] = b[i]
  /\ \A i \in 1..Len(c) : e[Len(a) + Len(b) + i] = c[i]
  /\ \A i \in 1..Len(d) : e[Len(a) + Len(b) + Len(c) + i] = d[i]

LEMMA FourJoined ==
  ASSUME NEW S, NEW a \in Seq(S), NEW b \in Seq(S), NEW c \in Seq(S), NEW d \in Seq(S)
  PROVE  \E e \in Seq(S) : Row(e, a, b, c, d)
<1> PICK l \in Nat, m \in Nat, n \in Nat, k \in Nat :
           l = Len(a) /\ m = Len(b) /\ n = Len(c) /\ k = Len(d)
  BY LenProperties
<1> PICK f : f = (a \o b) \o c
  OBVIOUS
<1>1. /\ f \in Seq(S) /\ Len(f) = l + m + n
      /\ \A i \in 1..l : f[i] = a[i]
      /\ \A i \in 1..m : f[l + i] = b[i]
      /\ \A i \in 1..n : f[l + m + i] = c[i]
  <2>1. a \in Seq(S) /\ b \in Seq(S) /\ c \in Seq(S)
    OBVIOUS
  <2>2. /\ (a \o b) \o c \in Seq(S)
        /\ Len((a \o b) \o c) = Len(a) + Len(b) + Len(c)
        /\ \A i \in 1..Len(a) : ((a \o b) \o c)[i] = a[i]
        /\ \A i \in 1..Len(b) : ((a \o b) \o c)[Len(a) + i] = b[i]
        /\ \A i \in 1..Len(c) : ((a \o b) \o c)[Len(a) + Len(b) + i] = c[i]
    BY ONLY <2>1, ThreeJoined
  <2>3. l = Len(a) /\ m = Len(b) /\ n = Len(c) /\ f = (a \o b) \o c
    OBVIOUS
  <2> QED
    BY ONLY <2>2, <2>3, Zenon
<1> PICK e : e = f \o d
  OBVIOUS
<1>2. /\ e \in Seq(S) /\ Len(e) = l + m + n + k
      /\ \A i \in 1..(l + m + n + k) : e[i] = IF i <= l + m + n THEN f[i] ELSE d[i - (l + m + n)]
  BY <1>1, ConcatProperties
<1>3. \A i \in 1..(l + m + n) : e[i] = f[i]
  <2>1. \A i \in 1..(l + m + n) : i \in 1..(l + m + n + k) /\ i <= l + m + n
    OBVIOUS
  <2> QED
    BY <1>2, <2>1
<1>4. /\ \A i \in 1..l : i \in 1..(l + m + n)
      /\ \A i \in 1..m : l + i \in 1..(l + m + n)
      /\ \A i \in 1..n : l + m + i \in 1..(l + m + n)
  OBVIOUS
<1>5. ASSUME NEW i \in 1..k PROVE e[l + m + n + i] = d[i]
  <2>1. l + m + n + i \in 1..(l + m + n + k) /\ ~(l + m + n + i <= l + m + n)
    OBVIOUS
  <2>2. (l + m + n + i) - (l + m + n) = i
    OBVIOUS
  <2>3. e[l + m + n + i] = d[(l + m + n + i) - (l + m + n)]
    BY <1>2, <2>1
  <2> QED
    BY <2>2, <2>3
<1>6. /\ \A i \in 1..l : e[i] = a[i]
      /\ \A i \in 1..m : e[l + i] = b[i]
      /\ \A i \in 1..n : e[l + m + i] = c[i]
  BY <1>1, <1>3, <1>4
<1>7. e = ((a \o b) \o c) \o d
  OBVIOUS
<1>8. Len(e) = Len(a) + Len(b) + Len(c) + Len(d)
  BY <1>2
<1>9. /\ \A i \in 1..Len(a) : e[i] = a[i]
      /\ \A i \in 1..Len(b) : e[Len(a) + i] = b[i]
      /\ \A i \in 1..Len(c) : e[Len(a) + Len(b) + i] = c[i]
      /\ \A i \in 1..Len(d) : e[Len(a) + Len(b) + Len(c) + i] = d[i]
  BY <1>5, <1>6
<1> HIDE DEF Row
<1>10. Row(e, a, b, c, d)
  BY <1>7, <1>8, <1>9, Zenon DEF Row
<1> QED
  BY <1>2, <1>10

-----------------------------------------------------------------------------
(* The octets of a frame. *)

ExtOf(f) == IF Len(f.payload) > MaxShort THEN ExtOctets ELSE 0

MaskOf(f) == IF f.mask # "none" THEN MaskOctets ELSE 0

(* Octets that are all the same. *)
Repeat(s, k, a) == Len(s) = k /\ \A i \in 1..k : s[i] = a

LEMMA RepeatOf ==
  ASSUME NEW S, NEW a \in S, NEW k \in Nat, NEW s, s = [i \in 1..k |-> a]
  PROVE  s \in Seq(S) /\ Repeat(s, k, a)
<1>1. s \in Seq(S) /\ Len(s) = k
  BY Repeated
<1> QED
  BY <1>1 DEF Repeat

LEMMA RepeatNone ==
  ASSUME NEW S, NEW a
  PROVE  <<>> \in Seq(S) /\ Repeat(<<>>, 0, a)
<1>1. <<>> \in Seq(S) /\ Len(<<>>) = 0
  BY EmptySeq
<1> QED
  BY <1>1 DEF Repeat

LEMMA Listed ==
  ASSUME NEW S, NEW n \in Nat, NEW s \in [1..n -> S]
  PROVE  s \in Seq(S) /\ Len(s) = n
  OBVIOUS

Pair(s, a, b) == s = <<a, b>> /\ Len(s) = 2 /\ s[1] = a /\ s[2] = b

LEMMA PairOf ==
  ASSUME NEW S, NEW a \in S, NEW b \in S
  PROVE  \E s \in Seq(S) : Pair(s, a, b)
<1> WITNESS <<a, b>> \in Seq(S)
<1> QED
  BY DEF Pair

FrameLike(o, one, two, e, len, m, key, n, load) ==
  /\ Len(o) = 2 + e + m + n
  /\ o[1] = one /\ o[2] = two
  /\ e > 0 => o[3] = len
  /\ m > 0 => o[2 + e + m] = key
  /\ \A i \in 1..n : o[2 + e + m + i] = load[i]

(* Two octets, then one repeated, then another, then a payload. *)
LEMMA FrameParts ==
  ASSUME NEW S, NEW one, NEW two, NEW len, NEW key,
         NEW e \in Nat, NEW m \in Nat, NEW n \in Nat,
         NEW start \in Seq(S), NEW ext \in Seq(S), NEW mask \in Seq(S), NEW load \in Seq(S),
         Pair(start, one, two), Repeat(ext, e, len), Repeat(mask, m, key), Len(load) = n,
         NEW o \in Seq(S), Row(o, start, ext, mask, load)
  PROVE  FrameLike(o, one, two, e, len, m, key, n, load)
<1>3. /\ Len(start) = 2 /\ start[1] = one /\ start[2] = two
      /\ Len(ext) = e /\ \A i \in 1..e : ext[i] = len
      /\ Len(mask) = m /\ \A i \in 1..m : mask[i] = key
  BY DEF Pair, Repeat
<1>4. /\ Len(o) = 2 + e + m + n
      /\ \A i \in 1..2 : o[i] = start[i]
      /\ \A i \in 1..e : o[2 + i] = ext[i]
      /\ \A i \in 1..m : o[2 + e + i] = mask[i]
      /\ \A i \in 1..n : o[2 + e + m + i] = load[i]
  BY <1>3 DEF Row
<1>5. o[1] = one /\ o[2] = two
  <2>1. 1 \in 1..2 /\ 2 \in 1..2
    OBVIOUS
  <2> QED
    BY <1>3, <1>4, <2>1
<1>6. ASSUME e > 0 PROVE o[3] = len
  <2>1. 1 \in 1..e /\ 2 + 1 = 3
    BY <1>6
  <2> QED
    BY <1>3, <1>4, <2>1
<1>7. ASSUME m > 0 PROVE o[2 + e + m] = key
  <2>1. m \in 1..m
    BY <1>7
  <2> QED
    BY <1>3, <1>4, <2>1
<1> QED
  BY <1>4, <1>5, <1>6, <1>7 DEF FrameLike

FrameShaped(o, f) ==
  LET n == Len(f.payload)
      e == ExtOf(f)
      m == MaskOf(f)
  IN  /\ Len(o) = 2 + e + m + n
      /\ o[1] = <<"first", f.op, f.fin>>
      /\ o[2] = <<"second", f.mask # "none", Code(n)>>
      /\ e > 0 => o[3] = <<"length", n>>
      /\ m > 0 => o[2 + e + m] = <<"mask", f.mask>>
      /\ \A i \in 1..n : o[2 + e + m + i] = <<"data", f.payload[i], f.mask>>

LEMMA FrameShape ==
  ASSUME NEW f \in Frames
  PROVE  \E S : FrameOctets(f) \in Seq(S) /\ FrameShaped(FrameOctets(f), f)
<1> PICK n \in Nat : n = Len(f.payload)
  BY FrameTypes, LenProperties
<1> PICK e \in Nat, m \in Nat : e = ExtOf(f) /\ m = MaskOf(f)
  BY StreamAssumption DEF ExtOf, MaskOf
<1> DEFINE one == <<"first", f.op, f.fin>>
           two == <<"second", f.mask # "none", Code(n)>>
           len == <<"length", n>>
           key == <<"mask", f.mask>>
           load == [i \in 1..n |-> <<"data", f.payload[i], f.mask>>]
           S == {<<"data", f.payload[i], f.mask>> : i \in 1..n} \cup {one, two, len, key}
           ext == IF n > MaxShort THEN [i \in 1..ExtOctets |-> len] ELSE <<>>
           mask == IF f.mask # "none" THEN [i \in 1..MaskOctets |-> key] ELSE <<>>
<1>1. load \in [1..n -> S] /\ \A i \in 1..n : load[i] = <<"data", f.payload[i], f.mask>>
  OBVIOUS
<1>2. one \in S /\ two \in S /\ len \in S /\ key \in S
  OBVIOUS
<1>3. FrameOctets(f) = ((<<one, two>> \o ext) \o mask) \o load
  BY DEF FrameOctets
<1> HIDE DEF load, S, one, two, len, key
<1>4. PICK start \in Seq(S) : Pair(start, one, two)
  BY <1>2, PairOf
<1>5. ext \in Seq(S) /\ Repeat(ext, e, len)
  <2>1. CASE n > MaxShort
    <3>1. ext = [i \in 1..ExtOctets |-> len] /\ e = ExtOctets
      BY <2>1 DEF ExtOf
    <3> HIDE DEF ext
    <3> QED
      BY <1>2, <3>1, RepeatOf
  <2>2. CASE ~(n > MaxShort)
    <3>1. ext = <<>> /\ e = 0
      BY <2>2 DEF ExtOf
    <3> HIDE DEF ext
    <3> QED
      BY <3>1, RepeatNone
  <2> QED
    BY <2>1, <2>2
<1>6. mask \in Seq(S) /\ Repeat(mask, m, key)
  <2>1. CASE f.mask # "none"
    <3>1. mask = [i \in 1..MaskOctets |-> key] /\ m = MaskOctets
      BY <2>1 DEF MaskOf
    <3> HIDE DEF mask
    <3> QED
      BY <1>2, <3>1, RepeatOf
  <2>2. CASE f.mask = "none"
    <3>1. mask = <<>> /\ m = 0
      BY <2>2 DEF MaskOf
    <3> HIDE DEF mask
    <3> QED
      BY <3>1, RepeatNone
  <2> QED
    BY <2>1, <2>2
<1>7. load \in Seq(S) /\ Len(load) = n
  BY <1>1, Listed
<1> HIDE DEF ext, mask
<1>8. PICK o \in Seq(S) : Row(o, start, ext, mask, load)
  BY <1>5, <1>6, <1>7, FourJoined
<1>9. o = FrameOctets(f)
  BY <1>3, <1>4, <1>8 DEF Pair, Row
<1>10. FrameShaped(o, f)
  <2>1. FrameLike(o, one, two, e, len, m, key, n, load)
    BY <1>4, <1>5, <1>6, <1>7, <1>8, FrameParts
  <2> QED
    BY <1>1, <2>1 DEF FrameLike, FrameShaped, one, two, len, key
<1> QED
  BY <1>9, <1>10

-----------------------------------------------------------------------------
(* The octets of a request. *)

LEMMA RequestTypes ==
  ASSUME NEW r \in Requests
  PROVE  r.resource \in Resource /\ r.upgrade \in BOOLEAN /\ r.key \in BOOLEAN
  BY WebsocketAssumption DEF Request

RequestLike(o, one, two, up, u, key, k, end) ==
  /\ Len(o) = 3 + u + k
  /\ o[1] = one /\ o[2] = two
  /\ u = 2 => o[3] = up[1] /\ o[4] = up[2]
  /\ k = 2 => o[3 + u] = key[1] /\ o[4 + u] = key[2]
  /\ o[3 + u + k] = end[1]

LEMMA RequestParts ==
  ASSUME NEW S, NEW one, NEW two, NEW start \in Seq(S), Pair(start, one, two),
         NEW up \in Seq(S), NEW key \in Seq(S), NEW end \in Seq(S), Len(end) = 1,
         NEW u \in {0, 2}, Len(up) = u, NEW k \in {0, 2}, Len(key) = k,
         NEW o \in Seq(S), Row(o, start, up, key, end)
  PROVE  RequestLike(o, one, two, up, u, key, k, end)
<1>1. /\ Len(start) = 2 /\ start[1] = one /\ start[2] = two
  BY DEF Pair
<1>2. /\ Len(o) = 2 + u + k + 1
      /\ \A i \in 1..2 : o[i] = start[i]
      /\ \A i \in 1..u : o[2 + i] = up[i]
      /\ \A i \in 1..k : o[2 + u + i] = key[i]
      /\ \A i \in 1..1 : o[2 + u + k + i] = end[i]
  BY <1>1 DEF Row
<1>3. o[1] = one /\ o[2] = two
  <2>1. 1 \in 1..2 /\ 2 \in 1..2
    OBVIOUS
  <2> QED
    BY <1>1, <1>2, <2>1
<1>4. ASSUME u = 2 PROVE o[3] = up[1] /\ o[4] = up[2]
  <2>1. 1 \in 1..u /\ 2 \in 1..u /\ 2 + 1 = 3 /\ 2 + 2 = 4
    BY <1>4
  <2> QED
    BY <1>2, <2>1
<1>5. ASSUME k = 2 PROVE o[3 + u] = key[1] /\ o[4 + u] = key[2]
  <2>1. 1 \in 1..k /\ 2 \in 1..k /\ 2 + u + 1 = 3 + u /\ 2 + u + 2 = 4 + u
    BY <1>5
  <2> QED
    BY <1>2, <2>1
<1>6. o[3 + u + k] = end[1] /\ Len(o) = 3 + u + k
  <2>1. 1 \in 1..1 /\ 2 + u + k + 1 = 3 + u + k
    OBVIOUS
  <2> QED
    BY <1>2, <2>1
<1> QED
  BY <1>3, <1>4, <1>5, <1>6 DEF RequestLike

Lines(line, hu, hk) ==
  /\ Crlf # line /\ Crlf # hu /\ Crlf # hk
  /\ Crlf[1] # "header" /\ hu[1] = "header" /\ hk[1] = "header"
  /\ hu[2] = "upgrade" /\ hk[2] = "key"

Listing(o, line, hu, hk, u, k) ==
  /\ Len(o) = 3 + u + k /\ o[1] = line /\ o[2] = Crlf
  /\ u = 2 => o[3] = hu /\ o[4] = Crlf
  /\ k = 2 => o[3 + u] = hk /\ o[4 + u] = Crlf
  /\ o[3 + u + k] = Crlf

(* A line and its end, headers each with its end, and an empty line that is the first. *)
Heads(o, line, u, k) ==
  /\ Len(o) \in {3, 5, 7}
  /\ o[1] = line /\ o[2] = Crlf
  /\ o[Len(o) - 1] = Crlf /\ o[Len(o)] = Crlf
  /\ \A i \in 2..(Len(o) - 2) : ~(o[i] = Crlf /\ o[i + 1] = Crlf)
  /\ (\E i \in 2..(Len(o) - 1) : o[i][1] = "header" /\ o[i][2] = "upgrade") <=> u = 2
  /\ (\E i \in 2..(Len(o) - 1) : o[i][1] = "header" /\ o[i][2] = "key") <=> k = 2

RequestShaped(o, r) ==
  Heads(o, <<"line", r.resource>>, IF r.upgrade THEN 2 ELSE 0, IF r.key THEN 2 ELSE 0)

LEMMA RequestLength ==
  ASSUME NEW o, NEW r, RequestShaped(o, r)
  PROVE  Len(o) \in {3, 5, 7}
  BY Zenon DEF RequestShaped, Heads

LEMMA RequestListed ==
  ASSUME NEW line, NEW hu, NEW hk, Lines(line, hu, hk),
         NEW u \in {0, 2}, NEW k \in {0, 2}, NEW o, Listing(o, line, hu, hk, u, k)
  PROVE  Heads(o, line, u, k)
<1>3. CASE u = 0 /\ k = 0
  <2>1. Len(o) = 3 /\ o[3] = Crlf
    BY <1>3 DEF Listing
  <2>2. /\ \A i \in 2..(3 - 2) : FALSE
        /\ \A i \in 2..(3 - 1) : i = 2
        /\ 3 - 1 = 2
    OBVIOUS
  <2> QED
    BY <1>3, <2>1, <2>2 DEF Heads, Lines, Listing
<1>4. CASE u = 2 /\ k = 0
  <2>1. Len(o) = 5 /\ o[3] = hu /\ o[4] = Crlf /\ o[5] = Crlf
    BY <1>4 DEF Listing
  <2>2. /\ \A i \in 2..(5 - 2) : i = 2 \/ i = 3
        /\ \A i \in 2..(5 - 1) : i = 2 \/ i = 3 \/ i = 4
        /\ 3 \in 2..(5 - 1) /\ 5 - 1 = 4 /\ 2 + 1 = 3 /\ 3 + 1 = 4
    OBVIOUS
  <2> QED
    BY <1>4, <2>1, <2>2 DEF Heads, Lines, Listing
<1>5. CASE u = 0 /\ k = 2
  <2>1. Len(o) = 5 /\ o[3] = hk /\ o[4] = Crlf /\ o[5] = Crlf
    BY <1>5 DEF Listing
  <2>2. /\ \A i \in 2..(5 - 2) : i = 2 \/ i = 3
        /\ \A i \in 2..(5 - 1) : i = 2 \/ i = 3 \/ i = 4
        /\ 3 \in 2..(5 - 1) /\ 5 - 1 = 4 /\ 2 + 1 = 3 /\ 3 + 1 = 4
    OBVIOUS
  <2> QED
    BY <1>5, <2>1, <2>2 DEF Heads, Lines, Listing
<1>6. CASE u = 2 /\ k = 2
  <2>1. Len(o) = 7 /\ o[3] = hu /\ o[4] = Crlf /\ o[5] = hk /\ o[6] = Crlf /\ o[7] = Crlf
    BY <1>6 DEF Listing
  <2>2. /\ \A i \in 2..(7 - 2) : i = 2 \/ i = 3 \/ i = 4 \/ i = 5
        /\ \A i \in 2..(7 - 1) : i = 2 \/ i = 3 \/ i = 4 \/ i = 5 \/ i = 6
        /\ 3 \in 2..(7 - 1) /\ 5 \in 2..(7 - 1) /\ 7 - 1 = 6
        /\ 2 + 1 = 3 /\ 3 + 1 = 4 /\ 4 + 1 = 5 /\ 5 + 1 = 6
    OBVIOUS
  <2> QED
    BY <1>6, <2>1, <2>2 DEF Heads, Lines, Listing
<1> QED
  BY <1>3, <1>4, <1>5, <1>6

LEMMA RequestShape ==
  ASSUME NEW r \in Requests
  PROVE  \E S : RequestOctets(r) \in Seq(S) /\ RequestShaped(RequestOctets(r), r)
<1> DEFINE line == <<"line", r.resource>>
           hu == <<"header", "upgrade">>
           hk == <<"header", "key">>
           S == {line, Crlf, hu, hk}
           up == IF r.upgrade THEN <<hu, Crlf>> ELSE <<>>
           key == IF r.key THEN <<hk, Crlf>> ELSE <<>>
           end == <<Crlf>>
<1>1. line \in S /\ Crlf \in S /\ hu \in S /\ hk \in S
  OBVIOUS
<1>2. RequestOctets(r) = ((<<line, Crlf>> \o up) \o key) \o end
  BY DEF RequestOctets
<1> PICK u, k : u = (IF r.upgrade THEN 2 ELSE 0) /\ k = (IF r.key THEN 2 ELSE 0)
  OBVIOUS
<1> HIDE DEF S, line, hu, hk
<1>3. PICK start \in Seq(S) : Pair(start, line, Crlf)
  BY <1>1, PairOf
<1>4. end \in Seq(S) /\ Len(end) = 1 /\ end[1] = Crlf
  BY <1>1
<1>5. up \in Seq(S) /\ Len(up) = u /\ (u = 2 => up[1] = hu /\ up[2] = Crlf) /\ u \in {0, 2}
  <2>1. CASE r.upgrade
    <3>1. up = <<hu, Crlf>> /\ u = 2
      BY <2>1
    <3>2. PICK s \in Seq(S) : Pair(s, hu, Crlf)
      BY <1>1, PairOf
    <3> QED
      BY <3>1, <3>2 DEF Pair
  <2>2. CASE ~r.upgrade
    <3>1. up = <<>> /\ u = 0
      BY <2>2
    <3>2. <<>> \in Seq(S) /\ Len(<<>>) = 0
      BY EmptySeq
    <3> QED
      BY <3>1, <3>2
  <2> QED
    BY <2>1, <2>2
<1>6. key \in Seq(S) /\ Len(key) = k /\ (k = 2 => key[1] = hk /\ key[2] = Crlf) /\ k \in {0, 2}
  <2>1. CASE r.key
    <3>1. key = <<hk, Crlf>> /\ k = 2
      BY <2>1
    <3>2. PICK s \in Seq(S) : Pair(s, hk, Crlf)
      BY <1>1, PairOf
    <3> QED
      BY <3>1, <3>2 DEF Pair
  <2>2. CASE ~r.key
    <3>1. key = <<>> /\ k = 0
      BY <2>2
    <3>2. <<>> \in Seq(S) /\ Len(<<>>) = 0
      BY EmptySeq
    <3> QED
      BY <3>1, <3>2
  <2> QED
    BY <2>1, <2>2
<1> HIDE DEF up, key, end
<1>7. PICK o \in Seq(S) : Row(o, start, up, key, end)
  BY <1>4, <1>5, <1>6, FourJoined
<1>8. o = RequestOctets(r)
  BY <1>2, <1>3, <1>7 DEF Pair, Row
<1>9. RequestLike(o, line, Crlf, up, u, key, k, end)
  <2>1. /\ start \in Seq(S) /\ Pair(start, line, Crlf)
        /\ up \in Seq(S) /\ key \in Seq(S) /\ end \in Seq(S) /\ Len(end) = 1
        /\ u \in {0, 2} /\ Len(up) = u /\ k \in {0, 2} /\ Len(key) = k
        /\ o \in Seq(S) /\ Row(o, start, up, key, end)
    BY <1>3, <1>4, <1>5, <1>6, <1>7
  <2> QED
    BY <2>1, RequestParts
<1>10. RequestShaped(o, r)
  <2>1. Listing(o, line, hu, hk, u, k)
    BY <1>4, <1>5, <1>6, <1>9 DEF RequestLike, Listing
  <2>2. Lines(line, hu, hk)
    BY DEF Lines, line, hu, hk, Crlf
  <2>3. Heads(o, line, u, k)
    BY <1>5, <1>6, <2>1, <2>2, RequestListed
  <2> QED
    BY <2>3 DEF RequestShaped, line
<1> QED
  BY <1>8, <1>10

-----------------------------------------------------------------------------
(* The octets of a unit. *)

LEMMA OctetsOfFrame ==
  ASSUME NEW f \in Frames
  PROVE  Octets(f) = FrameOctets(f)
  BY UnitsDiffer DEF Octets

LEMMA Remarked ==
  ASSUME NEW S, NEW o \in Seq(S), NEW T, \A i \in Nat : o[i] \in T
  PROVE  o \in Seq(T)
<1> PICK n \in Nat : n = Len(o)
  BY LenProperties
<1>1. o \in [1..n -> S]
  BY LenProperties
<1>2. o \in [1..n -> T]
  BY <1>1
<1> QED
  BY <1>2, Listed

LEMMA OctetsType ==
  ASSUME NEW u \in Units
  PROVE  Octets(u) \in Seq(Mark)
<1>1. \A i \in Nat : Octets(u)[i] \in Mark
  BY DEF Mark
<1>2. CASE u \in Requests
  <2>1. PICK S : Octets(u) \in Seq(S)
    BY <1>2, RequestShape DEF Octets
  <2> QED
    BY <1>1, <2>1, Remarked
<1>3. CASE u \in Frames
  <2>1. PICK S : Octets(u) \in Seq(S)
    BY <1>3, FrameShape, OctetsOfFrame
  <2> QED
    BY <1>1, <2>1, Remarked
<1> QED
  BY <1>2, <1>3 DEF Units

LEMMA OctetsOfUnit ==
  ASSUME NEW u \in Units
  PROVE  /\ Octets(u) \in Seq(Mark) /\ Len(Octets(u)) \in Nat /\ Len(Octets(u)) >= 2
         /\ u \in Requests => RequestShaped(Octets(u), u)
         /\ u \in Frames => FrameShaped(Octets(u), u)
<1>1. Octets(u) \in Seq(Mark) /\ Len(Octets(u)) \in Nat
  BY OctetsType, LenProperties
<1>2. ASSUME u \in Requests PROVE RequestShaped(Octets(u), u) /\ Len(Octets(u)) >= 2
  <2>1. RequestShaped(Octets(u), u)
    BY <1>2, RequestShape DEF Octets
  <2>2. Len(Octets(u)) \in {3, 5, 7}
    BY <2>1, RequestLength
  <2> PICK n : n = Len(Octets(u))
    OBVIOUS
  <2>3. n \in {3, 5, 7}
    BY ONLY <2>2, n = Len(Octets(u))
  <2>4. n >= 2
    BY ONLY <2>3
  <2> QED
    BY ONLY <2>1, <2>4, n = Len(Octets(u)), Zenon
<1>3. ASSUME u \in Frames PROVE FrameShaped(Octets(u), u) /\ Len(Octets(u)) >= 2
  <2>1. FrameShaped(Octets(u), u)
    BY <1>3, FrameShape, OctetsOfFrame
  <2> PICK n \in Nat, e \in Nat, m \in Nat :
             n = Len(u.payload) /\ e = ExtOf(u) /\ m = MaskOf(u)
    BY <1>3, FrameTypes, LenProperties, StreamAssumption DEF ExtOf, MaskOf
  <2>2. Len(Octets(u)) = 2 + e + m + n
    BY <2>1 DEF FrameShaped
  <2> QED
    BY <2>1, <2>2
<1> QED
  BY <1>1, <1>2, <1>3 DEF Units

-----------------------------------------------------------------------------
(* The invariant. *)

(* The octets of the units that have not been handled. *)
OctetsAfter(units, k) == [j \in 1..(Len(units) - k) |-> Octets(units[k + j])]

Left == OctetsAfter(sent, handled)

(* The octets that have been read and not been used: the line of a request has been
   used when its headers have not. *)
Parsed == IF ws.state = "headers" THEN << <<"line", ws.resource>> >> ELSE <<>>

Buffered == IF pc = "idle" THEN kept ELSE input

Unused == Joined(Parsed, Buffered)

BufferTypes ==
  /\ wire \in Seq(Mark) /\ kept \in Seq(Mark) /\ input \in Seq(Mark)
  /\ shared \in BOOLEAN /\ pc \in {"idle", "loop", "end"}
  /\ needed \in 0..(2 + ExtOctets) /\ length \in Nat

(* The parser works on the end of the char_buffer, or on the caller's buffer. *)
Placed ==
  /\ pc = "idle" => input = <<>> /\ ~shared
  /\ shared => kept = <<>>
  /\ ~shared => \E before \in Seq(Mark) : Joined(before, input) = kept

(* What has not been used or read are the octets of the units not handled. *)
Flow == ~Dead => FlattenSeq(Left) = Joined(Unused, wire)

Looping == pc = "loop" => ~Dead /\ input # <<>>

(* Outside the loop less than a unit is buffered. *)
Waiting ==
  pc # "loop" /\ ~Dead /\ handled < Len(sent)
  => Len(Unused) < Len(Octets(sent[handled + 1]))

(* A length that is known is that of the next frame. *)
Measured ==
  ws.state = "frame" =>
    handled < Len(sent) /\ needed = 0 /\ length = Len(Octets(sent[handled + 1]))

StreamInv == Inv /\ BufferTypes /\ Placed /\ Flow /\ Looping /\ Waiting /\ Measured

-----------------------------------------------------------------------------
(* The units that are left. *)

LEMMA SuffixIs ==
  ASSUME NEW units \in Seq(Units), NEW k \in Nat, k <= Len(units)
  PROVE  /\ OctetsAfter(units, k) \in Seq(Seq(Mark)) /\ Len(units) - k \in Nat
         /\ Len(OctetsAfter(units, k)) = Len(units) - k
         /\ \A j \in 1..(Len(units) - k) : OctetsAfter(units, k)[j] = Octets(units[k + j])
<1> PICK m \in Nat : m = Len(units) - k
  BY LenProperties
<1>1. ASSUME NEW j \in 1..m PROVE Octets(units[k + j]) \in Seq(Mark)
  <2>1. k + j \in 1..Len(units)
    BY LenProperties
  <2>2. units[k + j] \in Units
    BY <2>1, ElementOfSeq
  <2> QED
    BY <2>2, OctetsOfUnit
<1> PICK s : s = [j \in 1..m |-> Octets(units[k + j])]
  OBVIOUS
<1> PICK T : T = Seq(Mark)
  OBVIOUS
<1>2. s \in [1..m -> T] /\ \A j \in 1..m : s[j] = Octets(units[k + j])
  BY <1>1
<1>3. s \in Seq(T) /\ Len(s) = m
  <2>1. s \in [1..m -> T]
    BY <1>2
  <2> QED
    BY <2>1, Listed
<1>4. OctetsAfter(units, k) = s
  BY DEF OctetsAfter
<1> QED
  BY <1>2, <1>3, <1>4

LEMMA SameSequence ==
  ASSUME NEW S, NEW s \in Seq(S), NEW t \in Seq(S), NEW n \in Nat, Len(s) = n, Len(t) = n,
         \A j \in 1..n : s[j] = t[j]
  PROVE  s = t
  BY SeqEqual

LEMMA SuffixTail ==
  ASSUME NEW units \in Seq(Units), NEW k \in Nat, k < Len(units)
  PROVE  OctetsAfter(units, k + 1) = Tail(OctetsAfter(units, k))
<1> PICK n \in Nat : n = Len(units)
  BY LenProperties
<1> PICK T : T = Seq(Mark)
  OBVIOUS
<1> PICK s : s = OctetsAfter(units, k)
  OBVIOUS
<1> PICK t : t = OctetsAfter(units, k + 1)
  OBVIOUS
<1>1. /\ s \in Seq(T) /\ Len(s) = n - k
      /\ \A j \in 1..(n - k) : s[j] = Octets(units[k + j])
  <2>1. k <= Len(units)
    OBVIOUS
  <2>2. /\ OctetsAfter(units, k) \in Seq(Seq(Mark)) /\ Len(OctetsAfter(units, k)) = Len(units) - k
        /\ \A j \in 1..(Len(units) - k) : OctetsAfter(units, k)[j] = Octets(units[k + j])
    BY <2>1, SuffixIs
  <2> QED
    BY <2>2
<1>2. /\ t \in Seq(T) /\ Len(t) = n - (k + 1)
      /\ \A j \in 1..(n - (k + 1)) : t[j] = Octets(units[(k + 1) + j])
  <2> PICK l \in Nat : l = k + 1 /\ l <= Len(units)
    BY LenProperties
  <2>1. /\ OctetsAfter(units, l) \in Seq(Seq(Mark)) /\ Len(OctetsAfter(units, l)) = Len(units) - l
        /\ \A j \in 1..(Len(units) - l) : OctetsAfter(units, l)[j] = Octets(units[l + j])
    BY SuffixIs
  <2> QED
    BY <2>1
<1>3. s # <<>>
  <2>1. Len(s) # 0 /\ Len(<<>>) = 0
    BY <1>1, EmptySeq
  <2> QED
    BY <2>1
<1> PICK r : r = Tail(s)
  OBVIOUS
<1>4. /\ r \in Seq(T) /\ Len(r) = Len(s) - 1
      /\ \A j \in 1..Len(r) : r[j] = s[j + 1]
  <2>1. s \in Seq(T)
    BY <1>1
  <2> QED
    BY <1>3, <2>1, HeadTailProperties
<1>5. (n - k) - 1 = n - (k + 1) /\ n - (k + 1) \in Nat /\ Len(r) = n - (k + 1)
  <2>1. Len(r) = (n - k) - 1
    BY <1>1, <1>4
  <2>2. k < n
    OBVIOUS
  <2>3. (n - k) - 1 = n - (k + 1) /\ n - (k + 1) \in Nat
    BY <2>2
  <2> QED
    BY <2>1, <2>3
<1>6. ASSUME NEW j \in 1..(n - (k + 1)) PROVE t[j] = r[j]
  <2>1. j \in 1..Len(r) /\ j + 1 \in 1..(n - k) /\ k + (j + 1) = (k + 1) + j
    BY <1>5
  <2>2. r[j] = s[j + 1] /\ s[j + 1] = Octets(units[k + (j + 1)])
    BY <1>1, <1>4, <2>1
  <2> QED
    BY <1>2, <2>1, <2>2
<1>7. t = r
  <2> PICK l \in Nat : l = n - (k + 1)
    BY <1>5
  <2>1. /\ t \in Seq(T) /\ r \in Seq(T) /\ l \in Nat /\ Len(t) = l /\ Len(r) = l
        /\ \A j \in 1..l : t[j] = r[j]
    BY <1>2, <1>4, <1>5, <1>6
  <2> QED
    BY ONLY <2>1, SameSequence
<1> QED
  BY <1>7

LEMMA SuffixAppend ==
  ASSUME NEW units \in Seq(Units), NEW k \in Nat, k <= Len(units), NEW u \in Units,
         NEW more, more = Append(units, u)
  PROVE  OctetsAfter(more, k) = Append(OctetsAfter(units, k), Octets(u))
<1> PICK n \in Nat : n = Len(units)
  BY LenProperties
<1>1. /\ more \in Seq(Units) /\ Len(more) = n + 1 /\ more[n + 1] = u
      /\ \A i \in 1..n : more[i] = units[i]
  BY Appended
<1> PICK T : T = Seq(Mark)
  OBVIOUS
<1> PICK s : s = OctetsAfter(units, k)
  OBVIOUS
<1> PICK t : t = OctetsAfter(more, k)
  OBVIOUS
<1>2. /\ s \in Seq(T) /\ Len(s) = n - k
      /\ \A j \in 1..(n - k) : s[j] = Octets(units[k + j])
  <2>1. /\ OctetsAfter(units, k) \in Seq(Seq(Mark)) /\ Len(OctetsAfter(units, k)) = Len(units) - k
        /\ \A j \in 1..(Len(units) - k) : OctetsAfter(units, k)[j] = Octets(units[k + j])
    BY SuffixIs
  <2> QED
    BY <2>1
<1>3. /\ t \in Seq(T) /\ Len(t) = (n + 1) - k
      /\ \A j \in 1..((n + 1) - k) : t[j] = Octets(more[k + j])
  <2>1. more \in Seq(Units) /\ k <= Len(more)
    BY <1>1
  <2>2. /\ OctetsAfter(more, k) \in Seq(Seq(Mark)) /\ Len(OctetsAfter(more, k)) = Len(more) - k
        /\ \A j \in 1..(Len(more) - k) : OctetsAfter(more, k)[j] = Octets(more[k + j])
    BY <2>1, SuffixIs
  <2> QED
    BY <1>1, <2>2
<1>4. Octets(u) \in T
  BY OctetsOfUnit
<1> PICK x : x = Octets(u)
  OBVIOUS
<1> PICK r : r = Append(s, x)
  OBVIOUS
<1>5. /\ r \in Seq(T) /\ Len(r) = Len(s) + 1 /\ r[Len(s) + 1] = x
      /\ \A j \in 1..Len(s) : r[j] = s[j]
  BY <1>2, <1>4, Appended
<1>6. (n + 1) - k = (n - k) + 1 /\ (n - k) + 1 \in Nat
  OBVIOUS
<1>7. ASSUME NEW j \in 1..((n - k) + 1) PROVE t[j] = r[j]
  <2>1. CASE j \in 1..(n - k)
    <3>1. k + j \in 1..n
      BY <2>1
    <3>2. more[k + j] = units[k + j] /\ r[j] = s[j] /\ s[j] = Octets(units[k + j])
      BY <1>1, <1>2, <1>5, <2>1, <3>1
    <3> QED
      BY <1>3, <1>6, <3>2
  <2>2. CASE j \notin 1..(n - k)
    <3>1. j = (n - k) + 1 /\ k + j = n + 1 /\ j = Len(s) + 1
      BY <1>2, <2>2
    <3>2. r[j] = x
      BY <1>5, <3>1
    <3>3. more[k + j] = u
      BY <1>1, <3>1
    <3>4. t[j] = Octets(more[k + j])
      BY <1>3, <1>6
    <3> QED
      BY <3>2, <3>3, <3>4
  <2> QED
    BY <2>1, <2>2
<1>8. t = r
  <2> PICK l \in Nat : l = (n - k) + 1
    BY <1>6
  <2>1. /\ t \in Seq(T) /\ r \in Seq(T) /\ l \in Nat /\ Len(t) = l /\ Len(r) = l
        /\ \A j \in 1..l : t[j] = r[j]
    BY <1>2, <1>3, <1>5, <1>6, <1>7
  <2> QED
    BY ONLY <2>1, SameSequence
<1> QED
  BY <1>8

LEMMA LeftIs ==
  ASSUME Inv
  PROVE  /\ sent \in Seq(Units) /\ handled \in Nat /\ handled <= Len(sent)
         /\ Left \in Seq(Seq(Mark)) /\ Len(sent) - handled \in Nat
         /\ Len(Left) = Len(sent) - handled
         /\ \A j \in 1..(Len(sent) - handled) : Left[j] = Octets(sent[handled + j])
<1>1. sent \in Seq(Units) /\ handled \in Nat /\ handled <= Len(sent)
  BY LenProperties DEF Inv, TypeOK, Units
<1> QED
  BY <1>1, SuffixIs DEF Left

LEMMA LeftFirst ==
  ASSUME Inv, handled < Len(sent)
  PROVE  Left # <<>> /\ Left[1] = Octets(sent[handled + 1]) /\ sent[handled + 1] \in Units
<1>1. /\ sent \in Seq(Units) /\ handled \in Nat /\ Len(sent) \in Nat
  BY LenProperties DEF Inv, TypeOK, Units
<1>2. handled + 1 \in 1..Len(sent) /\ 1 \in 1..(Len(sent) - handled) /\ Len(sent) - handled # 0
  BY <1>1
<1>3. Left \in Seq(Seq(Mark)) /\ Len(Left) # 0 /\ Left[1] = Octets(sent[handled + 1])
  BY <1>2, LeftIs
<1>4. sent[handled + 1] \in Units
  BY <1>1, <1>2, ElementOfSeq
<1>5. Len(<<>>) = 0
  BY EmptySeq
<1> QED
  BY <1>3, <1>4, <1>5

LEMMA LeftNone ==
  ASSUME Inv, ~(handled < Len(sent))
  PROVE  Left = <<>> /\ FlattenSeq(Left) = <<>>
<1>1. handled \in 0..Len(sent) /\ Len(sent) \in Nat
  BY LenProperties DEF Inv, TypeOK
<1>2. Len(sent) - handled = 0
  BY <1>1
<1>3. Left = <<>>
  BY <1>2, LeftIs, EmptySeq
<1> QED
  BY <1>3, FlattenSeqEmpty

LEMMA LeftTail ==
  ASSUME Inv, handled < Len(sent), sent' = sent, handled' = handled + 1
  PROVE  Left' = Tail(Left)
<1>1. Left' = OctetsAfter(sent, handled + 1)
  BY DEF Left
<1> QED
  BY <1>1, LeftIs, SuffixTail DEF Left

LEMMA LeftAppend ==
  ASSUME Inv, NEW u \in Units, sent' = Append(sent, u), handled' = handled
  PROVE  Left' = Append(Left, Octets(u))
<1>1. Left' = OctetsAfter(sent', handled)
  BY DEF Left
<1> QED
  BY <1>1, LeftIs, SuffixAppend DEF Left

-----------------------------------------------------------------------------
(* What is buffered. *)

LEMMA ParsedType ==
  ASSUME Inv
  PROVE  /\ Parsed \in Seq(Mark)
         /\ ws.state = "headers" => Len(Parsed) = 1 /\ Parsed[1] = <<"line", ws.resource>>
         /\ ws.state # "headers" => Parsed = <<>> /\ Len(Parsed) = 0
<1>1. ws.resource \in Resource \cup {"none"}
  BY DEF Inv, TypeOK, Connection
<1>2. <<"line", ws.resource>> \in Mark
  BY <1>1 DEF Mark
<1> PICK o : o = <<"line", ws.resource>>
  OBVIOUS
<1>3. <<o>> \in Seq(Mark) /\ Len(<<o>>) = 1 /\ <<o>>[1] = o
  BY <1>2
<1>4. <<>> \in Seq(Mark) /\ Len(<<>>) = 0
  BY EmptySeq
<1> QED
  BY <1>3, <1>4 DEF Parsed

LEMMA UnusedType ==
  ASSUME Inv, BufferTypes
  PROVE  Unused \in Seq(Mark) /\ Buffered \in Seq(Mark) /\ Len(Unused) = Len(Parsed) + Len(Buffered)
<1>1. Buffered \in Seq(Mark)
  BY DEF BufferTypes, Buffered
<1> QED
  BY <1>1, ParsedType, JoinedType, JoinedElements DEF Unused

(* What is not used starts as the next unit does. *)
LEMMA NextUnit ==
  ASSUME Inv, BufferTypes, Flow, ~Dead, handled < Len(sent)
  PROVE  LET x == Octets(sent[handled + 1]) IN
         /\ \A i \in 1..Len(Unused) : i <= Len(x) => Unused[i] = x[i]
         /\ Len(Unused) >= Len(x) => /\ Rest(Unused, Len(x)) \in Seq(Mark)
                                     /\ FlattenSeq(Tail(Left)) = Joined(Rest(Unused, Len(x)), wire)
<1> PICK x, q, s : x = Octets(sent[handled + 1]) /\ q = Left /\ s = Unused
  OBVIOUS
<1>1. q \in Seq(Seq(Mark)) /\ q # <<>> /\ x = q[1]
  BY LeftIs, LeftFirst
<1>2. s \in Seq(Mark) /\ wire \in Seq(Mark) /\ FlattenSeq(q) = Joined(s, wire)
  BY UnusedType DEF BufferTypes, Flow
<1>3. /\ \A i \in 1..Len(s) : i <= Len(x) => s[i] = x[i]
      /\ Len(s) >= Len(x) => /\ Rest(s, Len(x)) \in Seq(Mark)
                             /\ FlattenSeq(Tail(q)) = Joined(Rest(s, Len(x)), wire)
  <2>1. /\ q \in Seq(Seq(Mark)) /\ q # <<>> /\ s \in Seq(Mark) /\ wire \in Seq(Mark)
        /\ FlattenSeq(q) = Joined(s, wire) /\ x = q[1]
    BY <1>1, <1>2
  <2> HIDE DEF Mark
  <2> QED
    BY ONLY <2>1, FirstTaken
<1> QED
  BY <1>3

(* Nothing is buffered when nothing is left. *)
LEMMA NothingLeft ==
  ASSUME Inv, BufferTypes, Flow, ~Dead, ~(handled < Len(sent))
  PROVE  Unused = <<>> /\ Buffered = <<>> /\ ws.state # "headers" /\ wire = <<>>
<1> PICK s, b, p : s = Unused /\ b = Buffered /\ p = Parsed
  OBVIOUS
<1>1. /\ s \in Seq(Mark) /\ wire \in Seq(Mark) /\ b \in Seq(Mark) /\ p \in Seq(Mark)
      /\ Joined(s, wire) = <<>>
  BY UnusedType, ParsedType, LeftNone DEF BufferTypes, Flow
<1>2. /\ Len(Joined(s, wire)) = 0 /\ Len(s) \in Nat /\ Len(wire) \in Nat
      /\ Len(Joined(s, wire)) = Len(s) + Len(wire)
  BY <1>1, JoinedElements, EmptySeq
<1>3. Len(s) = 0 /\ Len(wire) = 0
  BY <1>2
<1>4. Len(s) = Len(p) + Len(b) /\ Len(p) \in Nat /\ Len(b) \in Nat
  BY <1>1, UnusedType, LenProperties
<1>5. Len(p) = 0 /\ Len(b) = 0
  BY <1>3, <1>4
<1>6. ws.state # "headers"
  BY <1>5, ParsedType
<1> QED
  BY <1>1, <1>3, <1>5, <1>6, EmptySeq

-----------------------------------------------------------------------------
(* The parser. *)

LEMMA JoinedSecond ==
  ASSUME NEW S, NEW s \in Seq(S), NEW t \in Seq(S), NEW i \in 1..Len(t)
  PROVE  Joined(s, t)[Len(s) + i] = t[i]
<1> PICK m \in Nat, n \in Nat : m = Len(s) /\ n = Len(t) /\ i \in 1..n
  BY LenProperties
<1>1. \A k \in 1..(m + n) : (s \o t)[k] = IF k <= m THEN s[k] ELSE t[k - m]
  BY ConcatProperties
<1>2. m + i \in 1..(m + n) /\ ~(m + i <= m) /\ (m + i) - m = i
  OBVIOUS
<1> QED
  BY <1>1, <1>2 DEF Joined

LEMMA JoinedNothing ==
  ASSUME NEW S, NEW s \in Seq(S)
  PROVE  Joined(s, <<>>) = s /\ Joined(<<>>, s) = s
  BY ConcatEmptySeq DEF Joined

LEMMA RestOfJoined ==
  ASSUME NEW S, NEW p \in Seq(S), NEW s \in Seq(S), NEW n \in 0..Len(s), NEW m, m = Len(p) + n
  PROVE  Rest(Joined(p, s), m) = Rest(s, n)
<1> PICK b : b = Beginning(s, n)
  OBVIOUS
<1> PICK r : r = Rest(s, n)
  OBVIOUS
<1>1. b \in Seq(S) /\ r \in Seq(S) /\ Len(b) = n /\ Joined(b, r) = s
  BY SplitAt
<1> PICK j : j = Joined(p, s)
  OBVIOUS
<1> PICK x : x = Joined(p, b)
  OBVIOUS
<1>2. x \in Seq(S) /\ j \in Seq(S) /\ Len(x) = m /\ Len(x) \in Nat
  <2>1. x \in Seq(S) /\ j \in Seq(S)
    BY <1>1, JoinedType
  <2>2. Len(x) = Len(p) + Len(b)
    BY <1>1, JoinedElements
  <2> QED
    BY <1>1, <2>1, <2>2, LenProperties
<1>3. Joined(x, r) = j
  BY <1>1, JoinedAssociative
<1>4. <<>> \in Seq(S) /\ Joined(j, <<>>) = j
  BY <1>2, EmptySeq, JoinedNothing
<1>5. Len(j) >= Len(x)
  <2>1. Len(j) = Len(x) + Len(r) /\ Len(x) \in Nat /\ Len(r) \in Nat
    BY <1>1, <1>2, <1>3, JoinedElements
  <2> QED
    BY <2>1
<1>6. Rest(j, Len(x)) \in Seq(S) /\ Joined(Rest(j, Len(x)), <<>>) = r
  <2> PICK e : e = <<>>
    OBVIOUS
  <2>1. /\ j \in Seq(S) /\ e \in Seq(S) /\ x \in Seq(S) /\ r \in Seq(S)
        /\ Joined(x, r) = Joined(j, e) /\ Len(j) >= Len(x)
    BY <1>1, <1>2, <1>3, <1>4, <1>5
  <2>2. Rest(j, Len(x)) \in Seq(S) /\ Joined(Rest(j, Len(x)), e) = r
    BY ONLY <2>1, PacketTaken
  <2> QED
    BY <2>2
<1>7. Rest(j, Len(x)) = r
  BY <1>6, JoinedNothing
<1> QED
  BY <1>2, <1>7

(* The loop has a unit to work on, and what is left of its input starts as this unit. *)
LEMMA LoopInput ==
  ASSUME StreamInv, pc = "loop"
  PROVE  /\ handled < Len(sent) /\ sent[handled + 1] \in Units
         /\ ws.state \in {"request", "headers", "length", "frame"}
         /\ ws.state \in {"request", "headers"} <=> sent[handled + 1] \in Requests
         /\ ws.state \in {"length", "frame"} <=> sent[handled + 1] \in Frames
         /\ Unused = Joined(Parsed, input) /\ input \in Seq(Mark) /\ Len(input) \in Nat
         /\ input # <<>> /\ Len(input) > 0
<1>1. /\ Inv /\ BufferTypes /\ Flow /\ Looping /\ ~Dead /\ input # <<>> /\ Buffered = input
      /\ input \in Seq(Mark)
  BY DEF StreamInv, Looping, Buffered, BufferTypes
<1>2. handled < Len(sent)
  BY <1>1, NothingLeft
<1>3. sent[handled + 1] \in Units
  BY <1>1, <1>2, LeftFirst
<1>4. ws.state \in {"request", "headers", "length", "frame"}
  BY <1>1 DEF Inv, TypeOK, Connection, Dead
<1>5. /\ ws.state \in {"request", "headers"} => sent[handled + 1] \in Requests
      /\ ws.state \in {"length", "frame"} => sent[handled + 1] \in Frames
  BY <1>1, <1>2, UnitOfState DEF Upgraded
<1>6. ws.state \in {"request", "headers"} \/ ws.state \in {"length", "frame"}
  BY <1>4
<1>7. Unused = Joined(Parsed, input)
  BY <1>1 DEF Unused
<1>8. Len(input) \in Nat \ {0}
  BY <1>1, EmptySeq
<1> QED
  BY <1>1, <1>2, <1>3, <1>4, <1>5, <1>6, <1>7, <1>8, UnitsDiffer

LEMMA InputStarts ==
  ASSUME StreamInv, pc = "loop", ws.state # "headers"
  PROVE  LET x == Octets(sent[handled + 1]) IN
         /\ \A i \in 1..Len(input) : i <= Len(x) => input[i] = x[i]
         /\ Len(Parsed) = 0 /\ Len(Unused) = Len(input)
<1>1. /\ Inv /\ BufferTypes /\ Flow /\ ~Dead /\ handled < Len(sent) /\ input \in Seq(Mark)
      /\ Unused = Joined(Parsed, input)
  BY LoopInput DEF StreamInv, Looping
<1>2. Parsed = <<>> /\ Len(Parsed) = 0
  BY <1>1, ParsedType
<1>3. Unused = input
  BY <1>1, <1>2, JoinedNothing
<1>4. LET x == Octets(sent[handled + 1]) IN
      \A i \in 1..Len(Unused) : i <= Len(x) => Unused[i] = x[i]
  BY <1>1, NextUnit
<1> QED
  BY <1>2, <1>3, <1>4

LEMMA HeadersStart ==
  ASSUME StreamInv, pc = "loop", ws.state = "headers"
  PROVE  LET x == Octets(sent[handled + 1]) IN
         /\ x[1] = <<"line", ws.resource>>
         /\ \A i \in 1..Len(input) : i + 1 <= Len(x) => input[i] = x[i + 1]
         /\ Len(Parsed) = 1 /\ Len(Unused) = Len(input) + 1
<1> PICK x : x = Octets(sent[handled + 1])
  OBVIOUS
<1>1. /\ Inv /\ BufferTypes /\ Flow /\ ~Dead /\ handled < Len(sent) /\ input \in Seq(Mark)
      /\ Unused = Joined(Parsed, input) /\ Len(input) \in Nat
  BY LoopInput DEF StreamInv, Looping
<1>2. Parsed \in Seq(Mark) /\ Len(Parsed) = 1 /\ Parsed[1] = <<"line", ws.resource>>
  BY <1>1, ParsedType
<1>3. \A i \in 1..Len(Unused) : i <= Len(x) => Unused[i] = x[i]
  BY <1>1, NextUnit
<1>4. Len(x) \in Nat /\ Len(x) >= 2
  BY LoopInput, OctetsOfUnit
<1>5. /\ Len(Unused) = Len(Parsed) + Len(input)
      /\ \A i \in 1..Len(Parsed) : Unused[i] = Parsed[i]
  BY <1>1, <1>2, JoinedElements
<1>6. x[1] = <<"line", ws.resource>>
  <2>1. 1 \in 1..Len(Unused) /\ 1 <= Len(x) /\ 1 \in 1..Len(Parsed)
    BY <1>1, <1>2, <1>4, <1>5
  <2> QED
    BY <1>2, <1>3, <1>5, <2>1
<1>7. ASSUME NEW i \in 1..Len(input), i + 1 <= Len(x) PROVE input[i] = x[i + 1]
  <2>1. Unused[Len(Parsed) + i] = input[i]
    <3>1. Parsed \in Seq(Mark) /\ input \in Seq(Mark) /\ i \in 1..Len(input)
      BY <1>1, <1>2
    <3>2. Joined(Parsed, input)[Len(Parsed) + i] = input[i]
      BY ONLY <3>1, JoinedSecond
    <3> QED
      BY <1>1, <3>2
  <2>2. i + 1 \in 1..Len(Unused) /\ Len(Parsed) + i = i + 1
    BY <1>1, <1>2, <1>5
  <2>3. Unused[i + 1] = x[i + 1]
    BY <1>3, <1>7, <2>2
  <2> QED
    BY <2>1, <2>2, <2>3
<1>8. Len(Unused) = Len(input) + 1
  BY <1>1, <1>2, <1>5
<1> QED
  BY <1>2, <1>6, <1>7, <1>8

(* A unit that is whole is used up to its end. *)
LEMMA UnitTaken ==
  ASSUME StreamInv, pc = "loop", NEW n \in 0..Len(input),
         Len(Octets(sent[handled + 1])) = Len(Parsed) + n
  PROVE  Rest(input, n) \in Seq(Mark) /\ FlattenSeq(Tail(Left)) = Joined(Rest(input, n), wire)
<1> PICK x : x = Octets(sent[handled + 1])
  OBVIOUS
<1>1. /\ Inv /\ BufferTypes /\ Flow /\ ~Dead /\ handled < Len(sent) /\ input \in Seq(Mark)
      /\ Unused = Joined(Parsed, input) /\ Len(input) \in Nat
  BY LoopInput DEF StreamInv, Looping
<1>2. Parsed \in Seq(Mark)
  BY <1>1, ParsedType
<1>3. Rest(Unused, Len(x)) = Rest(input, n)
  <2> PICK m : m = Len(x)
    OBVIOUS
  <2>1. Parsed \in Seq(Mark) /\ input \in Seq(Mark) /\ n \in 0..Len(input) /\ m = Len(Parsed) + n
    BY <1>1, <1>2
  <2>2. Rest(Joined(Parsed, input), m) = Rest(input, n)
    BY ONLY <2>1, RestOfJoined
  <2> QED
    BY <1>1, <2>2
<1>4. Len(Unused) = Len(Parsed) + Len(input) /\ Len(Parsed) \in Nat
  BY <1>1, <1>2, JoinedElements
<1>5. Len(Unused) >= Len(x)
  BY <1>1, <1>4
<1>6. /\ Rest(Unused, Len(x)) \in Seq(Mark)
      /\ FlattenSeq(Tail(Left)) = Joined(Rest(Unused, Len(x)), wire)
  BY <1>1, <1>5, NextUnit
<1> QED
  BY <1>3, <1>6

-----------------------------------------------------------------------------
(* What the parser finds. *)

LEMMA FirstIs ==
  ASSUME NEW S \in SUBSET Nat, NEW m \in S, \A i \in S : m <= i
  PROVE  First(S) = m
<1>1. First(S) \in S /\ \A j \in S : First(S) <= j
  <2>1. \E i \in S : \A j \in S : i <= j
    OBVIOUS
  <2> QED
    BY <2>1, Zenon DEF First
<1> PICK f : f = First(S)
  OBVIOUS
<1>2. f \in Nat /\ m \in Nat /\ f <= m /\ m <= f
  BY <1>1
<1> QED
  BY <1>2

(* A line end in the input is that of the request's first line. *)
LEMMA LineFound ==
  ASSUME StreamInv, pc = "loop", ws.state = "request"
  PROVE  /\ Crlfs = {} => Len(input) < 2
         /\ Crlfs # {} => /\ First(Crlfs) = 2 /\ Len(input) >= 2
                          /\ RequestLine = sent[handled + 1].resource
                          /\ input[1] = <<"line", sent[handled + 1].resource>>
<1> PICK u : u = sent[handled + 1]
  OBVIOUS
<1> PICK x : x = Octets(u)
  OBVIOUS
<1> PICK n \in Nat : n = Len(input)
  BY LoopInput
<1>1. u \in Requests /\ u \in Units /\ input \in Seq(Mark)
  BY LoopInput
<1>2. Len(x) >= 2 /\ x[1] = <<"line", u.resource>> /\ x[2] = Crlf
  BY <1>1, OctetsOfUnit DEF RequestShaped, Heads
<1>3. \A i \in 1..n : i <= Len(x) => input[i] = x[i]
  BY InputStarts
<1>4. x[1] # Crlf /\ x[1][2] = u.resource
  BY <1>2 DEF Crlf
<1>5. n >= 1 => input[1] = x[1]
  <2>1. n >= 1 => 1 \in 1..n /\ 1 <= Len(x)
    BY <1>1, OctetsOfUnit
  <2> QED
    BY <1>3, <2>1
<1>6. n >= 2 => input[2] = x[2]
  <2>1. n >= 2 => 2 \in 1..n /\ 2 <= Len(x)
    BY <1>1, OctetsOfUnit
  <2> QED
    BY <1>3, <2>1
<1>7. Crlfs = {i \in 1..n : input[i] = Crlf}
  <2>1. DOMAIN input = 1..n
    BY <1>1, LenProperties
  <2> QED
    BY <2>1 DEF Crlfs
<1>8. CASE n >= 2
  <2>1. 2 \in Crlfs /\ 1 \notin Crlfs /\ Crlfs \in SUBSET Nat
    <3>1. 2 \in 1..n /\ n >= 1
      BY <1>8
    <3>2. input[2] = x[2] /\ input[1] = x[1]
      BY <1>5, <1>6, <1>8, <3>1
    <3>3. input[2] = Crlf /\ input[1] # Crlf
      BY <1>2, <1>4, <3>2, Zenon
    <3> QED
      BY <1>7, <3>1, <3>3
  <2>2. \A i \in Crlfs : 2 <= i
    <3> TAKE i \in Crlfs
    <3>1. i \in 1..n /\ i # 1
      BY <1>7, <2>1
    <3> QED
      BY <3>1
  <2>3. First(Crlfs) = 2
    BY <2>1, <2>2, FirstIs
  <2>4. RequestLine = u.resource
    <3>1. 2 - 1 = 1
      OBVIOUS
    <3>2. input[1] = x[1]
      BY <1>5, <1>8
    <3> QED
      BY <1>4, <2>3, <3>1, <3>2 DEF RequestLine
  <2> QED
    BY <1>2, <1>5, <1>8, <2>1, <2>3, <2>4
<1>9. CASE ~(n >= 2)
  <2>1. ASSUME NEW i \in Crlfs PROVE FALSE
    <3>1. i \in 1..n /\ input[i] = Crlf
      BY <1>7
    <3>2. i = 1 /\ n >= 1
      BY <1>9, <3>1
    <3> QED
      BY <1>4, <1>5, <3>1, <3>2
  <2>2. Crlfs = {}
    BY <2>1
  <2> QED
    BY <1>9, <2>2
<1> QED
  BY <1>8, <1>9

(* An empty line in the input is the end of the request, and not before: the end of
   the first line counts, so that a request without headers ends too. *)
LEMMA HeadersFound ==
  ASSUME StreamInv, pc = "loop", ws.state = "headers"
  PROVE  LET u == sent[handled + 1]
             l == Len(Octets(u)) - 1
         IN  /\ EmptyLines = {} => Len(input) < l
             /\ EmptyLines # {} =>
                  /\ l \in Nat /\ Len(input) >= l /\ First(EmptyLines) = l - 1
                  /\ u = [resource |-> ws.resource, upgrade |-> "upgrade" \in Headers,
                          key |-> "key" \in Headers]
<1> PICK u : u = sent[handled + 1]
  OBVIOUS
<1> PICK x : x = Octets(u)
  OBVIOUS
<1> PICK n \in Nat : n = Len(input)
  BY LoopInput
<1>1. u \in Requests /\ u \in Units /\ input \in Seq(Mark)
  BY LoopInput
<1> PICK line, j, k : /\ line = <<"line", u.resource>>
                      /\ j = (IF u.upgrade THEN 2 ELSE 0) /\ k = (IF u.key THEN 2 ELSE 0)
  OBVIOUS
<1>2. Heads(x, line, j, k)
  BY <1>1, OctetsOfUnit DEF RequestShaped
<1> PICK l \in {2, 4, 6} : Len(x) = l + 1 /\ l = Len(x) - 1
  <2>1. Len(x) \in {3, 5, 7}
    BY <1>2 DEF Heads
  <2> QED
    BY <2>1
<1>3. \A i \in 1..n : i <= l => input[i] = x[i + 1]
  <2>1. \A i \in 1..n : i + 1 <= Len(x) => input[i] = x[i + 1]
    BY HeadersStart
  <2> QED
    BY <2>1
<1>4. /\ x[l] = Crlf /\ x[l + 1] = Crlf
      /\ \A i \in 2..(l - 1) : ~(x[i] = Crlf /\ x[i + 1] = Crlf)
      /\ (\E i \in 2..l : x[i][1] = "header" /\ x[i][2] = "upgrade") <=> j = 2
      /\ (\E i \in 2..l : x[i][1] = "header" /\ x[i][2] = "key") <=> k = 2
  <2>1. (l + 1) - 1 = l /\ (l + 1) - 2 = l - 1
    OBVIOUS
  <2> QED
    BY <1>2, <2>1 DEF Heads
<1>5. EmptyLines = {i \in 1..n : i + 1 \in 1..n /\ input[i] = Crlf /\ input[i + 1] = Crlf}
  <2>1. DOMAIN input = 1..n
    BY <1>1, LenProperties
  <2> QED
    BY <2>1 DEF EmptyLines, Crlfs
<1>6. ASSUME NEW i \in EmptyLines PROVE i >= l - 1 /\ n >= l
  <2>1. i \in 1..n /\ i + 1 \in 1..n /\ input[i] = Crlf /\ input[i + 1] = Crlf
    BY <1>5
  <2>2. SUFFICES ASSUME ~(i >= l - 1) PROVE FALSE
    BY <2>1
  <2>3. i <= l /\ i + 1 <= l /\ i + 1 \in 2..(l - 1) /\ (i + 1) + 1 = i + 2
    BY <2>1, <2>2
  <2>4. x[i + 1] = Crlf /\ x[(i + 1) + 1] = Crlf
    BY <1>3, <2>1, <2>3
  <2> QED
    BY <1>4, <2>3, <2>4
<1>7. ASSUME n >= l PROVE l - 1 \in EmptyLines
  <2>1. l - 1 \in 1..n /\ l \in 1..n /\ (l - 1) + 1 = l /\ l - 1 <= l
    BY <1>7
  <2> PICK i : i = l - 1
    OBVIOUS
  <2>2. i \in 1..n /\ i <= l /\ i + 1 = l /\ l <= l
    BY <2>1
  <2>3. input[i] = x[i + 1] /\ input[l] = x[l + 1]
    BY <1>3, <2>1, <2>2
  <2> QED
    BY <1>4, <1>5, <2>1, <2>2, <2>3
<1>8. ASSUME EmptyLines # {} PROVE n >= l /\ First(EmptyLines) = l - 1
  <2>1. n >= l
    BY <1>6, <1>8
  <2>2. EmptyLines \in SUBSET Nat
    BY <1>5
  <2> QED
    BY <1>6, <1>7, <2>1, <2>2, FirstIs
<1>9. ASSUME EmptyLines # {}, NEW h
      PROVE  h \in Headers <=> \E i \in 2..l : x[i][1] = "header" /\ x[i][2] = h
  <2>1. n >= l /\ First(EmptyLines) = l - 1
    BY <1>8, <1>9
  <2>2. \A i \in 1..(l - 1) : input[i] = x[i + 1]
    <3>1. \A i \in 1..(l - 1) : i \in 1..n /\ i <= l
      BY <2>1
    <3> QED
      BY <1>3, <3>1
  <2>3. h \in Headers <=> \E i \in 1..(l - 1) : input[i][1] = "header" /\ input[i][2] = h
    BY <2>1 DEF Headers
  <2>4. h \in Headers <=> \E i \in 1..(l - 1) : x[i + 1][1] = "header" /\ x[i + 1][2] = h
    BY ONLY <2>2, <2>3, Zenon
  <2>5. ASSUME NEW i \in 1..(l - 1) PROVE i + 1 \in 2..l
    OBVIOUS
  <2>6. ASSUME NEW i \in 2..l PROVE i - 1 \in 1..(l - 1) /\ (i - 1) + 1 = i
    OBVIOUS
  <2> QED
    BY <2>4, <2>5, <2>6
<1>10. ASSUME EmptyLines # {}
       PROVE  u = [resource |-> ws.resource, upgrade |-> "upgrade" \in Headers,
                   key |-> "key" \in Headers]
  <2>1. x[1] = <<"line", ws.resource>> /\ x[1] = line
    BY <1>2, HeadersStart DEF Heads
  <2>2. ws.resource = u.resource
    BY <2>1
  <2>3. u.upgrade \in BOOLEAN /\ u.key \in BOOLEAN
    BY <1>1, RequestTypes
  <2>4. \A h : h \in Headers <=> \E i \in 2..l : x[i][1] = "header" /\ x[i][2] = h
    BY ONLY <1>9, <1>10, Zenon
  <2>5. "upgrade" \in Headers <=> j = 2
    BY ONLY <1>4, <2>4, Zenon
  <2>6. "key" \in Headers <=> k = 2
    BY ONLY <1>4, <2>4, Zenon
  <2>7. ("upgrade" \in Headers <=> u.upgrade) /\ ("key" \in Headers <=> u.key)
    <3>1. (j = 2 <=> u.upgrade) /\ (k = 2 <=> u.key)
      BY ONLY <2>3, j = (IF u.upgrade THEN 2 ELSE 0), k = (IF u.key THEN 2 ELSE 0)
    <3> QED
      BY ONLY <2>5, <2>6, <3>1
  <2>8. u = [resource |-> u.resource, upgrade |-> u.upgrade, key |-> u.key]
    BY <1>1, WebsocketAssumption DEF Request
  <2>9. ("upgrade" \in Headers) = u.upgrade /\ ("key" \in Headers) = u.key
    BY <2>3, <2>7
  <2> QED
    BY <2>2, <2>8, <2>9
<1>11. EmptyLines = {} => n < l
  BY <1>7
<1> QED
  BY <1>8, <1>10, <1>11

LEMMA CodeIs ==
  ASSUME NEW n \in Nat
  PROVE  /\ Code(n) = Extended <=> n > MaxShort
         /\ n <= MaxShort => Code(n) = n
<1>1. MaxShort \in Nat
  BY WebsocketAssumption
<1> QED
  BY <1>1 DEF Code, Extended

LEMMA FrameSizes ==
  ASSUME NEW f \in Frames
  PROVE  /\ Len(f.payload) \in Nat /\ ExtOf(f) \in Nat /\ MaskOf(f) \in Nat
         /\ ExtOf(f) = IF Len(f.payload) > MaxShort THEN ExtOctets ELSE 0
         /\ MaskOf(f) = IF f.mask # "none" THEN MaskOctets ELSE 0
         /\ ExtOctets \in Nat \ {0} /\ MaskOctets \in Nat \ {0}
         /\ ExtOf(f) > 0 <=> Len(f.payload) > MaxShort
         /\ MaskOf(f) > 0 <=> f.mask # "none"
<1>1. Len(f.payload) \in Nat
  BY FrameTypes, LenProperties
<1> QED
  BY <1>1, StreamAssumption DEF ExtOf, MaskOf

(* What the first octets of a frame say of it. *)
StartOf(f) ==
  /\ input[1][2] = f.op /\ input[1][3] = f.fin
  /\ Masked <=> f.mask # "none"
  /\ input[2][3] = Extended <=> Len(f.payload) > MaxShort
  /\ ExtLength = ExtOf(f) /\ MaskLength = MaskOf(f)
  /\ Len(input) >= 2 + ExtOf(f) => PayloadLength = Len(f.payload)

LEMMA FrameStart ==
  ASSUME StreamInv, pc = "loop", ws.state \in {"length", "frame"}, Len(input) >= 2
  PROVE  StartOf(sent[handled + 1])
<1> PICK f : f = sent[handled + 1]
  OBVIOUS
<1> PICK x : x = Octets(f)
  OBVIOUS
<1>1. f \in Frames /\ f \in Units /\ input \in Seq(Mark) /\ Len(input) \in Nat
  BY LoopInput
<1> PICK n \in Nat, e \in Nat, m \in Nat :
           Len(f.payload) = n /\ ExtOf(f) = e /\ MaskOf(f) = m
  BY <1>1, FrameSizes
<1> PICK b, c : b = (f.mask # "none") /\ c = Code(n)
  OBVIOUS
<1>2. /\ Len(x) = 2 + e + m + n
      /\ x[1] = <<"first", f.op, f.fin>> /\ x[2] = <<"second", b, c>>
      /\ e > 0 => x[3] = <<"length", n>>
  BY <1>1, OctetsOfUnit DEF FrameShaped
<1>3. ASSUME NEW i \in 1..Len(input), i <= Len(x) PROVE input[i] = x[i]
  BY <1>3, InputStarts
<1>4. input[1] = x[1] /\ input[2] = x[2]
  <2> PICK k \in Nat, l \in Nat : Len(input) = k /\ Len(x) = l
    BY <1>1, OctetsOfUnit
  <2>0. k >= 2 /\ l >= 2
    BY <1>1, OctetsOfUnit
  <2>1. 1 \in 1..Len(input) /\ 2 \in 1..Len(input) /\ 1 <= Len(x) /\ 2 <= Len(x)
    BY <2>0
  <2> QED
    BY <1>3, <2>1
<1>5. input[1][2] = f.op /\ input[1][3] = f.fin /\ input[2][2] = b /\ input[2][3] = c
  BY <1>2, <1>4
<1>6. (c = Extended <=> n > MaxShort) /\ (n <= MaxShort => c = n)
  BY CodeIs
<1>7. (Masked <=> f.mask # "none") /\ MaskLength = m
  <2>1. Masked <=> f.mask # "none"
    BY <1>5 DEF Masked
  <2> QED
    BY <1>1, <2>1, FrameSizes DEF MaskLength
<1>8. ExtLength = e
  BY <1>1, <1>5, <1>6, FrameSizes DEF ExtLength
<1>9. ASSUME Len(input) >= 2 + e PROVE PayloadLength = n
  <2>1. CASE e = 0
    <3>1. n <= MaxShort
      BY <1>1, <2>1, FrameSizes, WebsocketAssumption
    <3> QED
      BY <1>5, <1>6, <1>8, <2>1, <3>1 DEF PayloadLength
  <2>2. CASE e # 0
    <3>1. 3 \in 1..Len(input) /\ 3 <= Len(x) /\ e > 0
      BY <1>1, <1>2, <1>9, <2>2
    <3>2. input[3] = <<"length", n>>
      BY <1>2, <1>3, <3>1
    <3> QED
      BY <1>8, <2>2, <3>2 DEF PayloadLength
  <2> QED
    BY <2>1, <2>2
<1> QED
  BY <1>5, <1>6, <1>7, <1>8, <1>9 DEF StartOf

(* The frame whose payload is n octets from a place on, with the given mask. *)
UnmaskedOctet(o, mask) == IF o[1] = "data" /\ o[3] = mask THEN o[2] ELSE 255

ReadAt(at, n, mask) ==
  [op |-> input[1][2], fin |-> input[1][3], mask |-> mask,
   payload |-> [i \in 1..n |-> UnmaskedOctet(input[at + i], mask)]]

(* What is read of a whole frame, at the places its first octets say, is that frame. *)
LEMMA FrameFound ==
  ASSUME StreamInv, pc = "loop", ws.state = "frame", Len(input) >= length
  PROVE  FrameRead = sent[handled + 1]
<1> PICK f : f = sent[handled + 1]
  OBVIOUS
<1> PICK x : x = Octets(f)
  OBVIOUS
<1>1. f \in Frames /\ f \in Units /\ input \in Seq(Mark) /\ Len(input) \in Nat
  BY LoopInput
<1> PICK n \in Nat, e \in Nat, m \in Nat :
           Len(f.payload) = n /\ ExtOf(f) = e /\ MaskOf(f) = m
  BY <1>1, FrameSizes
<1>2. /\ Len(x) = 2 + e + m + n
      /\ m > 0 => x[2 + e + m] = <<"mask", f.mask>>
      /\ \A i \in 1..n : x[2 + e + m + i] = <<"data", f.payload[i], f.mask>>
  BY <1>1, OctetsOfUnit DEF FrameShaped
<1>3. length = 2 + e + m + n /\ Len(input) >= 2
  BY <1>1, <1>2 DEF StreamInv, Measured
<1>4. StartOf(f)
  BY <1>3, FrameStart
<1> PICK at \in Nat : 2 + e + m = at
  OBVIOUS
<1>5. 2 + ExtLength + MaskLength = at /\ length - at = n
  BY <1>3, <1>4 DEF StartOf
<1>6. ASSUME NEW i \in 1..(at + n) PROVE input[i] = x[i]
  <2>1. i \in 1..Len(input) /\ i <= Len(x)
    BY <1>1, <1>2, <1>3
  <2> QED
    BY <2>1, InputStarts
<1>7. (IF Masked THEN input[at][2] ELSE "none") = f.mask
  <2>1. CASE f.mask # "none"
    <3>1. m > 0 /\ Masked
      BY <1>1, <1>4, <2>1, FrameSizes DEF StartOf
    <3>2. at \in 1..(at + n)
      BY <3>1
    <3>3. input[at] = <<"mask", f.mask>>
      BY <1>2, <1>6, <3>1, <3>2
    <3> QED
      BY <3>1, <3>3
  <2>2. CASE f.mask = "none"
    BY <1>4, <2>2 DEF StartOf
  <2> QED
    BY <2>1, <2>2
<1>8. ASSUME NEW i \in 1..n PROVE UnmaskedOctet(input[at + i], f.mask) = f.payload[i]
  <2>1. at + i \in 1..(at + n)
    OBVIOUS
  <2>2. input[at + i] = <<"data", f.payload[i], f.mask>>
    BY <1>2, <1>6, <2>1
  <2> QED
    BY <2>2 DEF UnmaskedOctet
<1>9. f \in Frame
  BY <1>1, WebsocketAssumption
<1>10. f.payload = [i \in 1..n |-> UnmaskedOctet(input[at + i], f.mask)]
  <2>1. f.payload \in Seq(Octet)
    BY <1>9 DEF Frame
  <2>2. f.payload = [i \in 1..n |-> f.payload[i]]
    BY <2>1
  <2>3. [i \in 1..n |-> f.payload[i]] = [i \in 1..n |-> UnmaskedOctet(input[at + i], f.mask)]
    BY <1>8
  <2> QED
    BY <2>2, <2>3
<1>11. f = [op |-> f.op, fin |-> f.fin, mask |-> f.mask, payload |-> f.payload]
  BY <1>9 DEF Frame
<1>12. FrameRead = ReadAt(at, n, f.mask)
  <2>1. FrameRead = ReadAt(2 + ExtLength + MaskLength, length - (2 + ExtLength + MaskLength),
                           IF Masked THEN input[2 + ExtLength + MaskLength][2] ELSE "none")
    BY DEF FrameRead, ReadAt, UnmaskedOctet
  <2> QED
    BY <1>5, <1>7, <2>1
<1>13. input[1][2] = f.op /\ input[1][3] = f.fin
  BY <1>4 DEF StartOf
<1>14. ReadAt(at, n, f.mask) = [op |-> f.op, fin |-> f.fin, mask |-> f.mask, payload |-> f.payload]
  BY <1>10, <1>13 DEF ReadAt
<1> QED
  BY <1>11, <1>12, <1>14

-----------------------------------------------------------------------------
(* The buffer after a step. *)

BufferInv == BufferTypes /\ Placed /\ Flow /\ Looping /\ Waiting /\ Measured

LEMMA RestNone ==
  ASSUME NEW S, NEW s \in Seq(S)
  PROVE  Rest(s, 0) = s
<1>1. 0 \in 0..Len(s)
  BY LenProperties
<1>2. Rest(s, 0) \in Seq(S) /\ Joined(Beginning(s, 0), Rest(s, 0)) = s
  BY <1>1, SplitAt
<1>3. Beginning(s, 0) = <<>>
  BY BeginningIs
<1> QED
  BY <1>2, <1>3, JoinedNothing

(* What the parser leaves stays at the end of the char_buffer. *)
LEMMA PlacedKept ==
  ASSUME BufferTypes, Placed, NEW n \in 0..Len(input), input' = Rest(input, n),
         kept' = kept, shared' = shared, pc' # "idle"
  PROVE  Placed' /\ input' \in Seq(Mark)
<1>1. /\ input \in Seq(Mark) /\ Beginning(input, n) \in Seq(Mark) /\ Rest(input, n) \in Seq(Mark)
      /\ Joined(Beginning(input, n), Rest(input, n)) = input
  BY SplitAt DEF BufferTypes
<1>2. ASSUME ~shared PROVE \E before \in Seq(Mark) : Joined(before, Rest(input, n)) = kept
  <2> PICK before \in Seq(Mark) : Joined(before, input) = kept
    BY <1>2 DEF Placed
  <2> PICK b, r : b = Beginning(input, n) /\ r = Rest(input, n)
    OBVIOUS
  <2>1. Joined(before, b) \in Seq(Mark)
    BY <1>1, JoinedType
  <2>2. Joined(Joined(before, b), r) = kept
    BY <1>1, JoinedSplits
  <2> QED
    BY <2>1, <2>2
<1> QED
  BY <1>1, <1>2 DEF Placed

(* Nothing is buffered of the next unit. *)
LEMMA NothingWaitsYet ==
  ASSUME Inv', Unused' = <<>>
  PROVE  Waiting'
<1>1. ASSUME handled' < Len(sent') PROVE Len(Octets(sent'[handled' + 1])) > 0
  <2>1. sent' \in Seq(Units) /\ handled' \in 0..Len(sent')
    BY DEF Inv, TypeOK, Units
  <2> PICK s \in Seq(Units) : s = sent'
    BY <2>1
  <2> PICK k \in 0..Len(s) : handled' = k
    BY <2>1
  <2> PICK l \in Nat : Len(s) = l
    BY LenProperties
  <2>2. k \in 0..l /\ k < l
    BY <1>1
  <2>3. k + 1 \in 1..l
    <3>1. \A j \in 0..l : j < l => j + 1 \in 1..l
      OBVIOUS
    <3> QED
      BY <2>2, <3>1
  <2>4. s[k + 1] \in Units
    BY <2>3, ElementOfSeq
  <2>5. sent'[handled' + 1] \in Units
    BY <2>4
  <2> PICK o : o = Octets(sent'[handled' + 1])
    OBVIOUS
  <2>6. Len(o) \in Nat /\ Len(o) >= 2
    BY <2>5, OctetsOfUnit
  <2>7. Len(o) > 0
    BY <2>6
  <2> QED
    BY <2>7
<1>2. Len(Unused') = 0
  BY EmptySeq
<1> QED
  BY <1>1, <1>2 DEF Waiting

LEMMA NoneParsed ==
  ASSUME ws'.state # "headers", Buffered' \in Seq(Mark)
  PROVE  Unused' = Buffered'
<1>1. Parsed' = <<>>
  BY DEF Parsed
<1>2. Unused' = Joined(<<>>, Buffered')
  BY <1>1 DEF Unused
<1> QED
  BY <1>2, JoinedNothing

LEMMA ConsumeIs ==
  ASSUME StreamInv, pc = "loop", NEW n \in 0..Len(input), Consume(n),
         needed' \in 0..(2 + ExtOctets), length' \in Nat
  PROVE  /\ BufferTypes' /\ Placed' /\ Looping' /\ pc' \in {"loop", "end"}
         /\ pc' = "end" => Dead' \/ input' = <<>>
         /\ input' = Rest(input, n) /\ wire' = wire
         /\ Buffered' = input' /\ Buffered' \in Seq(Mark)
<1>1. /\ input' = Rest(input, n)
      /\ pc' = IF Dead' \/ input' = <<>> THEN "end" ELSE "loop"
      /\ wire' = wire /\ kept' = kept /\ shared' = shared
  BY DEF Consume, Skip, Rest, Dead
<1>2. pc' \in {"loop", "end"} /\ pc' # "idle"
  BY <1>1
<1>3. Placed' /\ input' \in Seq(Mark)
  BY <1>1, <1>2, PlacedKept DEF StreamInv
<1>4. BufferTypes'
  BY <1>1, <1>2, <1>3 DEF StreamInv, BufferTypes
<1>5. Looping'
  BY <1>1 DEF Looping
<1>6. Buffered' = input'
  BY <1>2 DEF Buffered
<1> QED
  BY <1>1, <1>2, <1>3, <1>4, <1>5, <1>6

(* A connection that ended. *)
LEMMA EndedBuffer ==
  ASSUME StreamInv, pc = "loop", NEW n \in 0..Len(input), Consume(n),
         needed' \in 0..(2 + ExtOctets), length' \in Nat, Dead'
  PROVE  BufferInv'
<1>1. BufferTypes' /\ Placed' /\ Looping'
  BY ConsumeIs
<1>2. ws'.state # "frame"
  BY DEF Dead
<1> QED
  BY <1>1, <1>2 DEF BufferInv, Flow, Waiting, Measured

(* A unit has been handled, and its octets are used. *)
LEMMA HandledBuffer ==
  ASSUME StreamInv, pc = "loop", Inv', NEW n \in 0..Len(input), Consume(n),
         needed' \in 0..(2 + ExtOctets), length' \in Nat,
         Len(Octets(sent[handled + 1])) = Len(Parsed) + n,
         sent' = sent, handled' = handled + 1, ws'.state \notin {"headers", "frame"}
  PROVE  BufferInv'
<1>1. /\ BufferTypes' /\ Placed' /\ Looping' /\ pc' \in {"loop", "end"}
      /\ pc' = "end" => Dead' \/ input' = <<>>
      /\ input' = Rest(input, n) /\ wire' = wire
      /\ Buffered' = input' /\ Buffered' \in Seq(Mark)
  BY ConsumeIs
<1>2. Unused' = input'
  BY <1>1, NoneParsed
<1>3. FlattenSeq(Tail(Left)) = Joined(Rest(input, n), wire)
  BY UnitTaken
<1>4. Left' = Tail(Left)
  BY LoopInput, LeftTail DEF StreamInv
<1>5. Flow'
  BY <1>1, <1>2, <1>3, <1>4 DEF Flow
<1>6. Waiting'
  <2>1. CASE pc' = "loop" \/ Dead'
    BY <2>1 DEF Waiting
  <2>2. CASE pc' = "end" /\ ~Dead'
    BY <1>1, <1>2, <2>2, NothingWaitsYet
  <2> QED
    BY <1>1, <2>1, <2>2
<1> QED
  BY <1>1, <1>5, <1>6 DEF BufferInv, Measured

(* More octets are needed. *)
LEMMA ShortBuffer ==
  ASSUME StreamInv, pc = "loop", NeedMore,
         needed' \in 0..(2 + ExtOctets), length' \in Nat,
         ws.state = "frame" => needed' = needed /\ length' = length,
         Len(Unused) < Len(Octets(sent[handled + 1]))
  PROVE  BufferInv'
<1>1. /\ pc' = "end" /\ wire' = wire /\ kept' = kept /\ input' = input /\ shared' = shared
      /\ sent' = sent /\ handled' = handled /\ ws' = ws
  BY DEF NeedMore, vars
<1>2. /\ Left' = Left /\ Parsed' = Parsed /\ Buffered' = Buffered /\ (Dead' <=> Dead)
      /\ Unused' = Unused
  BY <1>1 DEF Left, Parsed, Buffered, Dead, Unused
<1>3. BufferTypes' /\ Placed' /\ Looping'
  BY <1>1 DEF StreamInv, BufferTypes, Placed, Looping
<1>4. Flow' /\ Waiting'
  BY <1>1, <1>2 DEF StreamInv, Flow, Waiting
<1>5. Measured'
  BY <1>1 DEF StreamInv, Measured
<1> QED
  BY <1>3, <1>4, <1>5 DEF BufferInv

(* The line of a request has been used. *)
LEMMA LineBuffer ==
  ASSUME StreamInv, pc = "loop", ws.state = "request", Crlfs # {}, Consume(1),
         needed' = needed, length' = length, sent' = sent, handled' = handled,
         ws'.state = "headers", ws'.resource = sent[handled + 1].resource
  PROVE  BufferInv'
<1>1. /\ 1 \in 0..Len(input) /\ Len(input) >= 2 /\ input \in Seq(Mark) /\ Len(input) \in Nat
      /\ input[1] = <<"line", ws'.resource>> /\ Unused = Joined(Parsed, input)
  BY LineFound, LoopInput
<1>2. BufferTypes /\ ~Dead /\ Parsed = <<>>
  BY LoopInput DEF StreamInv, Looping, Parsed
<1>3. /\ BufferTypes' /\ Placed' /\ Looping' /\ pc' \in {"loop", "end"}
      /\ pc' = "end" => Dead' \/ input' = <<>>
      /\ input' = Rest(input, 1) /\ wire' = wire
      /\ Buffered' = input' /\ Buffered' \in Seq(Mark)
  BY <1>1, <1>2, ConsumeIs DEF BufferTypes
<1> PICK b, r, y : b = Beginning(input, 1) /\ r = Rest(input, 1) /\ y = <<"line", ws'.resource>>
  OBVIOUS
<1>4. /\ b \in Seq(Mark) /\ r \in Seq(Mark) /\ Len(b) = 1 /\ b[1] = y /\ Joined(b, r) = input
  <2>1. /\ Beginning(input, 1) \in Seq(Mark) /\ Rest(input, 1) \in Seq(Mark)
        /\ Len(Beginning(input, 1)) = 1 /\ \A i \in 1..1 : Beginning(input, 1)[i] = input[i]
        /\ Joined(Beginning(input, 1), Rest(input, 1)) = input
    BY <1>1, SplitAt
  <2>2. 1 \in 1..1
    OBVIOUS
  <2> QED
    BY <1>1, <2>1, <2>2
<1>5. b = <<y>>
  <2>1. y \in Mark
    <3>1. 1 \in 1..Len(b)
      BY <1>4
    <3> QED
      BY <1>4, <3>1, ElementOfSeq
  <2>2. <<y>> \in Seq(Mark) /\ Len(<<y>>) = 1 /\ <<y>>[1] = y
    BY <2>1
  <2>3. \A i \in 1..1 : b[i] = <<y>>[i]
    BY <1>4, <2>2
  <2> QED
    BY <1>4, <2>2, <2>3, SameSequence
<1>6. Unused' = input
  <2>1. Parsed' = b
    BY <1>5 DEF Parsed
  <2> QED
    BY <1>3, <1>4, <2>1 DEF Unused
<1>7. Unused = input
  BY <1>1, <1>2, JoinedNothing
<1>8. Flow'
  <2>1. Left' = Left
    BY DEF Left
  <2> QED
    BY <1>2, <1>3, <1>6, <1>7, <2>1 DEF StreamInv, Flow
<1>9. pc' = "loop"
  <2>1. Len(r) = Len(input) - 1
    <3>1. Len(input) = Len(b) + Len(r) /\ Len(r) \in Nat
      BY <1>4, JoinedElements
    <3> QED
      BY <1>4, <3>1
  <2>2. Len(r) # 0
    BY <1>1, <2>1
  <2>3. input' # <<>>
    BY <1>3, <2>2, EmptySeq
  <2>4. ~Dead'
    BY DEF Dead
  <2> QED
    BY <1>3, <2>3, <2>4
<1> QED
  BY <1>3, <1>8, <1>9 DEF BufferInv, Waiting, Measured

(* The length of a frame has become known. *)
LEMMA LengthBuffer ==
  ASSUME StreamInv, pc = "loop", ws.state = "length", Consume(0),
         sent' = sent, handled' = handled, ws'.state = "frame",
         needed' = 0, length' = Len(Octets(sent[handled + 1])), length' \in Nat
  PROVE  BufferInv'
<1>1. /\ 0 \in 0..Len(input) /\ input \in Seq(Mark) /\ input # <<>> /\ handled < Len(sent)
      /\ Unused = Joined(Parsed, input) /\ needed' \in 0..(2 + ExtOctets)
  BY LoopInput, StreamAssumption
<1>2. /\ BufferTypes' /\ Placed' /\ Looping' /\ pc' \in {"loop", "end"}
      /\ pc' = "end" => Dead' \/ input' = <<>>
      /\ input' = Rest(input, 0) /\ wire' = wire /\ Buffered' = input'
  BY <1>1, ConsumeIs
<1>3. input' = input
  BY <1>1, <1>2, RestNone
<1>4. ~Dead /\ ~Dead' /\ Parsed = <<>> /\ Parsed' = <<>> /\ Left' = Left
  BY DEF Dead, Parsed, Left
<1>5. Unused' = Unused
  BY <1>1, <1>2, <1>3, <1>4 DEF Unused
<1>6. Flow'
  BY <1>2, <1>4, <1>5 DEF StreamInv, Flow
<1>7. pc' = "loop"
  BY <1>1, <1>2, <1>3, <1>4
<1> QED
  BY <1>1, <1>2, <1>6, <1>7 DEF BufferInv, Waiting, Measured

-----------------------------------------------------------------------------
(* The loop. *)

(* The length of the next frame is known, which no unit is handled by. *)
LengthKnown ==
  /\ ws.state = "length" /\ ws' = [ws EXCEPT !.state = "frame"]
  /\ UNCHANGED <<sent, handled, page, out, forwarded, data>>

(* What a step on octets is to the connection. *)
UnitStep == [Next]_vars \/ LengthKnown

LEMMA LengthKnownInv ==
  ASSUME Inv, LengthKnown
  PROVE  Inv' /\ ws'.state = "frame"
<1>1. /\ sent' = sent /\ handled' = handled /\ page' = page /\ out' = out
      /\ forwarded' = forwarded /\ data' = data /\ Upgraded
      /\ ws' = [ws EXCEPT !.state = "frame"]
  BY DEF LengthKnown, Upgraded
<1>2. ws \in Connection
  BY DEF Inv, TypeOK
<1>3. /\ ws' \in Connection /\ ws'.state = "frame" /\ ws'.sentClose = ws.sentClose
      /\ ws'.continued = ws.continued /\ ws'.data = ws.data
  BY <1>1, <1>2 DEF Connection
<1>4. /\ handled \in 0..Len(sent) /\ handled >= handled
      /\ page \in {"never", "held", "lost"} /\ data \in Nat
      /\ forwarded \in Seq([data: Seq(Octet), last: Nat])
      /\ ws.continued = "none" => ws.data = <<>>
  BY LenProperties DEF Inv, TypeOK, Held
<1>5. /\ handled' \in 0..Len(sent) /\ handled' >= handled
      /\ page' \in {"never", "held", "lost"} /\ data' \in Nat
      /\ forwarded' \in Seq([data: Seq(Octet), last: Nat])
      /\ ws'.continued = "none" => ws'.data = <<>>
      /\ Upgraded /\ ws'.state \notin {"request", "headers"}
  BY <1>1, <1>3, <1>4
<1>6. Inv'
  BY <1>1, <1>3, <1>5, QuietInv
<1> QED
  BY <1>3, <1>6

LEMMA UnitStepInv ==
  ASSUME Inv, UnitStep
  PROVE  Inv'
  BY StepInv, LengthKnownInv DEF UnitStep

LEMMA RequestLoop ==
  ASSUME StreamInv, pc = "loop", LoopRequest
  PROVE  UnitStep /\ BufferInv'
<1> PICK u : u = sent[handled + 1]
  OBVIOUS
<1>1. /\ ws.state = "request" /\ needed' = needed /\ length' = length
      /\ needed \in 0..(2 + ExtOctets) /\ length \in Nat
  BY DEF LoopRequest, StreamInv, BufferTypes
<1>2. handled < Len(sent) /\ u \in Units
  BY LoopInput
<1>3. CASE Crlfs = {} /\ NeedMore
  <2>1. UnitStep
    BY <1>3 DEF UnitStep, NeedMore
  <2>2. Len(Unused) = Len(input) /\ Len(input) < 2 /\ Len(input) \in Nat
    BY <1>1, <1>3, InputStarts, LineFound, LoopInput
  <2>3. Len(Octets(u)) \in Nat /\ Len(Octets(u)) >= 2
    BY <1>2, OctetsOfUnit
  <2>4. Len(Unused) < Len(Octets(u))
    BY <2>2, <2>3
  <2> QED
    BY <1>1, <1>3, <2>1, <2>4, ShortBuffer
<1>4. ASSUME Crlfs # {}, RecvRequest([resource |-> RequestLine]), Consume(First(Crlfs) - 1)
      PROVE  UnitStep /\ BufferInv'
  <2>1. RequestLine = u.resource /\ First(Crlfs) = 2 /\ Len(input) >= 2 /\ Len(input) \in Nat
    BY <1>1, <1>4, LineFound, LoopInput
  <2>2. Consume(1)
    <3>1. First(Crlfs) - 1 = 1
      BY <2>1
    <3> QED
      BY <1>4, <3>1
  <2>3. RecvRequest(u)
    BY <1>4, <2>1 DEF RecvRequest
  <2>4. UnitStep
    BY <1>1, <1>2, <2>3 DEF UnitStep, Next, RecvUnit, RequestNext
  <2>5. sent' = sent /\ handled' = handled /\ ws \in Connection
    BY <2>3 DEF RecvRequest, StreamInv, Inv, TypeOK
  <2>6. CASE u.resource = "malformed"
    <3>1. Dead'
      BY <2>3, <2>5, <2>6 DEF RecvRequest, Fail, Dead, Connection
    <3>2. 1 \in 0..Len(input)
      BY <2>1
    <3> QED
      BY <1>1, <2>2, <2>4, <3>1, <3>2, EndedBuffer
  <2>7. CASE u.resource # "malformed"
    <3>1. ws' = [ws EXCEPT !.state = "headers", !.resource = u.resource]
      BY <2>3, <2>7 DEF RecvRequest
    <3>2. ws'.state = "headers" /\ ws'.resource = u.resource
      BY <2>5, <3>1 DEF Connection
    <3> QED
      BY <1>1, <1>4, <2>2, <2>4, <2>5, <3>2, LineBuffer
  <2> QED
    BY <2>6, <2>7
<1> QED
  BY <1>3, <1>4 DEF LoopRequest

LEMMA HeadersLoop ==
  ASSUME StreamInv, pc = "loop", LoopHeaders
  PROVE  UnitStep /\ BufferInv'
<1> PICK u : u = sent[handled + 1]
  OBVIOUS
<1> PICK l : l = Len(Octets(u)) - 1
  OBVIOUS
<1>1. /\ ws.state = "headers" /\ needed' = needed /\ length' = length
      /\ needed \in 0..(2 + ExtOctets) /\ length \in Nat
  BY DEF LoopHeaders, StreamInv, BufferTypes
<1>2. handled < Len(sent) /\ u \in Units /\ Len(input) \in Nat
  BY LoopInput
<1>3. Len(Unused) = Len(input) + 1 /\ Len(Parsed) = 1
  BY <1>1, HeadersStart
<1>4. Len(Octets(u)) \in Nat /\ Len(Octets(u)) = 1 + l /\ l \in Int
  <2>1. Len(Octets(u)) \in Nat
    BY <1>2, OctetsOfUnit
  <2> QED
    BY <2>1
<1>5. CASE EmptyLines = {} /\ NeedMore
  <2>1. UnitStep
    BY <1>5 DEF UnitStep, NeedMore
  <2>2. Len(input) < l
    BY <1>1, <1>5, HeadersFound
  <2>3. Len(Unused) < Len(Octets(u))
    BY <1>2, <1>3, <1>4, <2>2
  <2> QED
    BY <1>1, <1>5, <2>1, <2>3, ShortBuffer
<1>6. ASSUME EmptyLines # {}, Consume(First(EmptyLines) + 1),
             NEW b \in BOOLEAN, NEW sends \in BOOLEAN,
             LET r == [resource |-> ws.resource, upgrade |-> "upgrade" \in Headers,
                       key |-> "key" \in Headers]
             IN  PlainRequest(r, b, sends) \/ UpgradeRequest(r, b, sends)
      PROVE  UnitStep /\ BufferInv'
  <2>1. /\ Len(input) >= l /\ First(EmptyLines) = l - 1 /\ l \in Nat
        /\ u = [resource |-> ws.resource, upgrade |-> "upgrade" \in Headers,
                key |-> "key" \in Headers]
    BY <1>1, <1>6, HeadersFound
  <2>2. PlainRequest(u, b, sends) \/ UpgradeRequest(u, b, sends)
    BY <1>6, <2>1
  <2>3. UnitStep
    BY <1>1, <1>2, <2>2 DEF UnitStep, Next, RecvUnit, RequestNext
  <2>4. Consume(l) /\ l \in 0..Len(input)
    <3>1. First(EmptyLines) + 1 = l
      BY <2>1
    <3> QED
      BY <1>2, <1>6, <2>1, <3>1
  <2>5. /\ sent' = sent /\ handled' = handled + 1
        /\ ws'.state \notin {"headers", "frame"}
    <3>1. ws \in Connection
      BY DEF StreamInv, Inv, TypeOK
    <3> QED
      BY <2>2, <3>1 DEF PlainRequest, UpgradeRequest, Connection
  <2>6. Inv'
    BY <2>3, UnitStepInv DEF StreamInv
  <2>7. Len(Octets(sent[handled + 1])) = Len(Parsed) + l
    BY <1>3, <1>4
  <2> QED
    BY <1>1, <2>3, <2>4, <2>5, <2>6, <2>7, HandledBuffer
<1> QED
  BY <1>5, <1>6 DEF LoopHeaders

LEMMA FrameOutcome ==
  ASSUME Inv, NEW f \in Frames, FrameNext(f)
  PROVE  /\ sent' = sent
         /\ \/ ws'.state = "error"
            \/ handled' = handled + 1 /\ ws'.state \notin {"headers", "frame"}
         /\ handled' = handled + 1 \/ (handled' = handled /\ ws'.state = "error")
<1>1. TypeOK /\ Held
  BY DEF Inv
<1>2. Fail => ws'.state = "error"
  BY <1>1, FailType
<1>3. Valid(f) => /\ After(f).state \in {"closed", "length"}
                  /\ [After(f) EXCEPT !.sentClose = TRUE].state = After(f).state
                  /\ After(f) \in Connection
  BY <1>1, AfterType DEF Connection
<1>4. CASE RefuseFrame(f)
  BY <1>2, <1>4 DEF RefuseFrame
<1>5. CASE RecvFragment(f)
  BY <1>3, <1>5 DEF RecvFragment
<1>6. ASSUME Valid(f), NEW op, NEW payload, NEW sends \in BOOLEAN, Reply(f, op, payload, sends)
      PROVE  sent' = sent /\ handled' = handled + 1 /\ ws'.state \in {"error", "closed", "length"}
  <2>1. sent' = sent /\ handled' = handled + 1
    BY <1>6 DEF Reply
  <2>2. \/ ws' = [After(f) EXCEPT !.sentClose = @ \/ op = "close"]
        \/ Fail
    BY <1>6 DEF Reply
  <2>3. [After(f) EXCEPT !.sentClose = @ \/ op = "close"].state = After(f).state
    BY <1>3, <1>6 DEF Connection
  <2> QED
    BY <1>2, <1>3, <1>6, <2>1, <2>2, <2>3
<1>7. ASSUME NEW sends \in BOOLEAN, RejectMessage(f, sends)
      PROVE  sent' = sent /\ handled' = handled + 1 /\ ws'.state \in {"error", "closed", "length"}
  BY <1>6, <1>7 DEF RejectMessage
<1>8. ASSUME NEW sends \in BOOLEAN, ForwardMessage(f, sends)
      PROVE  sent' = sent /\ handled' = handled + 1 /\ ws'.state \in {"error", "closed", "length"}
  BY <1>2, <1>3, <1>8 DEF ForwardMessage
<1>9. ASSUME NEW sends \in BOOLEAN, RecvControl(f, sends)
      PROVE  sent' = sent /\ handled' = handled + 1 /\ ws'.state \in {"error", "closed", "length"}
  <2>1. CASE f.op = "pong" /\ ws' = After(f) /\ handled' = handled + 1 /\ sent' = sent
    BY <1>3, <1>9, <2>1 DEF RecvControl
  <2>2. CASE \E op, payload : Reply(f, op, payload, sends)
    BY <1>6, <1>9, <2>2 DEF RecvControl
  <2> QED
    BY <1>9, <2>1, <2>2 DEF RecvControl
<1> QED
  BY <1>4, <1>5, <1>7, <1>8, <1>9, <1>2, <1>3 DEF FrameNext, RefuseFrame, RecvFragment

LEMMA LengthLoop ==
  ASSUME StreamInv, pc = "loop", LoopFrameLength
  PROVE  UnitStep /\ BufferInv'
<1> PICK f : f = sent[handled + 1]
  OBVIOUS
<1> PICK x : x = Octets(f)
  OBVIOUS
<1>1. ws.state = "length" /\ Inv
  BY DEF LoopFrameLength, StreamInv
<1>2. /\ handled < Len(sent) /\ f \in Frames /\ f \in Units /\ Len(input) \in Nat
      /\ Len(Unused) = Len(input) /\ Upgraded
  BY <1>1, LoopInput, InputStarts DEF Upgraded
<1> PICK n \in Nat, e \in Nat, m \in Nat :
           Len(f.payload) = n /\ ExtOf(f) = e /\ MaskOf(f) = m
  BY <1>2, FrameSizes
<1>3. Len(x) = 2 + e + m + n /\ e \in {0, ExtOctets}
  BY <1>2, OctetsOfUnit, FrameSizes DEF FrameShaped
<1>4. ASSUME Len(input) >= 2 PROVE StartOf(f)
  BY <1>1, <1>4, FrameStart
<1>5. /\ 0 \in 0..Len(input)
      /\ 0 \in 0..(2 + ExtOctets) /\ 2 \in 0..(2 + ExtOctets) /\ 2 + e \in 0..(2 + ExtOctets)
      /\ 0 \in Nat
  BY <1>2, <1>3, StreamAssumption
<1>6. ASSUME Len(input) < 2, needed' = 2, length' = 0, NeedMore
      PROVE  UnitStep /\ BufferInv'
  <2>1. UnitStep
    BY <1>6 DEF UnitStep, NeedMore
  <2>2. Len(Unused) < Len(x)
    BY <1>2, <1>3, <1>6
  <2> QED
    BY <1>1, <1>5, <1>6, <2>1, <2>2, ShortBuffer
<1>7. ASSUME Len(input) >= 2, InvalidStart(input[1][2], input[1][3], input[2][3] = Extended),
             Fail, needed' = 0, length' = 0,
             UNCHANGED <<sent, handled, page, out, forwarded, data>>, Consume(0)
      PROVE  UnitStep /\ BufferInv'
  <2>1. ~Valid(f)
    BY <1>4, <1>7 DEF StartOf, Valid, InvalidStart
  <2>2. RefuseFrame(f)
    BY <1>2, <1>7, <2>1 DEF RefuseFrame
  <2>3. UnitStep
    BY <1>2, <2>2 DEF UnitStep, Next, RecvUnit, FrameNext
  <2>4. Dead'
    BY <1>1, <1>7, FailType DEF Inv, Dead
  <2> QED
    BY <1>5, <1>7, <2>3, <2>4, EndedBuffer
<1>8. ASSUME Len(input) >= 2, Len(input) < 2 + ExtLength, needed' = 2 + ExtLength,
             length' = 0, NeedMore
      PROVE  UnitStep /\ BufferInv'
  <2>1. UnitStep
    BY <1>8 DEF UnitStep, NeedMore
  <2>2. ExtLength = e
    BY <1>4, <1>8 DEF StartOf
  <2>3. Len(Unused) < Len(x)
    BY <1>2, <1>3, <1>8, <2>2
  <2> QED
    BY <1>1, <1>5, <1>8, <2>1, <2>2, <2>3, ShortBuffer
<1>9. ASSUME Len(input) >= 2, ~(Len(input) < 2 + ExtLength), needed' = 0,
             length' = 2 + ExtLength + MaskLength + PayloadLength,
             ws' = [ws EXCEPT !.state = "frame"],
             UNCHANGED <<sent, handled, page, out, forwarded, data>>, Consume(0)
      PROVE  UnitStep /\ BufferInv'
  <2>1. ExtLength = e /\ MaskLength = m
    BY <1>4, <1>9 DEF StartOf
  <2>2. Len(input) >= 2 + e
    BY <1>2, <1>9, <2>1
  <2>3. PayloadLength = n
    BY <1>4, <1>9, <2>2 DEF StartOf
  <2>4. length' = Len(x) /\ length' \in Nat
    BY <1>3, <1>9, <2>1, <2>3
  <2>5. LengthKnown
    BY <1>1, <1>9 DEF LengthKnown
  <2>6. ws'.state = "frame"
    BY <1>1, <2>5, LengthKnownInv
  <2> QED
    BY <1>1, <1>9, <2>4, <2>5, <2>6, LengthBuffer DEF UnitStep
<1> QED
  BY <1>6, <1>7, <1>8, <1>9 DEF LoopFrameLength

LEMMA FrameLoop ==
  ASSUME StreamInv, pc = "loop", LoopFrame
  PROVE  UnitStep /\ BufferInv'
<1> PICK f : f = sent[handled + 1]
  OBVIOUS
<1>1. /\ ws.state = "frame" /\ Inv /\ needed' = needed /\ length' = length
      /\ needed \in 0..(2 + ExtOctets) /\ length \in Nat
      /\ needed = 0 /\ length = Len(Octets(f))
  BY DEF LoopFrame, StreamInv, BufferTypes, Measured
<1>2. /\ handled < Len(sent) /\ f \in Frames /\ f \in Units /\ Len(input) \in Nat
      /\ Len(Unused) = Len(input) /\ Upgraded /\ Len(Parsed) = 0
  BY <1>1, LoopInput, InputStarts DEF Upgraded
<1>3. length >= 2
  BY <1>1, <1>2, OctetsOfUnit
<1>4. CASE ShortOfFrame /\ NeedMore
  <2>1. UnitStep
    BY <1>4 DEF UnitStep, NeedMore
  <2>2. Len(Unused) < Len(Octets(f))
    BY <1>1, <1>2, <1>3, <1>4 DEF ShortOfFrame
  <2> QED
    BY <1>1, <1>4, <2>1, <2>2, ShortBuffer
<1>5. CASE ~ShortOfFrame /\ FrameNext(FrameRead) /\ Consume(length)
  <2>1. Len(input) >= length /\ length \in 0..Len(input)
    BY <1>1, <1>2, <1>5 DEF ShortOfFrame
  <2>2. FrameRead = f
    BY <1>1, <2>1, FrameFound
  <2>3. FrameNext(f)
    BY <1>5, <2>2
  <2>4. UnitStep
    BY <1>2, <2>3 DEF UnitStep, Next, RecvUnit
  <2>5. Inv'
    BY <1>1, <2>4, UnitStepInv
  <2>6. Len(Octets(sent[handled + 1])) = Len(Parsed) + length
    BY <1>1, <1>2
  <2>7. CASE ws'.state = "error"
    <3>1. Dead'
      BY <2>7 DEF Dead
    <3> QED
      BY <1>1, <1>5, <2>1, <2>4, <3>1, EndedBuffer
  <2>8. CASE handled' = handled + 1 /\ ws'.state \notin {"headers", "frame"}
    <3>1. sent' = sent
      BY <1>1, <1>2, <2>3, FrameOutcome
    <3> QED
      BY <1>1, <1>5, <2>1, <2>4, <2>5, <2>6, <2>8, <3>1, HandledBuffer
  <2> QED
    BY <1>1, <1>2, <2>3, <2>7, <2>8, FrameOutcome
<1> QED
  BY <1>4, <1>5 DEF LoopFrame

-----------------------------------------------------------------------------
(* The buffer outside the loop. *)

LEMMA EndLoop ==
  ASSUME StreamInv, EndInput
  PROVE  UnitStep /\ BufferInv'
<1>1. /\ BufferTypes /\ Placed /\ Flow /\ Waiting /\ Measured /\ Inv
      /\ kept \in Seq(Mark) /\ input \in Seq(Mark) /\ wire \in Seq(Mark)
  BY DEF StreamInv, BufferTypes
<1>2. /\ pc = "end" /\ pc' = "idle" /\ input' = <<>> /\ shared' = FALSE
      /\ wire' = wire /\ needed' = needed /\ length' = length /\ vars' = vars
      /\ kept' = IF shared THEN Joined(kept, input) ELSE Rest(kept, Len(kept) - Len(input))
  BY <1>1 DEF EndInput, Joined, Rest
<1>3. /\ sent' = sent /\ handled' = handled /\ ws' = ws
  BY <1>2 DEF vars
<1>4. kept' = input
  <2>1. CASE shared
    <3>1. kept' = Joined(<<>>, input)
      BY <1>1, <1>2, <2>1 DEF Placed
    <3> QED
      BY <1>1, <3>1, JoinedNothing
  <2>2. CASE ~shared
    <3> PICK before \in Seq(Mark) : Joined(before, input) = kept
      BY <1>1, <2>2 DEF Placed
    <3> PICK l \in Nat, k \in Nat : Len(before) = l /\ Len(input) = k
      BY <1>1, LenProperties
    <3>1. Len(kept) = l + k
      BY <1>1, JoinedElements
    <3>2. Len(kept) - Len(input) = l
      BY <3>1
    <3>3. kept' = Rest(kept, l)
      BY <1>2, <2>2, <3>2
    <3>4. 0 \in 0..Len(input) /\ l = Len(before) + 0
      BY <1>1, LenProperties
    <3>5. Rest(Joined(before, input), l) = Rest(input, 0)
      BY <1>1, <3>4, RestOfJoined
    <3>6. Rest(input, 0) = input
      BY <1>1, RestNone
    <3>7. Rest(kept, l) = input
      BY <3>5, <3>6
    <3> QED
      BY <3>3, <3>7
  <2> QED
    BY <2>1, <2>2
<1>5. Buffered = input /\ Buffered' = kept' /\ Left' = Left /\ Parsed' = Parsed /\ (Dead' <=> Dead)
  BY <1>2, <1>3 DEF Buffered, Left, Parsed, Dead
<1>6. Unused' = Unused
  BY <1>4, <1>5 DEF Unused
<1>7. BufferTypes'
  <2>1. <<>> \in Seq(Mark)
    BY EmptySeq
  <2> QED
    BY <1>1, <1>2, <1>4, <2>1 DEF BufferTypes
<1>8. Placed'
  <2>1. Joined(input, <<>>) = input
    BY <1>1, JoinedNothing
  <2> QED
    BY <1>1, <1>2, <1>4, <2>1 DEF Placed
<1>9. Flow' /\ Waiting'
  BY <1>1, <1>2, <1>3, <1>5, <1>6 DEF Flow, Waiting
<1>10. Looping' /\ Measured'
  BY <1>1, <1>2, <1>3 DEF Looping, Measured
<1>11. UnitStep
  BY <1>2 DEF UnitStep
<1> QED
  BY <1>7, <1>8, <1>9, <1>10, <1>11 DEF BufferInv

LEMMA ReadBuffer ==
  ASSUME StreamInv, NEW n \in DOMAIN wire, OnRecv(n)
  PROVE  UnitStep /\ BufferInv'
<1> PICK b, r : b = Beginning(wire, n) /\ r = Rest(wire, n)
  OBVIOUS
<1>1. /\ BufferTypes /\ Placed /\ Flow /\ Measured /\ Inv /\ ~Dead
      /\ kept \in Seq(Mark) /\ input \in Seq(Mark) /\ wire \in Seq(Mark)
  BY DEF StreamInv, BufferTypes, OnRecv
<1>2. /\ pc = "idle" /\ pc' = "loop" /\ input' = Joined(kept, b) /\ wire' = r
      /\ shared' = (kept = <<>>) /\ kept' = IF kept = <<>> THEN <<>> ELSE Joined(kept, b)
      /\ needed' = needed /\ length' = length /\ vars' = vars
  BY DEF OnRecv, BeginInput, Joined, Beginning, Rest
<1>3. sent' = sent /\ handled' = handled /\ ws' = ws
  BY <1>2 DEF vars
<1>4. /\ input' \in Seq(Mark) /\ wire' \in Seq(Mark) /\ b \in Seq(Mark)
      /\ Joined(input', wire') = Joined(kept, wire)
  <2>1. n \in 0..Len(wire)
    BY <1>1, LenProperties
  <2>2. b \in Seq(Mark)
    BY <1>1, <2>1, SplitAt
  <2> QED
    BY <1>1, <1>2, <2>2, ReadMoves
<1>5. input' # <<>>
  <2>1. n \in 0..Len(wire) /\ n > 0 /\ n \in Nat
    BY <1>1, LenProperties
  <2>2. Len(b) = n
    BY <1>1, <2>1, SplitAt
  <2>3. Len(Joined(kept, b)) = Len(kept) + Len(b) /\ Len(kept) \in Nat
    BY <1>1, <1>4, JoinedElements
  <2>4. Len(Joined(kept, b)) # 0
    BY <2>1, <2>2, <2>3
  <2> QED
    BY <1>2, <2>4, EmptySeq
<1>6. /\ Buffered = kept /\ Buffered' = input' /\ Left' = Left /\ Parsed' = Parsed
      /\ (Dead' <=> Dead)
  BY <1>2, <1>3 DEF Buffered, Left, Parsed, Dead
<1>7. <<>> \in Seq(Mark)
  BY EmptySeq
<1>8. BufferTypes'
  BY <1>1, <1>2, <1>4, <1>7 DEF BufferTypes
<1>9. Placed'
  <2>1. Joined(<<>>, input') = input'
    BY <1>4, JoinedNothing
  <2>2. ~shared' => kept' = input'
    BY <1>2
  <2> QED
    BY <1>2, <1>7, <2>1, <2>2 DEF Placed
<1>10. Flow'
  <2> PICK p, i, w : p = Parsed /\ i = input' /\ w = wire'
    OBVIOUS
  <2>1. p \in Seq(Mark) /\ i \in Seq(Mark) /\ w \in Seq(Mark)
    BY <1>1, <1>4, ParsedType
  <2>2. FlattenSeq(Left) = Joined(Joined(p, kept), wire)
    BY <1>1, <1>6 DEF Flow, Unused
  <2>3. Joined(Joined(p, kept), wire) = Joined(p, Joined(kept, wire))
    BY <1>1, <2>1, JoinedAssociative
  <2>4. Joined(Joined(p, i), w) = Joined(p, Joined(i, w))
    BY <2>1, JoinedAssociative
  <2>5. FlattenSeq(Left) = Joined(Joined(p, i), w)
    BY <1>4, <2>2, <2>3, <2>4
  <2>6. Unused' = Joined(p, i)
    BY <1>6 DEF Unused
  <2> QED
    BY <1>6, <2>5, <2>6 DEF Flow
<1>11. Looping'
  BY <1>1, <1>5, <1>6 DEF Looping
<1>12. Waiting' /\ Measured'
  BY <1>1, <1>2, <1>3 DEF Waiting, Measured
<1>13. UnitStep
  BY <1>2 DEF UnitStep
<1> QED
  BY <1>8, <1>9, <1>10, <1>11, <1>12, <1>13 DEF BufferInv

LEMMA NetworkBuffer ==
  ASSUME StreamInv, NEW u \in Requests \cup Frames, Network(u)
  PROVE  UnitStep /\ BufferInv'
<1> PICK x : x = Octets(u)
  OBVIOUS
<1>1. /\ BufferTypes /\ Placed /\ Flow /\ Looping /\ Waiting /\ Measured /\ Inv
      /\ wire \in Seq(Mark)
  BY DEF StreamInv, BufferTypes
<1>2. /\ ClientSends(u) /\ wire' = Joined(wire, x) /\ sent' = Append(sent, u)
      /\ handled' = handled /\ ws' = ws
      /\ kept' = kept /\ input' = input /\ shared' = shared /\ pc' = pc
      /\ needed' = needed /\ length' = length
  BY DEF Network, ClientSends, Joined
<1>3. u \in Units /\ x \in Seq(Mark)
  BY OctetsOfUnit DEF Units
<1>4. UnitStep
  BY <1>2 DEF UnitStep, Next
<1>5. Inv'
  BY <1>1, <1>4, UnitStepInv
<1>6. /\ Buffered' = Buffered /\ Parsed' = Parsed /\ (Dead' <=> Dead) /\ Unused' = Unused
  BY <1>2 DEF Buffered, Parsed, Dead, Unused
<1>7. BufferTypes'
  <2>1. wire' \in Seq(Mark)
    BY <1>1, <1>2, <1>3, JoinedType
  <2> QED
    BY <1>1, <1>2, <2>1 DEF BufferTypes
<1>8. Placed' /\ Looping'
  BY <1>1, <1>2, <1>6 DEF Placed, Looping
<1>9. Flow'
  <2> SUFFICES ASSUME ~Dead PROVE FlattenSeq(Left') = Joined(Unused, wire')
    BY <1>6 DEF Flow
  <2> PICK q, s : q = Left /\ s = Unused
    OBVIOUS
  <2>1. q \in Seq(Seq(Mark)) /\ s \in Seq(Mark)
    BY <1>1, LeftIs, UnusedType
  <2>2. Left' = Append(q, x)
    BY <1>1, <1>2, <1>3, LeftAppend
  <2>3. FlattenSeq(Append(q, x)) = Joined(FlattenSeq(q), x)
    BY <1>3, <2>1, FlattenSeqAppend DEF Joined
  <2>4. FlattenSeq(q) = Joined(s, wire)
    BY <1>1 DEF Flow
  <2>5. Joined(Joined(s, wire), x) = Joined(s, Joined(wire, x))
    BY <1>1, <1>3, <2>1, JoinedAssociative
  <2> QED
    BY <1>2, <2>2, <2>3, <2>4, <2>5
<1>10. /\ sent \in Seq(Units) /\ handled \in Nat /\ handled <= Len(sent)
  BY <1>1, LeftIs
<1> PICK l \in Nat : Len(sent) = l
  BY <1>10, LenProperties
<1>11. /\ Len(sent') = l + 1 /\ \A i \in 1..l : sent'[i] = sent[i]
  BY <1>2, <1>3, <1>10, Appended
<1>12. ASSUME handled < l PROVE handled' < Len(sent') /\ sent'[handled' + 1] = sent[handled + 1]
  <2>1. handled + 1 \in 1..l /\ handled < l + 1
    BY <1>10, <1>12
  <2> QED
    BY <1>2, <1>11, <2>1
<1>13. Waiting'
  <2>1. CASE handled < l
    BY <1>1, <1>2, <1>6, <1>12, <2>1 DEF Waiting
  <2>2. CASE ~(handled < l) /\ ~Dead
    BY <1>1, <1>5, <1>6, <2>2, NothingLeft, NothingWaitsYet
  <2>3. CASE Dead
    BY <1>6, <2>3 DEF Waiting
  <2> QED
    BY <2>1, <2>2, <2>3
<1>14. Measured'
  BY <1>1, <1>2, <1>12 DEF Measured
<1> QED
  BY <1>4, <1>7, <1>8, <1>9, <1>13, <1>14 DEF BufferInv

LEMMA InspectorBuffer ==
  ASSUME StreamInv, pc = "idle", InspectorNext, UNCHANGED streamVars
  PROVE  UnitStep /\ BufferInv'
<1>1. /\ BufferTypes /\ Placed /\ Flow /\ Looping /\ Waiting /\ Measured /\ Inv
  BY DEF StreamInv
<1>2. /\ wire' = wire /\ kept' = kept /\ input' = input /\ shared' = shared /\ pc' = pc
      /\ needed' = needed /\ length' = length
  BY DEF streamVars
<1>3. sent' = sent /\ handled' = handled /\ (ws' = ws \/ Fail)
  BY DEF InspectorNext, InspectorSends, PageLost
<1>4. Fail => ws'.state = "error"
  BY <1>1, FailType DEF Inv
<1>5. BufferTypes' /\ Placed'
  BY <1>1, <1>2 DEF BufferTypes, Placed
<1>6. Looping' /\ pc' # "loop"
  BY <1>2 DEF Looping
<1>7. CASE ws' = ws
  <2>1. Left' = Left /\ Parsed' = Parsed /\ Buffered' = Buffered /\ (Dead' <=> Dead)
    BY <1>2, <1>3, <1>7 DEF Left, Parsed, Buffered, Dead
  <2>2. Unused' = Unused
    BY <2>1 DEF Unused
  <2>3. Flow' /\ Waiting' /\ Measured'
    BY <1>1, <1>2, <1>3, <1>7, <2>1, <2>2 DEF Flow, Waiting, Measured
  <2> QED
    BY <1>5, <1>6, <2>3 DEF BufferInv, UnitStep, Next
<1>8. CASE ws'.state = "error"
  <2>1. Flow' /\ Waiting' /\ Measured'
    BY <1>8 DEF Flow, Waiting, Measured, Dead
  <2> QED
    BY <1>5, <1>6, <2>1 DEF BufferInv, UnitStep, Next
<1> QED
  BY <1>3, <1>4, <1>7, <1>8

LEMMA QuietBuffer ==
  ASSUME StreamInv, UNCHANGED allVars
  PROVE  UnitStep /\ BufferInv'
<1>1. /\ wire' = wire /\ kept' = kept /\ input' = input /\ shared' = shared /\ pc' = pc
      /\ needed' = needed /\ length' = length /\ vars' = vars
  BY DEF allVars, streamVars
<1>2. sent' = sent /\ handled' = handled /\ ws' = ws
  BY <1>1 DEF vars
<1>3. Left' = Left /\ Parsed' = Parsed /\ Buffered' = Buffered /\ (Dead' <=> Dead)
  BY <1>1, <1>2 DEF Left, Parsed, Buffered, Dead
<1>4. Unused' = Unused
  BY <1>3 DEF Unused
<1>5. BufferTypes' /\ Placed' /\ Looping'
  BY <1>1, <1>3 DEF StreamInv, BufferTypes, Placed, Looping
<1>6. Flow' /\ Waiting' /\ Measured'
  BY <1>1, <1>2, <1>3, <1>4 DEF StreamInv, Flow, Waiting, Measured
<1> QED
  BY <1>1, <1>5, <1>6 DEF BufferInv, UnitStep

-----------------------------------------------------------------------------
(* Every step keeps the invariant, and is a step of the connection, nothing, or the
   length of a frame becoming known. *)

LEMMA StreamStep ==
  ASSUME StreamInv, [StreamNext]_allVars
  PROVE  UnitStep /\ StreamInv'
<1>1. UnitStep /\ BufferInv'
  <2>1. ASSUME NEW u \in Requests \cup Frames, Network(u) PROVE UnitStep /\ BufferInv'
    BY <2>1, NetworkBuffer
  <2>2. ASSUME NEW n \in DOMAIN wire, OnRecv(n) PROVE UnitStep /\ BufferInv'
    BY <2>2, ReadBuffer
  <2>3. CASE Loop
    BY <2>3, RequestLoop, HeadersLoop, LengthLoop, FrameLoop DEF Loop
  <2>4. CASE EndInput
    BY <2>4, EndLoop
  <2>5. CASE pc = "idle" /\ InspectorNext /\ UNCHANGED streamVars
    BY <2>5, InspectorBuffer
  <2>6. CASE UNCHANGED allVars
    BY <2>6, QuietBuffer
  <2> QED
    BY <2>1, <2>2, <2>3, <2>4, <2>5, <2>6 DEF StreamNext
<1>2. Inv'
  BY <1>1, UnitStepInv DEF StreamInv
<1> QED
  BY <1>1, <1>2 DEF StreamInv, BufferInv

LEMMA StreamStart ==
  ASSUME StreamInit
  PROVE  StreamInv
<1>1. /\ Init /\ Inv /\ wire = <<>> /\ kept = <<>> /\ input = <<>> /\ shared = FALSE
      /\ pc = "idle" /\ needed = 0 /\ length = 0
  BY InitInv DEF StreamInit
<1>2. ws.state = "request" /\ sent = <<>> /\ handled = 0 /\ Len(sent) = 0
  BY <1>1, EmptySeq DEF Init
<1>3. <<>> \in Seq(Mark)
  BY EmptySeq
<1>4. BufferTypes
  <2>1. 0 \in 0..(2 + ExtOctets) /\ 0 \in Nat /\ FALSE \in BOOLEAN
    BY StreamAssumption
  <2> QED
    BY <1>1, <1>3, <2>1, Zenon DEF BufferTypes
<1>5. Joined(<<>>, <<>>) = <<>>
  BY <1>3, JoinedNothing
<1>6. Placed
  BY <1>1, <1>3, <1>5 DEF Placed
<1>7. ~(handled < Len(sent))
  BY <1>2
<1>8. FlattenSeq(Left) = <<>>
  BY <1>1, <1>7, LeftNone
<1>9. Unused = <<>>
  BY <1>1, <1>2, <1>5 DEF Unused, Parsed, Buffered
<1>10. Flow
  BY <1>1, <1>5, <1>8, <1>9 DEF Flow
<1>11. Looping /\ Waiting /\ Measured
  BY <1>1, <1>2, <1>7 DEF Looping, Waiting, Measured
<1> QED
  BY <1>1, <1>4, <1>6, <1>10, <1>11 DEF StreamInv

LEMMA AlwaysStreamInv == StreamSpec => []StreamInv
<1> QED
  BY StreamStart, StreamStep, PTL DEF StreamSpec

-----------------------------------------------------------------------------
(* The same steps in Websocket, to which a frame whose length is known is one whose
   length is not. *)

LEMMA SameScan ==
  ASSUME NEW payload
  PROVE  W!Rejects(payload) <=> Rejects(payload)
  BY DEF Rejects, W!Rejects, FoldLeft, W!FoldLeft, MapThenFoldSet, W!MapThenFoldSet, Max, W!Max,
         validate_utf8, W!validate_utf8

LEMMA SameControl == W!Control = Control
  BY DEF Control, W!Control

(* The connection as Websocket sees it. *)
Seen == [ws EXCEPT !.state = IF @ = "frame" THEN "length" ELSE @]

LEMMA SeenIs ==
  ASSUME ws \in Connection
  PROVE  /\ Seen \in Connection
         /\ Seen.state = IF ws.state = "frame" THEN "length" ELSE ws.state
         /\ Seen.continued = ws.continued /\ Seen.data = ws.data
         /\ Seen.sentClose = ws.sentClose /\ Seen.key = ws.key /\ Seen.resource = ws.resource
         /\ ws.state # "frame" => Seen = ws
  BY DEF Seen, Connection

LEMMA SameMeaning ==
  ASSUME ws \in Connection, NEW f
  PROVE  /\ W!Meaning(f) = Meaning(f)
         /\ W!Gathered(f) = Gathered(f)
         /\ W!InvalidPayload(f) <=> InvalidPayload(f)
<1>1. W!Meaning(f) = Meaning(f)
  BY SeenIs DEF Seen, Meaning, W!Meaning
<1>2. W!Gathered(f) = Gathered(f)
  BY SeenIs DEF Seen, Gathered, W!Gathered
<1>3. W!InvalidPayload(f) <=> InvalidPayload(f)
  BY <1>1, SameScan DEF InvalidPayload, W!InvalidPayload
<1> QED
  BY <1>1, <1>2, <1>3

LEMMA SameValid ==
  ASSUME ws \in Connection, NEW f
  PROVE  /\ W!Upgraded <=> Upgraded
         /\ W!Valid(f) <=> Valid(f)
<1>1. W!Upgraded <=> Upgraded
  BY SeenIs DEF Seen, Upgraded, W!Upgraded
<1>2. ASSUME NEW op, NEW fin, NEW long
      PROVE  W!InvalidStart(op, fin, long) <=> InvalidStart(op, fin, long)
  BY SeenIs, SameControl DEF Seen, InvalidStart, W!InvalidStart
<1> QED
  BY <1>1, <1>2, SameMeaning DEF Valid, W!Valid

LEMMA StateOverwritten ==
  ASSUME NEW w \in Connection, NEW s, NEW a, NEW b, NEW c
  PROVE  [[w EXCEPT !.state = s] EXCEPT !.state = a, !.data = b, !.continued = c]
           = [w EXCEPT !.state = a, !.data = b, !.continued = c]
  BY DEF Connection

LEMMA SameAfter ==
  ASSUME ws \in Connection, NEW f
  PROVE  W!After(f) = After(f)
<1> PICK a, b, c : /\ a = (IF Meaning(f) = "close" THEN "closed" ELSE "length")
                   /\ b = (IF f.fin THEN <<>> ELSE Gathered(f))
                   /\ c = (IF f.fin THEN "none" ELSE Meaning(f))
  OBVIOUS
<1>1. W!After(f) = [Seen EXCEPT !.state = a, !.data = b, !.continued = c]
  <2>1. /\ a = (IF W!Meaning(f) = "close" THEN "closed" ELSE "length")
        /\ b = (IF f.fin THEN <<>> ELSE W!Gathered(f))
        /\ c = (IF f.fin THEN "none" ELSE W!Meaning(f))
    BY SameMeaning
  <2> QED
    BY <2>1 DEF W!After, Seen
<1>2. After(f) = [ws EXCEPT !.state = a, !.data = b, !.continued = c]
  BY DEF After
<1> QED
  BY <1>1, <1>2, StateOverwritten DEF Seen

LEMMA SameCanSend ==
  ASSUME ws \in Connection, NEW op, NEW payload
  PROVE  /\ W!CanSend(op, payload) <=> CanSend(op, payload)
         /\ W!WireOp(op) = WireOp(op)
<1>1. W!WireOp(op) = WireOp(op)
  BY SeenIs, SameControl DEF Seen, WireOp, W!WireOp
<1> QED
  BY <1>1, SeenIs, SameControl, SameScan DEF Seen, CanSend, W!CanSend
LEMMA SeenNext ==
  ASSUME ws' \in Connection
  PROVE  ws'.state # "frame" => Seen' = ws'
  BY DEF Seen, Connection

LEMMA SameFail ==
  ASSUME ws \in Connection, Fail
  PROVE  W!Fail
<1>1. ws' = [ws EXCEPT !.state = "error"] /\ ws'.state = "error" /\ ws' \in Connection
  BY DEF Fail, Connection
<1>2. Seen' = ws'
  BY <1>1, SeenNext
<1>3. [Seen EXCEPT !.state = "error"] = [ws EXCEPT !.state = "error"]
  BY DEF Seen, Connection
<1>4. Seen' = [Seen EXCEPT !.state = "error"]
  BY <1>1, <1>2, <1>3
<1> QED
  BY <1>4 DEF W!Fail, Seen

LEMMA SameRequest ==
  ASSUME ws \in Connection, ws' \in Connection, NEW r, RequestNext(r)
  PROVE  W!RequestNext(r)
<1>1. CASE RecvRequest(r)
  <2>1. Seen = ws /\ ws.state = "request"
    BY <1>1, SeenIs DEF RecvRequest
  <2>2. ws'.state # "frame"
    BY <1>1 DEF RecvRequest, Fail, Connection
  <2>3. Seen' = ws'
    BY <2>2, SeenNext
  <2>4. W!RecvRequest(r)
    BY <1>1, <2>1, <2>3, SameFail DEF Seen, RecvRequest, W!RecvRequest
  <2> QED
    BY <2>4 DEF W!RequestNext
<1>2. ASSUME NEW remote \in BOOLEAN, NEW sends \in BOOLEAN, PlainRequest(r, remote, sends)
      PROVE  W!RequestNext(r)
  <2>1. Seen = ws /\ ws.state = "headers"
    BY <1>2, SeenIs DEF PlainRequest
  <2>2. ws'.state # "frame"
    BY <1>2 DEF PlainRequest, Connection
  <2>3. Seen' = ws'
    BY <2>2, SeenNext
  <2>4. W!PlainRequest(r, remote, sends)
    BY <1>2, <2>1, <2>3
    DEF Seen, PlainRequest, W!PlainRequest, IsWebsocket, W!IsWebsocket, Http, W!Http
  <2> QED
    BY <2>4 DEF W!RequestNext
<1>3. ASSUME NEW found \in BOOLEAN, NEW sends \in BOOLEAN, UpgradeRequest(r, found, sends)
      PROVE  W!RequestNext(r)
  <2>1. Seen = ws /\ ws.state = "headers"
    BY <1>3, SeenIs DEF UpgradeRequest
  <2>2. ws'.state # "frame"
    BY <1>3 DEF UpgradeRequest, Connection
  <2>3. Seen' = ws'
    BY <2>2, SeenNext
  <2>4. W!Answer(found) = Answer(found)
    BY DEF Answer, W!Answer, Http, W!Http, Upgrade, W!Upgrade
  <2>5. W!UpgradeRequest(r, found, sends)
    BY <1>3, <2>1, <2>3, <2>4 DEF Seen, UpgradeRequest, W!UpgradeRequest, IsWebsocket, W!IsWebsocket
  <2> QED
    BY <2>5 DEF W!RequestNext
<1> QED
  BY <1>1, <1>2, <1>3 DEF RequestNext

LEMMA SameReply ==
  ASSUME ws \in Connection, ws' \in Connection, ws'.state # "frame",
         NEW f, NEW op, NEW payload, NEW sends \in BOOLEAN,
         Reply(f, op, payload, sends)
  PROVE  W!Reply(f, op, payload, sends)
<1>1. Seen' = ws'
  BY SeenNext
<1>2. W!FrameOut(op, payload) = FrameOut(op, payload)
  BY DEF FrameOut, W!FrameOut
<1> QED
  BY <1>1, <1>2, SameAfter, SameCanSend, SameFail DEF Seen, Reply, W!Reply

LEMMA SameFrame ==
  ASSUME Inv, ws' \in Connection, NEW f \in Frames, FrameNext(f)
  PROVE  W!FrameNext(f)
<1>1. ws \in Connection /\ ws'.state # "frame"
  BY FrameOutcome DEF Inv, TypeOK
<1>2. Seen' = ws'
  BY <1>1, SeenNext
<1>3. /\ W!Upgraded <=> Upgraded
      /\ W!Valid(f) <=> Valid(f)
      /\ W!After(f) = After(f)
      /\ W!Gathered(f) = Gathered(f)
      /\ W!Acceptable(f) <=> Acceptable(f)
      /\ W!Control = Control
      /\ Fail => W!Fail
  BY <1>1, SameValid, SameAfter, SameMeaning, SameControl, SameFail DEF Acceptable, W!Acceptable
<1>4. CASE RefuseFrame(f)
  BY <1>3, <1>4 DEF RefuseFrame, W!RefuseFrame, W!FrameNext
<1>5. CASE RecvFragment(f)
  <2>1. W!RecvFragment(f)
    BY <1>2, <1>3, <1>5 DEF Seen, RecvFragment, W!RecvFragment
  <2> QED
    BY <2>1 DEF W!FrameNext
<1>6. ASSUME NEW sends \in BOOLEAN, RejectMessage(f, sends) PROVE W!FrameNext(f)
  <2>1. W!RejectMessage(f, sends)
    BY <1>1, <1>3, <1>6, SameReply DEF RejectMessage, W!RejectMessage
  <2> QED
    BY <2>1 DEF W!FrameNext
<1>7. ASSUME NEW sends \in BOOLEAN, ForwardMessage(f, sends) PROVE W!FrameNext(f)
  <2>1. W!ForwardMessage(f, sends)
    BY <1>2, <1>3, <1>7 DEF Seen, ForwardMessage, W!ForwardMessage
  <2> QED
    BY <2>1 DEF W!FrameNext
<1>8. ASSUME NEW sends \in BOOLEAN, RecvControl(f, sends) PROVE W!FrameNext(f)
  <2>1. CASE f.op = "close"
    <3>1. W!Reply(f, "close", <<>>, sends)
      BY <1>1, <1>8, <2>1, SameReply DEF RecvControl
    <3> QED
      BY <1>3, <1>8, <2>1, <3>1 DEF RecvControl, W!RecvControl, W!FrameNext
  <2>2. CASE f.op = "ping"
    <3>1. W!Reply(f, "pong", Gathered(f), sends)
      BY <1>1, <1>8, <2>2, SameReply DEF RecvControl
    <3> QED
      BY <1>3, <1>8, <2>2, <3>1 DEF RecvControl, W!RecvControl, W!FrameNext
  <2>3. CASE f.op \notin {"close", "ping"}
    <3>1. W!RecvControl(f, sends)
      BY <1>2, <1>3, <1>8, <2>3 DEF Seen, RecvControl, W!RecvControl
    <3> QED
      BY <3>1 DEF W!FrameNext
  <2> QED
    BY <2>1, <2>2, <2>3
<1> QED
  BY <1>4, <1>5, <1>6, <1>7, <1>8 DEF FrameNext

LEMMA SameInspector ==
  ASSUME ws \in Connection, ws' \in Connection, InspectorNext
  PROVE  W!InspectorNext
<1>1. CASE PageLost
  <2>1. Seen' = Seen
    BY <1>1 DEF PageLost, Seen
  <2>2. W!PageLost
    BY <1>1, <2>1, SameValid DEF Seen, PageLost, W!PageLost
  <2> QED
    BY <2>2 DEF W!InspectorNext
<1>2. ASSUME NEW payload \in Texts, NEW sends \in BOOLEAN, InspectorSends(payload, sends)
      PROVE  W!InspectorNext
  <2>1. /\ W!FrameOut(WireOp("text"), payload) = FrameOut(WireOp("text"), payload)
        /\ W!WireOp("text") = WireOp("text") /\ (W!Upgraded <=> Upgraded)
        /\ (W!CanSend("text", payload) <=> CanSend("text", payload))
    BY SameCanSend, SameValid DEF FrameOut, W!FrameOut
  <2>2. ws' = ws => Seen' = Seen
    BY DEF Seen
  <2>3. W!InspectorSends(payload, sends)
    BY <1>2, <2>1, <2>2, SameFail DEF Seen, InspectorSends, W!InspectorSends
  <2> QED
    BY <2>3 DEF W!InspectorNext
<1> QED
  BY <1>1, <1>2 DEF InspectorNext

(* A step of the connection is that step of Websocket. *)
LEMMA SameStep ==
  ASSUME Inv, Inv', [Next]_vars
  PROVE  [W!Next]_W!vars
<1>1. ws \in Connection /\ ws' \in Connection
  BY DEF Inv, TypeOK
<1>2. ASSUME NEW u \in Requests \cup Frames, ClientSends(u) PROVE W!Next
  <2>1. Seen' = Seen
    BY <1>2 DEF ClientSends, Seen
  <2>2. W!ClientSends(u)
    BY <1>2, <2>1 DEF Seen, ClientSends, W!ClientSends, Upgrade, W!Upgrade
  <2> QED
    BY <2>2 DEF W!Next
<1>3. CASE handled < Len(sent) /\ RecvUnit(sent[handled + 1])
  <2> PICK u : u = sent[handled + 1]
    OBVIOUS
  <2>1. CASE ws.state \in {"request", "headers"} /\ RequestNext(u)
    <3>1. W!RequestNext(u)
      BY <1>1, <2>1, SameRequest
    <3>2. Seen.state \in {"request", "headers"}
      BY <1>1, <2>1, SeenIs
    <3> QED
      BY <1>3, <3>1, <3>2 DEF Seen, W!Next, W!RecvUnit
  <2>2. CASE Upgraded /\ FrameNext(u)
    <3>1. u \in Frames
      BY <1>3, <2>2, UnitOfState
    <3>2. W!FrameNext(u) /\ W!Upgraded
      BY <1>1, <2>2, <3>1, SameFrame, SameValid
    <3> QED
      BY <1>3, <3>2 DEF W!Next, W!RecvUnit
  <2> QED
    BY <1>3, <2>1, <2>2 DEF RecvUnit
<1>4. CASE InspectorNext
  BY <1>1, <1>4, SameInspector DEF W!Next
<1>5. CASE UNCHANGED vars
  BY <1>5 DEF vars, W!vars
<1> QED
  BY <1>2, <1>3, <1>4, <1>5 DEF Next

(* To Websocket a length that becomes known is no step. *)
LEMMA SameUnit ==
  ASSUME Inv, UnitStep
  PROVE  [W!Next]_W!vars
<1>1. Inv'
  BY UnitStepInv
<1>2. CASE [Next]_vars
  BY <1>1, <1>2, SameStep
<1>3. CASE LengthKnown
  <2>1. ws \in Connection /\ ws.state = "length" /\ ws' = [ws EXCEPT !.state = "frame"]
    BY <1>3 DEF Inv, TypeOK, LengthKnown
  <2>2. Seen = ws /\ ws'.state = "frame"
    BY <2>1, SeenIs DEF Connection
  <2>3. Seen' = [ws EXCEPT !.state = "length"]
    BY <2>1, <2>2 DEF Seen, Connection
  <2>4. [ws EXCEPT !.state = "length"] = ws
    BY <2>1 DEF Connection
  <2>5. Seen' = Seen
    BY <2>2, <2>3, <2>4
  <2> QED
    BY <1>3, <2>5 DEF LengthKnown, W!vars, Seen
<1> QED
  BY <1>2, <1>3 DEF UnitStep

LEMMA SameStart ==
  ASSUME Init
  PROVE  W!Init
<1>1. Seen = ws
  <2>1. ws \in Connection /\ ws.state # "frame"
    BY InitInv DEF Init, Inv, TypeOK
  <2> QED
    BY <2>1, SeenIs
<1> QED
  BY <1>1 DEF Seen, Init, W!Init

-----------------------------------------------------------------------------
(* The results. *)

(* What is joined to the end of a sequence is its suffix. *)
LEMMA EndIsSuffix ==
  ASSUME NEW S, NEW s \in Seq(S), NEW t \in Seq(S), NEW j, j = Joined(s, t)
  PROVE  IsSuffix(t, j)
<1> PICK m \in Nat, n \in Nat : Len(s) = m /\ Len(t) = n
  BY LenProperties
<1>1. j \in Seq(S) /\ Len(j) = m + n /\ \A i \in 1..n : j[m + i] = t[i]
  <2>1. j \in Seq(S)
    BY JoinedType
  <2>2. Len(j) = m + n
    <3>1. Len(Joined(s, t)) = Len(s) + Len(t)
      BY JoinedElements
    <3> QED
      BY <3>1
  <2>3. \A i \in 1..n : j[m + i] = t[i]
    <3> TAKE i \in 1..n
    <3>1. i \in 1..Len(t)
      OBVIOUS
    <3>2. Joined(s, t)[Len(s) + i] = t[i]
      BY <3>1, JoinedSecond
    <3> QED
      BY <3>2
  <2> QED
    BY <2>1, <2>2, <2>3
<1> PICK p, q : p = Reverse(t) /\ q = Reverse(j)
  OBVIOUS
<1>2. /\ p \in [1..n -> S] /\ \A i \in 1..n : p[i] = t[(n - i) + 1]
  <2>1. \A i \in 1..n : (n - i) + 1 \in 1..n
    OBVIOUS
  <2>2. \A i \in 1..n : t[i] \in S
    BY ElementOfSeq
  <2> QED
    BY <2>1, <2>2 DEF Reverse
<1>3. /\ q \in [1..(m + n) -> S] /\ \A i \in 1..(m + n) : q[i] = j[((m + n) - i) + 1]
  <2>1. \A i \in 1..(m + n) : ((m + n) - i) + 1 \in 1..(m + n)
    OBVIOUS
  <2>2. \A i \in 1..(m + n) : j[i] \in S
    BY <1>1, ElementOfSeq
  <2> QED
    BY <1>1, <2>1, <2>2 DEF Reverse
<1>4. p \in Seq(S) /\ Len(p) = n /\ q \in Seq(S) /\ Len(q) = m + n
  BY <1>2, <1>3, Listed
<1>5. \A i \in 1..n : p[i] = q[i]
  <2> TAKE i \in 1..n
  <2>1. i \in 1..(m + n) /\ (n - i) + 1 \in 1..n /\ ((m + n) - i) + 1 = m + ((n - i) + 1)
    OBVIOUS
  <2>2. j[m + ((n - i) + 1)] = t[(n - i) + 1]
    BY <1>1, <2>1
  <2> QED
    BY <1>2, <1>3, <2>1, <2>2
<1>6. n \in 0..Len(q)
  BY <1>4
<1>7. /\ Beginning(q, n) \in Seq(S) /\ Len(Beginning(q, n)) = n
      /\ \A i \in 1..n : Beginning(q, n)[i] = q[i]
  BY <1>4, <1>6, SplitAt
<1>8. Beginning(p, n) = p
  BY <1>4, BeginningIs
<1>9. p = Beginning(q, n)
  <2> PICK b : b = Beginning(q, n)
    OBVIOUS
  <2>1. /\ p \in Seq(S) /\ b \in Seq(S) /\ Len(p) = n /\ Len(b) = n
        /\ \A i \in 1..n : p[i] = b[i]
    BY <1>4, <1>5, <1>7
  <2>2. p = b
    BY <2>1, SameSequence
  <2> QED
    BY <2>2
<1>10. SubSeq(p, 1, Len(p)) = SubSeq(q, 1, Len(p)) /\ Len(p) <= Len(q)
  BY <1>4, <1>8, <1>9 DEF Beginning
<1> QED
  BY <1>10 DEF IsSuffix, IsPrefix

(* The parser works either on the caller's buffer, with nothing in the char_buffer,
   or on the last octets of the char_buffer, whatever the reads returned
   (cb_begin_input, cb_end_input). *)
THEOREM ParserIsPlaced == StreamSpec => []StreamTypeOK
<1>1. StreamInv => StreamTypeOK
  <2> SUFFICES ASSUME StreamInv PROVE StreamTypeOK
    OBVIOUS
  <2>1. BufferTypes /\ Placed
    BY DEF StreamInv
  <2>2. ASSUME ~shared PROVE IsSuffix(input, kept)
    <3> PICK before \in Seq(Mark) : Joined(before, input) = kept
      BY <2>1, <2>2 DEF Placed
    <3>1. input \in Seq(Mark) /\ kept = before \o input
      BY <2>1 DEF BufferTypes, Joined
    <3> QED
      BY <3>1, EndIsSuffix
  <2> QED
    BY <2>1, <2>2 DEF StreamTypeOK, BufferTypes, Placed
<1> QED
  BY <1>1, AlwaysStreamInv, PTL

(* A request or a frame that is whole does not wait in the char_buffer for the next
   read (ws_on_recv, ws_recv_loop). *)
THEOREM WholeUnitsAreTaken == StreamSpec => []NothingWaits
<1>1. StreamInv => NothingWaits
  <2> SUFFICES ASSUME StreamInv, pc = "idle", ~Dead, handled < Len(sent)
               PROVE  Len(kept) < Len(Octets(sent[handled + 1]))
                                    - (IF ws.state = "headers" THEN 1 ELSE 0)
    BY DEF NothingWaits
  <2>1. /\ Inv /\ BufferTypes /\ Buffered = kept
        /\ Len(Unused) < Len(Octets(sent[handled + 1]))
    BY DEF StreamInv, Waiting, Buffered
  <2> PICK x : Octets(sent[handled + 1]) = x
    OBVIOUS
  <2>2. sent[handled + 1] \in Units
    BY <2>1, LeftFirst
  <2>3. Len(x) \in Nat
    BY <2>2, OctetsOfUnit
  <2>4. /\ Len(Unused) = Len(Parsed) + Len(kept) /\ Len(kept) \in Nat
        /\ Len(Parsed) = IF ws.state = "headers" THEN 1 ELSE 0
    BY <2>1, UnusedType, ParsedType, LenProperties DEF BufferTypes
  <2>5. Len(Parsed) + Len(kept) < Len(x)
    BY <2>1, <2>4
  <2>6. Len(kept) < Len(x) - Len(Parsed)
    BY <2>3, <2>4, <2>5
  <2> QED
    BY <2>4, <2>6
<1> QED
  BY <1>1, AlwaysStreamInv, PTL

(* Wherever the reads split the client's octets, and however many requests and frames
   one read returns, the connection does what it would do given one whole unit after
   another: WebsocketStream implements Websocket, for payloads of any length
   (ws_on_recv, ws_recv_loop, cb_begin_input, cb_end_input). *)
THEOREM ChunksImplementUnits == StreamSpec => ChunksDoNotMatter
<1>1. StreamInit => W!Init
  BY SameStart DEF StreamInit
<1>2. StreamInv /\ [StreamNext]_allVars => [W!Next]_W!vars
  BY StreamStep, SameUnit DEF StreamInv
<1> QED
  BY <1>1, <1>2, AlwaysStreamInv, PTL DEF StreamSpec, ChunksDoNotMatter, W!Spec
=============================================================================
