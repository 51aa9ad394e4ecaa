----------------------------- MODULE LinkProofs -----------------------------
(***************************************************************************)
(* InspectorLink for any messages, of any length and number, and any       *)
(* division into packets and reads.  The octets on their way are always    *)
(* those of parts of messages that follow each other, from the first part  *)
(* that the receiver lacks to the last one that was sent.                  *)
(***************************************************************************)
EXTENDS InspectorLink, InductionProofs

Octet == ({"length"} \X Nat) \cup ({"key"} \X {"partial", "final"}) \cup ({"data"} \X STRING)

-----------------------------------------------------------------------------
(* The inductive invariant.  A part is named by its message and where it starts there. *)

Parts == [of : Nat \ {0}, at : Nat]

At(k, i) == [of |-> k, at |-> i]

BodyOf(m, i) == IF partials THEN Part(m, i) ELSE Data(m)

PacketAt(p) == Packet(BodyOf(sent[p.of], p.at))

(* The part starts within a message that was sent. *)
Within(p) ==
  /\ p.of \in DOMAIN sent /\ p.at < Len(sent[p.of])
  /\ partials \/ p.at = 0

IsLast(p) == partials => ~IsPartial(sent[p.of], p.at)

Follows(p) == IF IsLast(p) THEN At(p.of + 1, 0) ELSE At(p.of, p.at + MaxRpc)

PacketsOf(parts) == [j \in DOMAIN parts |-> PacketAt(parts[j])]

(* The octets between the two ends are those of the parts. *)
Stream(parts) ==
  /\ FlattenSeq(PacketsOf(parts)) = Joined(unread, wire)
  /\ hasLength => /\ parts # <<>> /\ bodyLength = Len(BodyOf(sent[parts[1].of], parts[1].at))
                  /\ Len(unread) >= LengthOctets

(* The parts follow each other, from the first that has not been received to the last
   that was sent; tip is the part after them. *)
Chained(parts, tip) ==
  /\ \A j \in DOMAIN parts :
       /\ Within(parts[j])
       /\ Follows(parts[j]) = IF j + 1 \in DOMAIN parts THEN parts[j + 1] ELSE tip
  /\ At(Len(received) + 1, Len(partial)) = IF parts = <<>> THEN tip ELSE parts[1]
  /\ broken \/ tip = At(Len(sent) + 1, 0)

(* What has been collected is the start of the next message. *)
Collected ==
  partial # <<>> => /\ Len(received) + 1 \in DOMAIN sent
                    /\ Len(partial) <= Len(sent[Len(received) + 1])
                    /\ partial = Beginning(sent[Len(received) + 1], Len(partial))

Tracks(parts, tip) == Stream(parts) /\ Chained(parts, tip) /\ Collected

Plists == {RecvPlist(Contents[c][m].plist) : c \in DOMAIN Contents, m \in Messages}

Base ==
  /\ wire \in Seq(Octet) /\ unread \in Seq(Octet)
  /\ partials \in BOOLEAN /\ broken \in BOOLEAN /\ content \in DOMAIN Contents
  /\ sent \in Seq(Messages) /\ partial \in Seq(STRING)
  /\ failed \in {"no", "length", "refused"} /\ (failed # "no" => ~reading)

(* Each message received is the one sent, and makes the calls of its plist. *)
Handed ==
  /\ received \in Seq(Messages) /\ Len(received) <= Len(sent)
  /\ \A k \in DOMAIN received : received[k] = sent[k]
  /\ calls \in Seq(Plists) /\ Len(calls) = Len(received)
  /\ \A k \in DOMAIN calls : calls[k] = CallsOf(received[k])
  /\ \A k \in DOMAIN calls : calls[k] = {} => k = Len(calls) /\ failed = "refused"

Inv ==
  /\ Base /\ Handed /\ FailsForLengthOnly
  /\ failed = "no" => \E parts \in Seq(Parts), tip \in Parts : Tracks(parts, tip)

-----------------------------------------------------------------------------
(* The octets of a message and of its packets. *)

LEMMA DataHolds ==
  ASSUME NEW q \in Seq(STRING)
  PROVE  Data(q) \in Seq(Octet) /\ Len(Data(q)) = Len(q) /\ Plain(Data(q)) = q
<1> PICK n \in Nat : n = Len(q) /\ DOMAIN q = 1..n /\ q \in [1..n -> STRING]
  BY LenProperties
<1>1. Data(q) \in [1..n -> Octet]
  BY DEF Data, Octet
<1>2. Data(q) \in Seq(Octet) /\ Len(Data(q)) = n /\ DOMAIN Data(q) = 1..n
  BY <1>1, SeqDef, LenProperties
<1>3. Plain(Data(q)) = [i \in 1..n |-> q[i]]
  BY <1>2 DEF Data, Plain
<1> QED
  BY <1>2, <1>3

LEMMA KeyedHolds ==
  ASSUME NEW x \in Octet, NEW d \in Seq(Octet), NEW b, b = <<x>> \o d
  PROVE  b \in Seq(Octet) /\ Len(b) = Len(d) + 1 /\ b[1] = x /\ Tail(b) = d
<1>1. <<x>> \in Seq(Octet) /\ Len(<<x>>) = 1 /\ <<x>>[1] = x
  OBVIOUS
<1> PICK n \in Nat : n = Len(d) /\ DOMAIN d = 1..n
  BY LenProperties
<1>2. b \in Seq(Octet) /\ Len(b) = n + 1 /\ \A i \in 1..(1 + n) : b[i] = IF i <= 1 THEN x ELSE d[i - 1]
  <2>1. /\ <<x>> \o d \in Seq(Octet) /\ Len(<<x>> \o d) = Len(<<x>>) + Len(d)
        /\ \A i \in 1..(Len(<<x>>) + Len(d)) :
             (<<x>> \o d)[i] = IF i <= Len(<<x>>) THEN <<x>>[i] ELSE d[i - Len(<<x>>)]
    BY <1>1, ConcatProperties
  <2>2. Len(b) = 1 + n /\ b \in Seq(Octet)
    BY <1>1, <2>1
  <2>3. \A i \in 1..(1 + n) : i <= 1 => i = 1
    OBVIOUS
  <2>4. \A i \in 1..(1 + n) : b[i] = IF i <= 1 THEN x ELSE d[i - 1]
    BY <1>1, <2>1, <2>3
  <2> QED
    BY <2>2, <2>4
<1>3. b # <<>>
  BY <1>2, EmptySeq
<1>4. Tail(b) \in Seq(Octet) /\ Len(Tail(b)) = n /\ \A i \in 1..n : Tail(b)[i] = b[i + 1]
  BY <1>2, <1>3, HeadTailProperties
<1>5. \A i \in 1..n : Tail(b)[i] = d[i]
  <2>1. \A i \in 1..n : i + 1 \in 1..(1 + n) /\ ~ (i + 1 <= 1) /\ i + 1 - 1 = i
    OBVIOUS
  <2> QED
    BY <1>2, <1>4, <2>1
<1>6. Tail(b) = d
  BY <1>4, <1>5, SeqEqual
<1>7. b[1] = x
  BY <1>2
<1> QED
  BY <1>2, <1>6, <1>7

(* Where the part of a message ends that starts at i. *)
EndOf(m, i) == IF IsPartial(m, i) THEN i + MaxRpc ELSE Len(m)

LEMMA PartHolds ==
  ASSUME NEW m \in Messages, NEW i \in Nat, i < Len(m), NEW e, e = EndOf(m, i)
  PROVE  /\ e \in Nat /\ i < e /\ e <= Len(m) /\ e <= i + MaxRpc
         /\ Part(m, i) \in Seq(Octet) /\ Len(Part(m, i)) = 1 + e - i
         /\ Part(m, i)[1] = <<"key", IF IsPartial(m, i) THEN "partial" ELSE "final">>
         /\ Plain(Tail(Part(m, i))) = Between(m, i, e)
<1>1. m \in Seq(STRING) /\ MaxRpc \in Nat \ {0}
  BY LinkAssumption
<1> PICK n \in Nat : n = Len(m)
  BY <1>1, LenProperties
<1>2. e \in Nat /\ i < e /\ e <= n /\ e <= i + MaxRpc
  BY <1>1 DEF EndOf, IsPartial
<1> PICK q : q = SubSeq(m, i + 1, e)
  OBVIOUS
<1>3. q \in Seq(STRING) /\ Len(q) = e - i
  <2>1. \A j \in (i + 1)..e : j \in 1..Len(m)
    BY <1>2
  <2>2. \A j \in (i + 1)..e : m[j] \in STRING
    BY <1>1, <2>1, ElementOfSeq
  <2>3. i + 1 \in Int /\ e \in Int /\ i + 1 <= e /\ e - (i + 1) + 1 = e - i
    BY <1>2
  <2> QED
    BY <2>2, <2>3, SubSeqProperties
<1> PICK x : x = <<"key", IF IsPartial(m, i) THEN "partial" ELSE "final">>
  OBVIOUS
<1>4. x \in Octet
  BY DEF Octet
<1>5. Part(m, i) = <<x>> \o Data(q)
  BY DEF Part, EndOf
<1>6. Data(q) \in Seq(Octet) /\ Len(Data(q)) = e - i /\ Plain(Data(q)) = q
  BY <1>3, DataHolds
<1> PICK b, d : b = Part(m, i) /\ d = Data(q)
  OBVIOUS
<1>7. b \in Seq(Octet) /\ Len(b) = Len(d) + 1 /\ b[1] = x /\ Tail(b) = d
  BY <1>4, <1>5, <1>6, KeyedHolds
<1>8. Len(b) = 1 + e - i
  BY <1>2, <1>6, <1>7
<1>9. Between(m, i, e) = q
  BY DEF Between
<1> QED
  BY <1>2, <1>6, <1>7, <1>8, <1>9

LEMMA PacketHolds ==
  ASSUME NEW b \in Seq(Octet), NEW p, p = Packet(b), NEW n, n = LengthOctets + Len(b)
  PROVE  /\ n \in Nat /\ p \in Seq(Octet) /\ Len(p) = n
         /\ p[1] = <<"length", Len(b)>>
         /\ \A i \in 1..Len(b) : p[LengthOctets + i] = b[i]
<1> PICK k \in Nat \ {0}, c \in Nat : k = LengthOctets /\ c = Len(b)
  BY PacketAssumption, LenProperties
<1> PICK h : h = [i \in 1..k |-> <<"length", c>>]
  OBVIOUS
<1>1. <<"length", c>> \in Octet
  BY DEF Octet
<1>2. h \in Seq(Octet) /\ Len(h) = k /\ h[1] = <<"length", c>>
  <2>1. 1 \in 1..k
    OBVIOUS
  <2> QED
    BY <1>1, <2>1, Repeated
<1>3. p = h \o b
  BY LinkAssumption DEF Packet
<1>4. /\ p \in Seq(Octet) /\ Len(p) = Len(h) + Len(b)
      /\ \A i \in 1..(Len(h) + Len(b)) : p[i] = IF i <= Len(h) THEN h[i] ELSE b[i - Len(h)]
  BY <1>2, <1>3, ConcatProperties
<1>5. \A i \in 1..(k + c) : p[i] = IF i <= k THEN h[i] ELSE b[i - k]
  BY <1>2, <1>4
<1>6. 1 \in 1..(k + c) /\ \A i \in 1..c : k + i \in 1..(k + c) /\ ~ (k + i <= k) /\ k + i - k = i
  OBVIOUS
<1>7. p[1] = h[1]
  <2>1. 1 <= k
    OBVIOUS
  <2> QED
    BY <1>5, <1>6, <2>1
<1>8. ASSUME NEW i \in 1..c PROVE p[k + i] = b[i]
  <2> PICK j \in 1..(k + c) : j = k + i /\ ~ (j <= k) /\ j - k = i
    BY <1>6
  <2>1. p[j] = b[j - k]
    BY <1>5
  <2> QED
    BY <2>1
<1> QED
  BY <1>2, <1>4, <1>7, <1>8

-----------------------------------------------------------------------------
(* What the receiver finds. *)

LEMMA BodyHolds ==
  ASSUME Base, NEW p \in Parts, Within(p), NEW m, m = sent[p.of], NEW b, b = BodyOf(m, p.at)
  PROVE  /\ m \in Messages /\ m \in Seq(STRING) /\ b \in Seq(Octet)
         /\ IF partials THEN Len(b) <= MaxBody ELSE Len(b) = Len(m)
         /\ partials /\ b[1] = <<"key", "partial">> <=> ~IsLast(p)
         /\ ~IsLast(p) => /\ partials /\ p.at + MaxRpc < Len(m)
                          /\ Plain(Tail(b)) = Between(m, p.at, p.at + MaxRpc)
         /\ IsLast(p) => Plain(IF partials THEN Tail(b) ELSE b) = Between(m, p.at, Len(m))
<1>1. m \in Messages /\ m \in Seq(STRING) /\ MaxRpc \in Nat \ {0} /\ MaxBody \in Nat /\ MaxRpc < MaxBody
  <2>1. p.of \in 1..Len(sent)
    BY LenProperties DEF Base, Within
  <2>2. m \in Messages
    BY <2>1, ElementOfSeq DEF Base
  <2> QED
    BY <2>2, LinkAssumption
<1> PICK i \in Nat, n \in Nat : i = p.at /\ n = Len(m)
  BY <1>1, LenProperties DEF Parts
<1>2. i < n /\ (partials \/ i = 0)
  BY DEF Within
<1>3. CASE partials
  <2> PICK e : e = EndOf(m, i)
    OBVIOUS
  <2>1. b = Part(m, i)
    BY <1>3 DEF BodyOf
  <2>2. /\ e \in Nat /\ i < e /\ e <= n /\ e <= i + MaxRpc
        /\ b \in Seq(Octet) /\ Len(b) = 1 + e - i
        /\ b[1] = <<"key", IF IsPartial(m, i) THEN "partial" ELSE "final">>
        /\ Plain(Tail(b)) = Between(m, i, e)
    <3>1. i < Len(m) /\ e = EndOf(m, i)
      BY <1>2
    <3>2. m \in Messages /\ i \in Nat
      BY <1>1
    <3>3. e \in Nat /\ i < e /\ e <= Len(m) /\ e <= i + MaxRpc
      BY <3>1, <3>2, PartHolds
    <3>4. b \in Seq(Octet) /\ Len(b) = 1 + e - i
      BY <2>1, <3>1, <3>2, PartHolds
    <3>5. b[1] = <<"key", IF IsPartial(m, i) THEN "partial" ELSE "final">>
      BY <2>1, <3>1, <3>2, PartHolds
    <3>6. Plain(Tail(b)) = Between(m, i, e)
      BY <2>1, <3>1, <3>2, PartHolds
    <3> QED
      BY <1>2, <3>3, <3>4, <3>5, <3>6
  <2>3. Len(b) <= MaxBody
    <3>1. 1 + e - i <= MaxBody
      BY <1>1, <2>2
    <3> QED
      BY <2>2, <3>1
  <2>4. IsLast(p) <=> ~IsPartial(m, i)
    BY <1>3 DEF IsLast
  <2>5. IsPartial(m, i) => e = i + MaxRpc /\ i + MaxRpc < n
    BY <1>1 DEF IsPartial, EndOf
  <2>6. ~IsPartial(m, i) => e = n
    BY DEF EndOf
  <2>7. b[1] = <<"key", "partial">> <=> IsPartial(m, i)
    BY <2>2
  <2>8. /\ ~IsLast(p) => partials /\ p.at + MaxRpc < Len(m)
                          /\ Plain(Tail(b)) = Between(m, p.at, p.at + MaxRpc)
    BY <1>3, <2>2, <2>4, <2>5
  <2>9. IsLast(p) => Plain(IF partials THEN Tail(b) ELSE b) = Between(m, p.at, Len(m))
    BY <1>3, <2>2, <2>4, <2>6
  <2> QED
    BY <1>1, <1>3, <2>2, <2>3, <2>4, <2>7, <2>8, <2>9
<1>4. CASE ~partials
  <2>1. b = Data(m) /\ i = 0 /\ IsLast(p)
    BY <1>2, <1>4 DEF BodyOf, IsLast
  <2>2. b \in Seq(Octet) /\ Len(b) = n /\ Plain(b) = m
    BY <1>1, <2>1, DataHolds
  <2>3. Between(m, p.at, Len(m)) = m
    BY <1>1, <2>1, BeginningIs
  <2> QED
    BY <1>1, <1>4, <2>1, <2>2, <2>3
<1> QED
  BY <1>3, <1>4

LEMMA PacketsHold ==
  ASSUME Base, NEW parts \in Seq(Parts), \A j \in DOMAIN parts : Within(parts[j])
  PROVE  /\ PacketsOf(parts) \in Seq(Seq(Octet)) /\ Len(PacketsOf(parts)) = Len(parts)
         /\ \A j \in DOMAIN parts : PacketsOf(parts)[j] = PacketAt(parts[j])
<1> PICK n \in Nat : n = Len(parts) /\ DOMAIN parts = 1..n
  BY LenProperties
<1>1. ASSUME NEW j \in 1..n PROVE PacketAt(parts[j]) \in Seq(Octet)
  <2>1. parts[j] \in Parts /\ Within(parts[j])
    BY ElementOfSeq
  <2>2. BodyOf(sent[parts[j].of], parts[j].at) \in Seq(Octet)
    BY <2>1, BodyHolds
  <2> QED
    BY <2>2, PacketHolds DEF PacketAt
<1>2. PacketsOf(parts) \in [1..n -> Seq(Octet)]
  BY <1>1 DEF PacketsOf
<1>3. PacketsOf(parts) \in Seq(Seq(Octet)) /\ Len(PacketsOf(parts)) = n
  BY <1>2, SeqDef, LenProperties
<1> QED
  BY <1>3 DEF PacketsOf

LEMMA PacketsOfTail ==
  ASSUME Base, NEW parts \in Seq(Parts), \A j \in DOMAIN parts : Within(parts[j]), parts # <<>>,
         NEW rest, rest = Tail(parts)
  PROVE  /\ rest \in Seq(Parts) /\ Len(rest) = Len(parts) - 1
         /\ \A j \in 1..(Len(parts) - 1) : rest[j] = parts[j + 1]
         /\ PacketsOf(rest) = Tail(PacketsOf(parts))
<1> PICK n \in Nat \ {0} : n = Len(parts) /\ DOMAIN parts = 1..n
  BY LenProperties, EmptySeq
<1>1. rest \in Seq(Parts) /\ Len(rest) = n - 1 /\ \A j \in 1..(n - 1) : rest[j] = parts[j + 1]
  BY HeadTailProperties
<1>2. DOMAIN rest = 1..(n - 1)
  BY <1>1, LenProperties
<1>3. \A j \in 1..(n - 1) : j + 1 \in 1..n
  OBVIOUS
<1>4. \A j \in DOMAIN rest : Within(rest[j])
  BY <1>1, <1>2, <1>3
<1>5. /\ PacketsOf(rest) \in Seq(Seq(Octet)) /\ Len(PacketsOf(rest)) = n - 1
      /\ \A j \in 1..(n - 1) : PacketsOf(rest)[j] = PacketAt(rest[j])
  BY <1>1, <1>2, <1>4, PacketsHold
<1>6. /\ PacketsOf(parts) \in Seq(Seq(Octet)) /\ Len(PacketsOf(parts)) = n
      /\ \A j \in 1..n : PacketsOf(parts)[j] = PacketAt(parts[j])
  BY PacketsHold
<1> PICK f \in Seq(Seq(Octet)), g \in Seq(Seq(Octet)) : f = PacketsOf(parts) /\ g = PacketsOf(rest)
  BY <1>5, <1>6
<1>7. f # <<>>
  BY <1>6, EmptySeq
<1>8. Tail(f) \in Seq(Seq(Octet)) /\ Len(Tail(f)) = n - 1 /\ \A j \in 1..(n - 1) : Tail(f)[j] = f[j + 1]
  BY <1>6, <1>7, HeadTailProperties
<1>9. \A j \in 1..(n - 1) : g[j] = Tail(f)[j]
  BY <1>1, <1>3, <1>5, <1>6, <1>8
<1>10. g = Tail(f)
  BY <1>5, <1>8, <1>9, SeqEqual
<1> QED
  BY <1>1, <1>10

(* The first part, as far as it has been read. *)
LEMMA FirstPart ==
  ASSUME Base, NEW parts \in Seq(Parts), \A j \in DOMAIN parts : Within(parts[j]), Stream(parts),
         parts # <<>>, NEW b, b = BodyOf(sent[parts[1].of], parts[1].at),
         NEW n, n = LengthOctets + Len(b)
  PROVE  /\ parts[1] \in Parts /\ Within(parts[1]) /\ b \in Seq(Octet) /\ n \in Nat
         /\ Len(unread) >= LengthOctets => unread[1] = <<"length", Len(b)>>
         /\ Len(unread) >= n =>
              /\ Between(unread, LengthOctets, n) = b
              /\ Rest(unread, n) \in Seq(Octet)
              /\ FlattenSeq(PacketsOf(Tail(parts))) = Joined(Rest(unread, n), wire)
<1>1. 1 \in 1..Len(parts) /\ DOMAIN parts = 1..Len(parts)
  BY LenProperties, EmptySeq
<1>2. parts[1] \in Parts /\ Within(parts[1])
  BY <1>1, ElementOfSeq
<1>3. b \in Seq(Octet)
  BY <1>2, BodyHolds
<1> PICK x : x = PacketAt(parts[1])
  OBVIOUS
<1>4. /\ n \in Nat /\ x \in Seq(Octet) /\ Len(x) = n /\ x[1] = <<"length", Len(b)>>
      /\ \A i \in 1..Len(b) : x[LengthOctets + i] = b[i]
  BY <1>3, PacketHolds DEF PacketAt
<1> PICK seqs : seqs = PacketsOf(parts)
  OBVIOUS
<1>5. seqs \in Seq(Seq(Octet)) /\ seqs # <<>> /\ x = seqs[1]
  <2>1. seqs \in Seq(Seq(Octet)) /\ Len(seqs) = Len(parts) /\ seqs[1] = PacketAt(parts[1])
    BY <1>1, PacketsHold
  <2> QED
    BY <1>1, <2>1, EmptySeq
<1> PICK s \in Seq(Octet), t \in Seq(Octet) : s = unread /\ t = wire
  BY DEF Base
<1>6. FlattenSeq(seqs) = Joined(s, t)
  BY DEF Stream
<1>7. /\ \A i \in 1..Len(s) : i <= Len(x) => s[i] = x[i]
      /\ Len(s) >= Len(x) => /\ Rest(s, Len(x)) \in Seq(Octet)
                             /\ FlattenSeq(Tail(seqs)) = Joined(Rest(s, Len(x)), t)
  BY <1>5, <1>6, FirstTaken
<1> PICK k \in Nat \ {0}, c \in Nat, a \in Nat : k = LengthOctets /\ c = Len(b) /\ a = Len(s)
  BY <1>3, LenProperties, PacketAssumption
<1>8. ASSUME a >= k PROVE s[1] = <<"length", c>>
  <2>1. 1 \in 1..a /\ 1 <= n
    BY <1>8
  <2> QED
    BY <1>4, <1>7, <2>1
<1>9. ASSUME a >= n PROVE Between(s, k, n) = b
  <2>1. ASSUME NEW i \in 1..c PROVE s[k + i] = b[i]
    <3> PICK j \in 1..a : j = k + i /\ j <= n
      BY <1>9
    <3> QED
      BY <1>4, <1>7
  <2>2. n \in Nat /\ n = k + Len(b) /\ Len(s) >= n
    BY <1>4, <1>9
  <2> QED
    BY <1>3, <2>1, <2>2, SliceIs
<1>10. PacketsOf(Tail(parts)) = Tail(seqs)
  BY PacketsOfTail
<1> QED
  BY <1>2, <1>3, <1>4, <1>7, <1>8, <1>9, <1>10

-----------------------------------------------------------------------------
(* wi_send_plist: the parts of one more message. *)

(* As many pieces of r as hold n. *)
Pieces(n, r) == (n + r - 1) \div r

LEMMA TimesGrows ==
  ASSUME NEW a \in Int, NEW b \in Int, NEW r \in Nat, a <= b
  PROVE  a * r <= b * r
<1> PICK d \in Nat : b = a + d
  OBVIOUS
<1>1. (a + d) * r = a * r + d * r /\ d * r >= 0
  OBVIOUS
<1> QED
  BY <1>1

LEMMA Division ==
  ASSUME NEW n \in Nat \ {0}, NEW r \in Nat \ {0}, NEW c, c = Pieces(n, r)
  PROVE  /\ c \in Nat \ {0}
         /\ \A j \in 1..c : /\ (j - 1) * r \in Nat /\ (j - 1) * r < n
                            /\ n - (j - 1) * r > r <=> j # c
<1>1. c \in Int /\ c * r <= n + r - 1 /\ n + r - 1 < c * r + r
  BY DEF Pieces
<1>2. c >= 1
  <2>1. c * r > 0
    BY <1>1
  <2> QED
    BY <1>1, <2>1
<1>3. ASSUME NEW j \in 1..c
      PROVE  /\ (j - 1) * r \in Nat /\ (j - 1) * r < n
             /\ n - (j - 1) * r > r <=> j # c
  <2>1. (j - 1) * r \in Nat /\ (j - 1) * r + r = j * r /\ (c - 1) * r + r = c * r
    BY <1>1
  <2>2. (j - 1) * r <= (c - 1) * r
    <3>1. j - 1 \in Int /\ c - 1 \in Int /\ j - 1 <= c - 1
      BY <1>1
    <3> QED
      BY <3>1, TimesGrows
  <2>3. (j - 1) * r < n
    BY <1>1, <2>1, <2>2
  <2>4. CASE j = c
    BY <1>1, <2>1, <2>4
  <2>5. CASE j # c
    <3>1. j * r <= (c - 1) * r
      <4>1. j \in Int /\ c - 1 \in Int /\ j <= c - 1
        BY <1>1, <2>5
      <4> QED
        BY <4>1, TimesGrows
    <3> QED
      BY <1>1, <2>1, <2>5, <3>1
  <2> QED
    BY <2>1, <2>3, <2>4, <2>5
<1> QED
  BY <1>1, <1>2, <1>3

StartOf(j) == (j - 1) * MaxRpc

LEMMA PacketsOfMessage ==
  ASSUME Base, NEW m \in Messages, NEW c, c = Len(Packets(m))
  PROVE  /\ c \in Nat \ {0} /\ DOMAIN Packets(m) = 1..c /\ Packets(m) \in Seq(Seq(Octet))
         /\ StartOf(1) = 0
         /\ \A j \in 1..c :
              /\ StartOf(j) \in Nat /\ StartOf(j) < Len(m) /\ (partials \/ StartOf(j) = 0)
              /\ Packets(m)[j] = Packet(BodyOf(m, StartOf(j)))
              /\ StartOf(j + 1) = StartOf(j) + MaxRpc
              /\ (partials => ~IsPartial(m, StartOf(j))) <=> j = c
<1>1. m \in Seq(STRING) /\ m # <<>> /\ MaxRpc \in Nat \ {0}
  BY LinkAssumption
<1> PICK n \in Nat \ {0}, r \in Nat \ {0} : n = Len(m) /\ r = MaxRpc
  BY <1>1, EmptySeq
<1> PICK k : k = IF partials THEN NumParts(m) ELSE 1
  OBVIOUS
<1>2. k \in Nat \ {0} /\ \A j \in 1..k : /\ (j - 1) * r \in Nat /\ (j - 1) * r < n
                                         /\ partials \/ (j - 1) * r = 0
                                         /\ (partials => ~ (n - (j - 1) * r > r)) <=> j = k
  <2>1. CASE partials
    <3>1. k = Pieces(n, r)
      BY <2>1 DEF NumParts, Pieces
    <3>2. k \in Nat \ {0} /\ \A j \in 1..k : /\ (j - 1) * r \in Nat /\ (j - 1) * r < n
                                             /\ n - (j - 1) * r > r <=> j # k
      BY <3>1, Division
    <3>3. ASSUME NEW j \in 1..k
          PROVE  (partials => ~ (n - (j - 1) * r > r)) <=> j = k
      BY <2>1, <3>2, Zenon
    <3> QED
      BY <2>1, <3>2, <3>3, Zenon
  <2>2. CASE ~partials
    <3>1. k = 1 /\ \A j \in 1..k : j = 1 /\ (j - 1) * r = 0
      BY <2>2
    <3> QED
      BY <2>2, <3>1
  <2> QED
    BY <2>1, <2>2
<1>3. ASSUME NEW j \in 1..k
      PROVE  /\ StartOf(j) \in Nat /\ StartOf(j) < Len(m) /\ (partials \/ StartOf(j) = 0)
             /\ (partials => ~IsPartial(m, StartOf(j))) <=> j = k
  BY <1>2 DEF StartOf, IsPartial
<1>4. \A j \in 1..k : StartOf(j + 1) = StartOf(j) + MaxRpc
  <2>1. \A j \in 1..k : (j + 1 - 1) * r = (j - 1) * r + r
    BY <1>2
  <2> QED
    BY <2>1 DEF StartOf
<1>5. StartOf(1) = 0
  BY DEF StartOf
<1>6. /\ DOMAIN Packets(m) = 1..k
      /\ \A j \in 1..k : Packets(m)[j] = Packet(BodyOf(m, StartOf(j)))
  <2>1. CASE partials
    BY <2>1 DEF Packets, BodyOf, StartOf
  <2>2. CASE ~partials
    <3>1. Packets(m) = <<Packet(Data(m))>> /\ k = 1
      BY <2>2 DEF Packets
    <3>2. DOMAIN <<Packet(Data(m))>> = 1..1 /\ <<Packet(Data(m))>>[1] = Packet(Data(m))
      OBVIOUS
    <3>3. \A j \in 1..1 : j = 1
      OBVIOUS
    <3> QED
      BY <2>2, <3>1, <3>2, <3>3 DEF BodyOf
  <2> QED
    BY <2>1, <2>2
<1>7. ASSUME NEW j \in 1..k PROVE Packets(m)[j] \in Seq(Octet)
  <2>1. BodyOf(m, StartOf(j)) \in Seq(Octet)
    <3>1. CASE partials
      <4>1. Part(m, StartOf(j)) \in Seq(Octet)
        BY <1>3, PartHolds
      <4> QED
        BY <3>1, <4>1 DEF BodyOf
    <3>2. CASE ~partials
      BY <1>1, <3>2, DataHolds DEF BodyOf
    <3> QED
      BY <3>1, <3>2
  <2> QED
    BY <1>6, <2>1, PacketHolds
<1>8. Packets(m) \in [1..k -> Seq(Octet)]
  <2>1. Packets(m) = [j \in 1..k |-> Packets(m)[j]]
    <3>1. CASE partials
      BY <1>6, <3>1 DEF Packets
    <3>2. CASE ~partials
      <4>1. Packets(m) = <<Packet(Data(m))>> /\ k = 1
        BY <3>2 DEF Packets
      <4> QED
        BY <4>1
    <3> QED
      BY <3>1, <3>2
  <2> QED
    BY <1>7, <2>1
<1>9. Packets(m) \in Seq(Seq(Octet)) /\ c = k
  <2>1. Packets(m) \in Seq(Seq(Octet))
    <3>1. k \in Nat
      BY <1>2
    <3> QED
      BY <1>8, <3>1, SeqDef
  <2>2. DOMAIN Packets(m) = 1..c /\ c \in Nat
    BY <2>1, LenProperties
  <2> QED
    BY <1>2, <1>6, <2>1, <2>2
<1> QED
  BY <1>2, <1>3, <1>4, <1>5, <1>6, <1>9

(* What one more message changes of the parts before and adds. *)
LEMMA PartsSent ==
  ASSUME Base, NEW m \in Messages, NEW taken, SendPlist(m, taken),
         NEW k, k = Len(sent) + 1, NEW c, c = Len(Packets(m))
  PROVE  /\ k \in Nat \ {0} /\ sent' \in Seq(Messages) /\ DOMAIN sent = 1..(k - 1)
         /\ DOMAIN sent' = 1..k /\ Len(sent') = k
         /\ \A i \in 1..(k - 1) : i \in 1..k /\ sent'[i] = sent[i]
         /\ \A p \in Parts : Within(p) => /\ Within(p)' /\ Follows(p)' = Follows(p)
                                          /\ PacketAt(p)' = PacketAt(p)
         /\ \A j \in 1..c :
              /\ At(k, StartOf(j)) \in Parts /\ Within(At(k, StartOf(j)))'
              /\ Follows(At(k, StartOf(j)))'
                   = IF j = c THEN At(k + 1, 0) ELSE At(k, StartOf(j + 1))
              /\ PacketAt(At(k, StartOf(j)))' = Packets(m)[j]
<1>1. sent' = Append(sent, m) /\ partials' = partials /\ sent \in Seq(Messages)
  BY DEF SendPlist, Base
<1>2. /\ k \in Nat \ {0} /\ sent' \in Seq(Messages) /\ DOMAIN sent = 1..(k - 1)
      /\ DOMAIN sent' = 1..k /\ Len(sent') = k /\ sent'[k] = m
      /\ \A i \in 1..(k - 1) : i \in 1..k /\ sent'[i] = sent[i]
  <2> PICK l \in Nat : l = Len(sent) /\ DOMAIN sent = 1..l
    BY <1>1, LenProperties
  <2>1. k = l + 1 /\ k - 1 = l /\ k \in Nat \ {0} /\ \A i \in 1..l : i \in 1..(l + 1)
    OBVIOUS
  <2>2. /\ sent' \in Seq(Messages) /\ DOMAIN sent' = 1..(l + 1) /\ Len(sent') = l + 1
        /\ (\A i \in 1..l : sent'[i] = sent[i]) /\ sent'[l + 1] = m
    BY <1>1, Appended
  <2> QED
    BY <2>1, <2>2
<1>3. ASSUME NEW p \in Parts, Within(p)
      PROVE  /\ Within(p)' /\ Follows(p)' = Follows(p) /\ PacketAt(p)' = PacketAt(p)
  <2>1. p.of \in DOMAIN sent' /\ sent'[p.of] = sent[p.of]
    BY <1>2, <1>3 DEF Within
  <2>2. Within(p)'
    BY <1>1, <1>3, <2>1 DEF Within
  <2>3. IsLast(p)' <=> IsLast(p)
    BY <1>1, <2>1 DEF IsLast
  <2>4. Follows(p)' = Follows(p)
    BY <2>3 DEF Follows
  <2>5. PacketAt(p)' = PacketAt(p)
    BY <1>1, <2>1 DEF PacketAt, BodyOf
  <2> QED
    BY <2>2, <2>4, <2>5
<1>4. ASSUME NEW j \in 1..c
      PROVE  /\ At(k, StartOf(j)) \in Parts /\ Within(At(k, StartOf(j)))'
             /\ Follows(At(k, StartOf(j)))'
                  = IF j = c THEN At(k + 1, 0) ELSE At(k, StartOf(j + 1))
             /\ PacketAt(At(k, StartOf(j)))' = Packets(m)[j]
  <2>1. /\ StartOf(j) \in Nat /\ StartOf(j) < Len(m) /\ (partials \/ StartOf(j) = 0)
        /\ Packets(m)[j] = Packet(BodyOf(m, StartOf(j)))
        /\ StartOf(j + 1) = StartOf(j) + MaxRpc
        /\ (partials => ~IsPartial(m, StartOf(j))) <=> j = c
    BY PacketsOfMessage
  <2> PICK p : p = At(k, StartOf(j))
    OBVIOUS
  <2>2. p \in Parts /\ p.of = k /\ p.at = StartOf(j)
    BY <1>2, <2>1 DEF At, Parts
  <2>3. p.of \in DOMAIN sent' /\ sent'[p.of] = m
    BY <1>2, <2>2
  <2>4. Within(p)'
    BY <1>1, <2>1, <2>2, <2>3 DEF Within
  <2>5. IsLast(p)' <=> j = c
    BY <1>1, <2>1, <2>2, <2>3 DEF IsLast
  <2>6. Follows(p)' = IF j = c THEN At(k + 1, 0) ELSE At(k, StartOf(j + 1))
    BY <2>1, <2>2, <2>5 DEF Follows
  <2>7. PacketAt(p)' = Packets(m)[j]
    BY <1>1, <2>1, <2>2, <2>3 DEF PacketAt, BodyOf
  <2> QED
    BY <2>2, <2>4, <2>6, <2>7
<1> QED
  BY <1>2, <1>3, <1>4

(* The octets that it adds. *)
LEMMA SendStreams ==
  ASSUME Base, NEW m \in Messages, NEW taken \in Nat, SendPlist(m, taken),
         NEW parts \in Seq(Parts), \A j \in DOMAIN parts : Within(parts[j]), Stream(parts),
         NEW k, k = Len(sent) + 1, NEW n, n = Len(parts),
         NEW more, more = [j \in 1..(n + taken) |->
                             IF j <= n THEN parts[j] ELSE At(k, StartOf(j - n))]
  PROVE  wire' \in Seq(Octet) /\ Stream(more)'
<1> PICK c : c = Len(Packets(m))
  OBVIOUS
<1>1. c \in Nat \ {0} /\ taken <= c /\ Packets(m) \in Seq(Seq(Octet))
  BY PacketsOfMessage DEF SendPlist
<1>2. /\ \A p \in Parts : Within(p) => PacketAt(p)' = PacketAt(p)
      /\ \A j \in 1..c : At(k, StartOf(j)) \in Parts /\ PacketAt(At(k, StartOf(j)))' = Packets(m)[j]
  BY PartsSent
<1>3. n \in Nat /\ DOMAIN parts = 1..n
  BY LenProperties
<1> PICK f \in Seq(Seq(Octet)) : f = PacketsOf(parts)
  BY PacketsHold
<1> PICK g : g = SubSeq(Packets(m), 1, taken)
  OBVIOUS
<1>4. Len(f) = n /\ \A j \in 1..n : f[j] = PacketAt(parts[j])
  BY <1>3, PacketsHold
<1>5. g \in Seq(Seq(Octet)) /\ Len(g) = taken /\ \A j \in 1..taken : g[j] = Packets(m)[j]
  <2>1. taken \in 0..Len(Packets(m))
    BY <1>1
  <2> QED
    BY <1>1, <2>1, SplitAt DEF Beginning
<1>6. /\ f \o g \in Seq(Seq(Octet)) /\ Len(f \o g) = n + taken
      /\ \A j \in 1..(n + taken) : (f \o g)[j] = IF j <= n THEN f[j] ELSE g[j - n]
  <2>1. /\ f \o g \in Seq(Seq(Octet)) /\ Len(f \o g) = Len(f) + Len(g)
        /\ \A j \in 1..(Len(f) + Len(g)) :
             (f \o g)[j] = IF j <= Len(f) THEN f[j] ELSE g[j - Len(f)]
    BY <1>5, ConcatProperties
  <2> QED
    BY <1>4, <1>5, <2>1, Zenon
<1> PICK h : h = f \o g
  OBVIOUS
<1>7. ASSUME NEW j \in 1..(n + taken) PROVE PacketAt(more[j])' = h[j]
  <2>1. h[j] = IF j <= n THEN f[j] ELSE g[j - n]
    BY <1>6
  <2>2. CASE j <= n
    <3>1. j \in 1..n /\ more[j] = parts[j]
      BY <1>3, <2>2
    <3>2. parts[j] \in Parts /\ Within(parts[j])
      BY <1>3, <3>1, ElementOfSeq
    <3>3. PacketAt(more[j])' = PacketAt(parts[j])'
      BY <3>1
    <3> QED
      BY <1>2, <1>4, <2>1, <2>2, <3>1, <3>2, <3>3
  <2>3. CASE ~ (j <= n)
    <3>0. j - n \in 1..taken
      BY <1>3, <2>3
    <3> PICK i \in 1..taken : i = j - n
      BY <3>0
    <3>1. i \in 1..c /\ more[j] = At(k, StartOf(i))
      BY <1>1, <2>3
    <3>2. PacketAt(more[j])' = PacketAt(At(k, StartOf(i)))'
      BY <3>1
    <3> QED
      BY <1>2, <1>5, <2>1, <2>3, <3>1, <3>2
  <2> QED
    BY <2>2, <2>3
<1>8. DOMAIN more = 1..(n + taken)
  OBVIOUS
<1>9. PacketsOf(more)' = h
  <2>1. PacketsOf(more)' = [j \in 1..(n + taken) |-> PacketAt(more[j])']
    BY <1>8 DEF PacketsOf
  <2>2. h = [j \in 1..(n + taken) |-> h[j]]
    <3>1. h \in [1..Len(h) -> Seq(Octet)] /\ Len(h) = n + taken
      BY <1>6, LenProperties
    <3> QED
      BY <3>1
  <2> QED
    BY <1>7, <2>1, <2>2
<1> PICK s \in Seq(Octet), t \in Seq(Octet) : s = unread /\ t = wire
  BY DEF Base
<1> PICK u \in Seq(Octet) : u = FlattenSeq(g)
  BY <1>5, FlattenSeqType
<1>10. wire' = Joined(t, u) /\ unread' = s /\ hasLength' = hasLength /\ bodyLength' = bodyLength
  BY DEF SendPlist, Joined
<1>11. FlattenSeq(h) = Joined(s, Joined(t, u))
  <2>1. FlattenSeq(h) = Joined(FlattenSeq(f), u)
    BY <1>5, FlattenSeqConcat DEF Joined
  <2>2. FlattenSeq(f) = Joined(s, t)
    BY DEF Stream
  <2>3. Joined(Joined(s, t), u) = Joined(s, Joined(t, u))
    BY JoinedAssociative
  <2> QED
    BY <2>1, <2>2, <2>3
<1>12. wire' \in Seq(Octet)
  BY <1>10, JoinedType
<1>13. ASSUME hasLength
       PROVE  /\ more # <<>> /\ bodyLength' = Len(BodyOf(sent[more[1].of], more[1].at))'
              /\ Len(unread') >= LengthOctets
  <2>1. /\ parts # <<>> /\ bodyLength = Len(BodyOf(sent[parts[1].of], parts[1].at))
        /\ Len(unread) >= LengthOctets
    BY <1>13 DEF Stream
  <2>2. n # 0 /\ 1 \in 1..n /\ 1 \in 1..(n + taken) /\ more[1] = parts[1]
    BY <1>3, <2>1, EmptySeq
  <2>3. more # <<>>
    BY <1>8, <2>2
  <2>4. Within(parts[1])
    BY <1>3, <2>2
  <2>5. sent'[parts[1].of] = sent[parts[1].of]
    BY <2>4, PartsSent DEF Within
  <2>6. BodyOf(sent[more[1].of], more[1].at)' = BodyOf(sent[parts[1].of], parts[1].at)
    BY <2>2, <2>5 DEF BodyOf, SendPlist
  <2> QED
    BY <1>10, <2>1, <2>3, <2>6
<1> QED
  BY <1>9, <1>10, <1>11, <1>12, <1>13 DEF Stream

LEMMA SendStep ==
  ASSUME Base, Handed, FailsForLengthOnly, NEW m \in Messages, NEW taken \in Nat,
         SendPlist(m, taken),
         NEW parts \in Seq(Parts), NEW tip \in Parts, Tracks(parts, tip)
  PROVE  /\ Base' /\ Handed' /\ FailsForLengthOnly'
         /\ \E more \in Seq(Parts), next \in Parts : Tracks(more, next)'
<1> PICK k, c, n : k = Len(sent) + 1 /\ c = Len(Packets(m)) /\ n = Len(parts)
  OBVIOUS
<1>1. /\ UNCHANGED <<unread, reading, hasLength, bodyLength, partials, partial, received, failed,
                     content, calls>>
      /\ failed = "no" /\ ~broken /\ broken' = (taken < c) /\ taken <= c
  BY DEF SendPlist
<1>2. c \in Nat \ {0} /\ StartOf(1) = 0
  BY PacketsOfMessage
<1>3. n \in Nat /\ DOMAIN parts = 1..n /\ \A j \in 1..n : parts[j] \in Parts
  BY LenProperties, ElementOfSeq
<1>4. \A j \in 1..n : /\ Within(parts[j])
                      /\ Follows(parts[j]) = IF j + 1 \in 1..n THEN parts[j + 1] ELSE tip
  BY <1>3 DEF Tracks, Chained
<1>5. tip = At(k, 0)
  BY <1>1 DEF Tracks, Chained
<1>6. /\ k \in Nat \ {0} /\ sent' \in Seq(Messages) /\ DOMAIN sent = 1..(k - 1)
      /\ DOMAIN sent' = 1..k /\ Len(sent') = k
      /\ \A i \in 1..(k - 1) : i \in 1..k /\ sent'[i] = sent[i]
  BY PartsSent
<1>7. \A p \in Parts : Within(p) => Within(p)' /\ Follows(p)' = Follows(p)
  BY PartsSent
<1>8. \A j \in 1..c : /\ At(k, StartOf(j)) \in Parts /\ Within(At(k, StartOf(j)))'
                      /\ Follows(At(k, StartOf(j)))'
                           = IF j = c THEN At(k + 1, 0) ELSE At(k, StartOf(j + 1))
  BY PartsSent
<1> PICK more : more = [j \in 1..(n + taken) |->
                          IF j <= n THEN parts[j] ELSE At(k, StartOf(j - n))]
  OBVIOUS
<1> PICK next : next = IF taken = c THEN At(k + 1, 0) ELSE At(k, StartOf(taken + 1))
  OBVIOUS
<1>9. /\ \A j \in 1..n : j \in 1..(n + taken) /\ more[j] = parts[j]
      /\ \A i \in 1..taken : n + i \in 1..(n + taken) /\ more[n + i] = At(k, StartOf(i))
  <2>1. ASSUME NEW j \in 1..n PROVE j \in 1..(n + taken) /\ more[j] = parts[j]
    BY <1>3
  <2>2. ASSUME NEW i \in 1..taken PROVE n + i \in 1..(n + taken) /\ more[n + i] = At(k, StartOf(i))
    <3>1. n + i \in 1..(n + taken) /\ ~ (n + i <= n) /\ n + i - n = i
      BY <1>3
    <3> QED
      BY <3>1
  <2> QED
    BY <2>1, <2>2
<1>10. \A j \in 1..(n + taken) : j \in 1..n \/ \E i \in 1..taken : j = n + i
  <2> TAKE j \in 1..(n + taken)
  <2>1. CASE j <= n
    BY <1>3, <2>1
  <2>2. CASE ~ (j <= n)
    <3>1. j - n \in 1..taken /\ j = n + (j - n)
      BY <1>3, <2>2
    <3> QED
      BY <3>1
  <2> QED
    BY <2>1, <2>2
<1>11. \A i \in 1..taken : i \in 1..c
  BY <1>1, <1>2
<1>12. more \in Seq(Parts) /\ DOMAIN more = 1..(n + taken) /\ Len(more) = n + taken
  <2>1. \A j \in 1..(n + taken) : more[j] \in Parts
    BY <1>3, <1>8, <1>9, <1>10, <1>11
  <2>2. n + taken \in Nat
    BY <1>3
  <2>3. DOMAIN more = 1..(n + taken) /\ more \in [1..(n + taken) -> Parts]
    BY <2>1
  <2>4. more \in Seq(Parts)
    BY <2>2, <2>3, SeqDef
  <2>5. DOMAIN more = 1..Len(more) /\ Len(more) \in Nat
    BY <2>4, LenProperties
  <2> QED
    BY <2>2, <2>3, <2>4, <2>5
<1>13. next \in Parts
  <2>1. CASE taken = c
    BY <1>6, <2>1 DEF At, Parts
  <2>2. CASE taken # c
    <3>1. taken + 1 \in 1..c
      BY <1>1, <1>2, <2>2
    <3> QED
      BY <1>8, <2>2, <3>1
  <2> QED
    BY <2>1, <2>2
(* The part that is sent first follows those before it. *)
<1>14. tip = IF n + 1 \in 1..(n + taken) THEN more[n + 1] ELSE next
  <2>1. CASE taken = 0
    <3>1. taken # c /\ taken + 1 = 1 /\ n + 1 \notin 1..(n + taken)
      BY <1>2, <1>3, <2>1
    <3> QED
      BY <1>2, <1>5, <3>1
  <2>2. CASE taken # 0
    <3>1. 1 \in 1..taken
      BY <2>2
    <3>2. n + 1 \in 1..(n + taken) /\ more[n + 1] = At(k, StartOf(1))
      BY <1>9, <3>1
    <3> QED
      BY <1>2, <1>5, <3>2
  <2> QED
    BY <2>1, <2>2
<1>15. ASSUME NEW j \in 1..(n + taken)
       PROVE  /\ Within(more[j])'
              /\ Follows(more[j])' = IF j + 1 \in 1..(n + taken) THEN more[j + 1] ELSE next
  <2>1. ASSUME j \in 1..n
        PROVE  /\ Within(more[j])'
               /\ Follows(more[j])' = IF j + 1 \in 1..(n + taken) THEN more[j + 1] ELSE next
    <3>1. more[j] = parts[j] /\ parts[j] \in Parts /\ Within(parts[j])
      BY <1>3, <1>4, <1>9, <2>1
    <3>2. Within(parts[j])' /\ Follows(parts[j])' = Follows(parts[j])
      BY <1>7, <3>1
    <3>3. Within(more[j])' /\ Follows(more[j])' = Follows(parts[j])
      BY <3>1, <3>2
    <3>4. Follows(parts[j]) = IF j + 1 \in 1..n THEN parts[j + 1] ELSE tip
      BY <1>4, <2>1
    <3>5. CASE j + 1 \in 1..n
      BY <1>9, <3>3, <3>4, <3>5
    <3>6. CASE j + 1 \notin 1..n
      <4>1. j = n
        BY <1>3, <2>1, <3>6
      <4> QED
        BY <1>14, <3>3, <3>4, <3>6, <4>1
    <3> QED
      BY <3>5, <3>6
  <2>2. ASSUME NEW i \in 1..taken, j = n + i
        PROVE  /\ Within(more[j])'
               /\ Follows(more[j])' = IF j + 1 \in 1..(n + taken) THEN more[j + 1] ELSE next
    <3>1. more[j] = At(k, StartOf(i)) /\ i \in 1..c
      BY <1>9, <1>11, <2>2
    <3>2. /\ Within(At(k, StartOf(i)))'
          /\ Follows(At(k, StartOf(i)))'
               = IF i = c THEN At(k + 1, 0) ELSE At(k, StartOf(i + 1))
      BY <1>8, <3>1
    <3>3. /\ Within(more[j])'
          /\ Follows(more[j])' = IF i = c THEN At(k + 1, 0) ELSE At(k, StartOf(i + 1))
      BY <3>1, <3>2
    <3>4. CASE i = taken
      <4>1. j + 1 \notin 1..(n + taken)
        BY <1>3, <2>2, <3>4
      <4> QED
        BY <3>3, <3>4, <4>1
    <3>5. CASE i # taken
      <4>1. i + 1 \in 1..taken /\ i # c /\ j + 1 = n + (i + 1)
        BY <1>1, <1>2, <1>3, <2>2, <3>5
      <4>2. j + 1 \in 1..(n + taken) /\ more[j + 1] = At(k, StartOf(i + 1))
        BY <1>9, <4>1
      <4> QED
        BY <3>3, <4>1, <4>2
    <3> QED
      BY <3>4, <3>5
  <2> QED
    BY <1>10, <2>1, <2>2
<1>16. At(Len(received) + 1, Len(partial)) = IF more = <<>> THEN next ELSE more[1]
  <2>1. At(Len(received) + 1, Len(partial)) = IF parts = <<>> THEN tip ELSE parts[1]
    BY DEF Tracks, Chained
  <2>2. CASE parts # <<>>
    <3>1. 1 \in 1..n
      BY <1>3, <2>2, EmptySeq
    <3>2. more[1] = parts[1] /\ 1 \in DOMAIN more
      BY <1>9, <1>12, <3>1
    <3> QED
      BY <2>1, <2>2, <3>2
  <2>3. CASE parts = <<>>
    <3>1. n = 0
      BY <2>3, EmptySeq
    <3>2. more = <<>> <=> 1 \notin 1..(n + taken)
      BY <1>12, <3>1, EmptySeq
    <3> QED
      BY <1>14, <2>1, <2>3, <3>1, <3>2
  <2> QED
    BY <2>2, <2>3
<1>17. broken' \/ next = At(Len(sent') + 1, 0)
  <2>1. CASE taken < c
    BY <1>1, <2>1
  <2>2. CASE ~ (taken < c)
    <3>1. taken = c
      BY <1>1, <1>2, <2>2
    <3> QED
      BY <1>6, <3>1
  <2> QED
    BY <2>1, <2>2
<1>18. Chained(more, next)'
  BY <1>1, <1>12, <1>15, <1>16, <1>17 DEF Chained
<1>19. wire' \in Seq(Octet) /\ Stream(more)'
  <2>1. Stream(parts) /\ \A j \in DOMAIN parts : Within(parts[j])
    BY <1>3, <1>4 DEF Tracks
  <2> QED
    BY <2>1, SendStreams
<1>20. Collected'
  <2> SUFFICES ASSUME partial # <<>>
               PROVE  /\ Len(received) + 1 \in DOMAIN sent'
                      /\ Len(partial) <= Len(sent'[Len(received) + 1])
                      /\ partial = Beginning(sent'[Len(received) + 1], Len(partial))
    BY <1>1 DEF Collected
  <2>1. /\ Len(received) + 1 \in DOMAIN sent
        /\ Len(partial) <= Len(sent[Len(received) + 1])
        /\ partial = Beginning(sent[Len(received) + 1], Len(partial))
    BY DEF Tracks, Collected
  <2> PICK i : i = Len(received) + 1
    OBVIOUS
  <2>2. i \in DOMAIN sent' /\ sent'[i] = sent[i]
    BY <1>6, <2>1
  <2> QED
    BY <2>1, <2>2
<1>21. Tracks(more, next)'
  BY <1>18, <1>19, <1>20 DEF Tracks
<1>22. Base'
  BY <1>1, <1>6, <1>19 DEF Base
<1>23. Handed'
  <2>1. Len(received) <= Len(sent') /\ \A i \in DOMAIN received : received[i] = sent'[i]
    <3> PICK r \in Nat : r = Len(received) /\ DOMAIN received = 1..r
      BY LenProperties DEF Handed
    <3>1. r <= k - 1
      BY <1>6, LenProperties DEF Handed
    <3>2. \A i \in 1..r : i \in 1..(k - 1)
      BY <1>6, <3>1
    <3> QED
      BY <1>6, <3>1, <3>2 DEF Handed
  <2>2. /\ received \in Seq(Messages) /\ calls \in Seq(Plists) /\ Len(calls) = Len(received)
        /\ \A i \in DOMAIN calls : calls[i] = CallsOf(received[i])
        /\ \A i \in DOMAIN calls : calls[i] = {} => i = Len(calls) /\ failed = "refused"
    BY DEF Handed
  <2> QED
    BY <1>1, <2>1, <2>2 DEF Handed, CallsOf
<1>24. FailsForLengthOnly'
  BY <1>1 DEF FailsForLengthOnly
<1> QED
  BY <1>12, <1>13, <1>21, <1>22, <1>23, <1>24

-----------------------------------------------------------------------------
(* wi_on_recv: what is read is of the first part. *)

LEMMA PartsStay ==
  ASSUME UNCHANGED <<partials, sent>>, NEW parts
  PROVE  /\ PacketsOf(parts)' = PacketsOf(parts)
         /\ BodyOf(sent[parts[1].of], parts[1].at)' = BodyOf(sent[parts[1].of], parts[1].at)
         /\ \A p : /\ Within(p)' <=> Within(p)
                   /\ Follows(p)' = Follows(p)
BY DEF PacketsOf, PacketAt, BodyOf, Within, IsLast, Follows

LEMMA LinkStays ==
  ASSUME UNCHANGED linkVars, Handed, FailsForLengthOnly, NEW parts, NEW tip
  PROVE  /\ Handed' /\ FailsForLengthOnly'
         /\ Chained(parts, tip) => Chained(parts, tip)'
         /\ Collected => Collected'
<1>1. /\ UNCHANGED <<partials, sent, broken, partial, received, failed, content, calls>>
  BY DEF linkVars
<1>2. Handed'
  BY <1>1 DEF Handed, CallsOf
<1>3. FailsForLengthOnly'
  BY <1>1 DEF FailsForLengthOnly
<1>4. ASSUME Chained(parts, tip) PROVE Chained(parts, tip)'
  <2>1. \A p : (Within(p)' <=> Within(p)) /\ Follows(p)' = Follows(p)
    BY <1>1, PartsStay
  <2> QED
    BY <1>1, <1>4, <2>1 DEF Chained
<1>5. Collected => Collected'
  BY <1>1 DEF Collected
<1> QED
  BY <1>2, <1>3, <1>4, <1>5

LEMMA ReadStep ==
  ASSUME Base, Handed, FailsForLengthOnly, NEW n \in DOMAIN wire, OnRecv(n),
         NEW parts \in Seq(Parts), NEW tip \in Parts, Tracks(parts, tip)
  PROVE  Base' /\ Handed' /\ FailsForLengthOnly' /\ Tracks(parts, tip)'
<1>1. /\ UNCHANGED <<hasLength, bodyLength>> /\ UNCHANGED linkVars /\ failed = "no"
      /\ unread' = Joined(unread, Beginning(wire, n)) /\ wire' = Rest(wire, n)
  BY DEF OnRecv, Read, Joined, Beginning, Rest
<1> PICK s \in Seq(Octet), t \in Seq(Octet) : s = unread /\ t = wire
  BY DEF Base
<1>2. /\ unread' \in Seq(Octet) /\ wire' \in Seq(Octet) /\ Len(unread') >= Len(s)
      /\ Joined(unread', wire') = Joined(s, t)
  BY <1>1, ReadMoves
<1>3. Handed' /\ FailsForLengthOnly' /\ Chained(parts, tip)' /\ Collected'
  BY <1>1, LinkStays DEF Tracks
<1>4. Stream(parts)'
  <2>1. /\ PacketsOf(parts)' = PacketsOf(parts)
        /\ BodyOf(sent[parts[1].of], parts[1].at)' = BodyOf(sent[parts[1].of], parts[1].at)
    BY <1>1, PartsStay DEF linkVars
  <2>2. ASSUME hasLength PROVE Len(unread') >= LengthOctets
    <3>1. Len(s) >= LengthOctets /\ Len(s) \in Nat /\ Len(unread') \in Nat
      BY <1>2, <2>2, LenProperties DEF Tracks, Stream
    <3> QED
      BY <1>2, <3>1, PacketAssumption
  <2>3. FlattenSeq(PacketsOf(parts)) = Joined(unread', wire')
    BY <1>2 DEF Tracks, Stream
  <2>4. hasLength => parts # <<>> /\ bodyLength = Len(BodyOf(sent[parts[1].of], parts[1].at))
    BY DEF Tracks, Stream
  <2> QED
    BY <1>1, <2>1, <2>2, <2>3, <2>4 DEF Stream
<1>5. Base'
  BY <1>1, <1>2 DEF Base, linkVars
<1> QED
  BY <1>3, <1>4, <1>5 DEF Tracks

(* wi_parse_length: the octets of the length are the first of a packet. *)
LEMMA LengthIsOfPart ==
  ASSUME Base, LengthReady, NEW parts \in Seq(Parts), NEW tip \in Parts, Tracks(parts, tip)
  PROVE  /\ parts # <<>> /\ Within(parts[1]) /\ parts[1] \in Parts
         /\ unread[1] = <<"length", Len(BodyOf(sent[parts[1].of], parts[1].at))>>
<1>1. Stream(parts) /\ \A j \in DOMAIN parts : Within(parts[j])
  BY DEF Tracks, Chained
<1> PICK s \in Seq(Octet), t \in Seq(Octet) : s = unread /\ t = wire
  BY DEF Base
<1>2. Len(s) >= LengthOctets /\ Len(s) \in Nat /\ Len(s) # 0
  BY LenProperties, PacketAssumption DEF LengthReady
<1>3. parts # <<>>
  <2> SUFFICES ASSUME parts = <<>> PROVE FALSE
    OBVIOUS
  <2>1. PacketsOf(parts) = <<>>
    <3>1. PacketsOf(parts) \in Seq(Seq(Octet)) /\ Len(PacketsOf(parts)) = 0
      BY <1>1, PacketsHold, EmptySeq
    <3> QED
      BY <3>1, EmptySeq
  <2>2. FlattenSeq(<<>>) = Joined(s, t)
    BY <1>1, <2>1 DEF Stream
  <2>3. Joined(s, t) = <<>>
    BY <2>2, FlattenSeqEmpty
  <2>4. Len(Joined(s, t)) = Len(s) + Len(t) /\ Len(t) \in Nat /\ Len(<<>>) = 0
    BY JoinedElements, EmptySeq
  <2> QED
    BY <1>2, <2>3, <2>4
<1>4. /\ parts[1] \in Parts /\ Within(parts[1])
      /\ unread[1] = <<"length", Len(BodyOf(sent[parts[1].of], parts[1].at))>>
  BY <1>1, <1>2, <1>3, FirstPart
<1> QED
  BY <1>3, <1>4

LEMMA LengthStep ==
  ASSUME Base, Handed, FailsForLengthOnly, LoopLength, failed = "no",
         NEW parts \in Seq(Parts), NEW tip \in Parts, Tracks(parts, tip)
  PROVE  /\ Base' /\ Handed' /\ FailsForLengthOnly'
         /\ failed' = "no" => Tracks(parts, tip)'
<1> PICK p, b : p = parts[1] /\ b = BodyOf(sent[parts[1].of], parts[1].at)
  OBVIOUS
<1>1. parts # <<>> /\ Within(p) /\ p \in Parts /\ unread[1] = <<"length", Len(b)>> /\ LengthReady
  <2>1. LengthReady
    BY DEF LoopLength
  <2> QED
    BY <2>1, LengthIsOfPart
<1>2. CASE TakeLength /\ UNCHANGED linkVars
  <2>1. /\ bodyLength' = Len(b) /\ hasLength' = TRUE /\ UNCHANGED <<wire, unread, reading>>
    BY <1>1, <1>2 DEF TakeLength
  <2>2. Handed' /\ FailsForLengthOnly' /\ Chained(parts, tip)' /\ Collected'
    BY <1>2, LinkStays DEF Tracks
  <2>3. /\ PacketsOf(parts)' = PacketsOf(parts) /\ BodyOf(sent[parts[1].of], parts[1].at)' = b
    BY <1>2, PartsStay DEF linkVars
  <2>4. Stream(parts)'
    <3>1. FlattenSeq(PacketsOf(parts)) = Joined(unread, wire) /\ Len(unread) >= LengthOctets
      BY <1>1 DEF Tracks, Stream, LengthReady
    <3> QED
      BY <1>1, <2>1, <2>3, <3>1 DEF Stream
  <2>5. Base'
    BY <1>2, <2>1 DEF Base, linkVars
  <2> QED
    BY <2>2, <2>4, <2>5 DEF Tracks
<1>3. CASE TooLong(unread[1][2]) /\ failed' = "length"
  <2>1. /\ unread' = Rest(unread, LengthOctets) /\ reading' = FALSE
        /\ UNCHANGED <<wire, hasLength, bodyLength, partials, sent, broken, partial, received,
                       content, calls>>
    BY <1>3 DEF LoopLength, TakeLength, Rest, linkVars
  <2>2. unread' \in Seq(Octet)
    <3>1. unread \in Seq(Octet) /\ Len(unread) \in Nat /\ Len(unread) >= LengthOctets
      BY <1>1, LenProperties DEF Base, LengthReady
    <3>2. LengthOctets \in 0..Len(unread)
      BY <3>1, PacketAssumption
    <3> QED
      BY <2>1, <3>1, <3>2, SplitAt
  <2>3. Base'
    BY <1>3, <2>1, <2>2 DEF Base
  <2>4. Handed'
    <3>1. \A k \in DOMAIN calls : calls[k] # {}
      BY DEF Handed
    <3> QED
      BY <2>1, <3>1 DEF Handed, CallsOf
  <2>5. FailsForLengthOnly'
    <3>1. Len(b) > MaxBody
      BY <1>1, <1>3 DEF TooLong
    <3> PICK m : m = sent[p.of]
      OBVIOUS
    <3>2. m \in Messages /\ m \in Seq(STRING) /\ IF partials THEN Len(b) <= MaxBody ELSE Len(b) = Len(m)
      BY <1>1, BodyHolds
    <3>3. ~partials /\ Len(m) > MaxBody
      <4>1. Len(b) \in Nat /\ MaxBody \in Nat
        BY <1>1, BodyHolds, LenProperties, LinkAssumption
      <4> QED
        BY <3>1, <3>2, <4>1
    <3>4. p.of \in DOMAIN sent
      BY <1>1 DEF Within
    <3> QED
      BY <2>1, <3>3, <3>4 DEF FailsForLengthOnly
  <2> QED
    BY <1>3, <2>3, <2>4, <2>5
<1> QED
  BY <1>2, <1>3 DEF LoopLength

-----------------------------------------------------------------------------
(* wi_parse_plist: a packet is taken. *)

LEMMA RestChained ==
  ASSUME Base, NEW parts \in Seq(Parts), parts # <<>>, NEW tip \in Parts, Chained(parts, tip),
         UNCHANGED <<partials, sent, broken>>,
         At(Len(received') + 1, Len(partial')) = Follows(parts[1])
  PROVE  Chained(Tail(parts), tip)'
<1> PICK n \in Nat \ {0} : n = Len(parts) /\ DOMAIN parts = 1..n
  BY LenProperties, EmptySeq
<1> PICK rest : rest = Tail(parts)
  OBVIOUS
<1>1. rest \in Seq(Parts) /\ Len(rest) = n - 1 /\ \A j \in 1..(n - 1) : rest[j] = parts[j + 1]
  BY HeadTailProperties
<1>2. DOMAIN rest = 1..(n - 1)
  BY <1>1, LenProperties
<1>3. \A j \in 1..n : /\ Within(parts[j])
                      /\ Follows(parts[j]) = IF j + 1 \in 1..n THEN parts[j + 1] ELSE tip
  BY DEF Chained
<1>4. \A p : (Within(p)' <=> Within(p)) /\ Follows(p)' = Follows(p)
  BY PartsStay
<1>5. ASSUME NEW j \in 1..(n - 1)
      PROVE  /\ Within(rest[j])
             /\ Follows(rest[j]) = IF j + 1 \in 1..(n - 1) THEN rest[j + 1] ELSE tip
  <2> PICK i \in 1..n : i = j + 1
    OBVIOUS
  <2>1. rest[j] = parts[i]
    BY <1>1
  <2>2. Within(parts[i]) /\ Follows(parts[i]) = IF i + 1 \in 1..n THEN parts[i + 1] ELSE tip
    BY <1>3
  <2>3. CASE j + 1 \in 1..(n - 1)
    <3>1. rest[j + 1] = parts[i + 1] /\ i + 1 \in 1..n
      BY <1>1, <2>3
    <3> QED
      BY <2>1, <2>2, <2>3, <3>1
  <2>4. CASE j + 1 \notin 1..(n - 1)
    <3>1. i + 1 \notin 1..n
      BY <2>4
    <3> QED
      BY <2>1, <2>2, <2>4, <3>1
  <2> QED
    BY <2>3, <2>4
<1>6. Follows(parts[1]) = IF rest = <<>> THEN tip ELSE rest[1]
  <2>1. 1 \in 1..n /\ 1 + 1 = 2
    OBVIOUS
  <2>2. Follows(parts[1]) = IF 2 \in 1..n THEN parts[2] ELSE tip
    BY <1>3, <2>1
  <2>3. CASE n = 1
    <3>1. rest = <<>> /\ 2 \notin 1..n
      BY <1>1, <2>3, EmptySeq
    <3> QED
      BY <2>2, <3>1
  <2>4. CASE n # 1
    <3>1. 2 \in 1..n /\ 1 \in 1..(n - 1) /\ n - 1 # 0
      BY <2>4
    <3>2. rest # <<>> /\ rest[1] = parts[2]
      BY <1>1, <2>1, <3>1, EmptySeq
    <3> QED
      BY <2>2, <3>1, <3>2
  <2> QED
    BY <2>3, <2>4
<1>7. broken' \/ tip = At(Len(sent') + 1, 0)
  BY DEF Chained
<1>8. \A j \in DOMAIN rest :
        /\ Within(rest[j])'
        /\ Follows(rest[j])' = IF j + 1 \in DOMAIN rest THEN rest[j + 1] ELSE tip
  BY <1>2, <1>4, <1>5
<1> QED
  BY <1>6, <1>7, <1>8 DEF Chained

(* The packet is that of the first part. *)
LEMMA PacketIsPart ==
  ASSUME Base, PacketReady, NEW parts \in Seq(Parts), NEW tip \in Parts, Tracks(parts, tip),
         UNCHANGED <<partials, sent, wire>>, hasLength' = FALSE,
         unread' = SubSeq(unread, Total + 1, Len(unread))
  PROVE  /\ parts # <<>> /\ parts[1] \in Parts /\ Within(parts[1])
         /\ Body = BodyOf(sent[parts[1].of], parts[1].at)
         /\ unread' \in Seq(Octet) /\ Stream(Tail(parts))'
<1> PICK b : b = BodyOf(sent[parts[1].of], parts[1].at)
  OBVIOUS
<1> PICK n : n = LengthOctets + Len(b)
  OBVIOUS
<1>1. /\ parts # <<>> /\ bodyLength = Len(b) /\ hasLength /\ Len(unread) >= Total
      /\ Stream(parts) /\ \A j \in DOMAIN parts : Within(parts[j])
  BY DEF PacketReady, Tracks, Chained, Stream
<1>2. parts[1] \in Parts /\ Within(parts[1]) /\ b \in Seq(Octet) /\ n \in Nat
  BY <1>1, FirstPart
<1>3. Total = n
  <2>1. Len(b) \in Nat
    BY <1>2, LenProperties
  <2>2. Len(b) + LengthOctets = LengthOctets + Len(b)
    BY <2>1, PacketAssumption
  <2> QED
    BY <1>1, <2>2, LinkAssumption DEF Total
<1>4. Len(unread) >= n
  BY <1>1, <1>3
<1>5. /\ Between(unread, LengthOctets, n) = b /\ Rest(unread, n) \in Seq(Octet)
      /\ FlattenSeq(PacketsOf(Tail(parts))) = Joined(Rest(unread, n), wire)
  BY <1>1, <1>4, FirstPart
<1>6. Body = b
  BY <1>3, <1>5 DEF Body, Between
<1>7. unread' = Rest(unread, n)
  BY <1>3 DEF Rest
<1>8. PacketsOf(Tail(parts))' = PacketsOf(Tail(parts))
  BY PartsStay
<1>9. Stream(Tail(parts))'
  BY <1>5, <1>7, <1>8 DEF Stream
<1> QED
  BY <1>1, <1>2, <1>5, <1>6, <1>7, <1>9

(* What has been collected is where the first part starts. *)
LEMMA CollectedOfPart ==
  ASSUME Base, NEW parts \in Seq(Parts), parts # <<>>, NEW tip \in Parts, Tracks(parts, tip),
         NEW m, m = sent[parts[1].of], m \in Seq(STRING)
  PROVE  /\ parts[1].of = Len(received) + 1 /\ parts[1].at = Len(partial)
         /\ Len(partial) \in 0..Len(m) /\ partial = Beginning(m, Len(partial))
<1>1. parts[1] = At(Len(received) + 1, Len(partial)) /\ Within(parts[1])
  <2>1. 1 \in DOMAIN parts
    BY LenProperties, EmptySeq
  <2> QED
    BY <2>1 DEF Tracks, Chained
<1>2. parts[1].of = Len(received) + 1 /\ parts[1].at = Len(partial)
  BY <1>1 DEF At
<1>3. CASE partial = <<>>
  <2>1. Len(partial) = 0 /\ Beginning(m, 0) = <<>> /\ Len(m) \in Nat
    BY <1>3, EmptySeq, BeginningIs, LenProperties
  <2> QED
    BY <1>2, <1>3, <2>1
<1>4. CASE partial # <<>>
  <2>1. Len(partial) <= Len(m) /\ partial = Beginning(m, Len(partial))
    BY <1>2, <1>4 DEF Tracks, Collected
  <2>2. Len(partial) \in Nat /\ Len(m) \in Nat
    BY LenProperties DEF Base
  <2> QED
    BY <1>2, <2>1, <2>2
<1> QED
  BY <1>3, <1>4

LEMMA PartTaken ==
  ASSUME Base, Handed, FailsForLengthOnly, failed = "no", PacketReady,
         partials, Body[1] = <<"key", "partial">>, TakePacket(TRUE),
         partial' = Joined(partial, Plain(Tail(Body))),
         UNCHANGED <<received, failed, calls, partials, sent, broken, content>>,
         NEW parts \in Seq(Parts), NEW tip \in Parts, Tracks(parts, tip)
  PROVE  Base' /\ Handed' /\ FailsForLengthOnly' /\ Tracks(Tail(parts), tip)'
<1> PICK p : p = parts[1]
  OBVIOUS
<1> PICK m : m = sent[p.of]
  OBVIOUS
<1> PICK b : b = BodyOf(m, p.at)
  OBVIOUS
<1>1. /\ parts # <<>> /\ p \in Parts /\ Within(p) /\ Body = b
      /\ unread' \in Seq(Octet) /\ Stream(Tail(parts))'
  BY PacketIsPart DEF TakePacket
<1>2. m \in Seq(STRING) /\ m \in Messages
  BY <1>1, BodyHolds
<1>3. ~IsLast(p) /\ p.at + MaxRpc < Len(m) /\ Plain(Tail(b)) = Between(m, p.at, p.at + MaxRpc)
  BY <1>1, BodyHolds
<1>4. /\ p.of = Len(received) + 1 /\ p.at = Len(partial)
      /\ Len(partial) \in 0..Len(m) /\ partial = Beginning(m, Len(partial))
  BY <1>1, <1>2, CollectedOfPart
<1> PICK a \in Nat, e \in Nat : a = p.at /\ e = a + MaxRpc
  BY <1>4, LinkAssumption
<1>5. a \in 0..Len(m) /\ e \in a..Len(m) /\ e \in 0..Len(m)
  <2>1. Len(m) \in Nat /\ MaxRpc \in Nat
    BY <1>2, LenProperties, LinkAssumption
  <2> QED
    BY <1>3, <2>1
<1>6. partial' = Beginning(m, e)
  <2>1. partial' = Joined(Beginning(m, a), Between(m, a, e))
    BY <1>1, <1>3, <1>4
  <2> QED
    BY <1>2, <1>5, <2>1, BeginningGrows
<1>7. partial' \in Seq(STRING) /\ Len(partial') = e
  <2>1. Beginning(m, e) \in Seq(STRING) /\ Len(Beginning(m, e)) = e
    BY <1>2, <1>5, SplitAt
  <2> QED
    BY <1>6, <2>1
<1>8. At(Len(received') + 1, Len(partial')) = Follows(p)
  BY <1>3, <1>4, <1>7 DEF Follows
<1>9. Chained(Tail(parts), tip)'
  BY <1>1, <1>8, RestChained DEF Tracks
<1>10. Collected'
  <2>1. p.of \in DOMAIN sent'
    BY <1>1 DEF Within
  <2> QED
    BY <1>4, <1>5, <1>6, <1>7, <2>1 DEF Collected
<1>11. Base'
  BY <1>1, <1>7 DEF Base, TakePacket
<1>12. Handed'
  BY DEF Handed, CallsOf
<1>13. FailsForLengthOnly'
  BY DEF FailsForLengthOnly
<1> QED
  BY <1>1, <1>9, <1>10, <1>11, <1>12, <1>13 DEF Tracks

LEMMA CallsArePlists == \A m \in Messages : content \in DOMAIN Contents => CallsOf(m) \in Plists
  BY DEF CallsOf, Made, Plists

LEMMA HandedOn ==
  ASSUME Handed, failed = "no", NEW m \in Messages, content \in DOMAIN Contents,
         sent \in Seq(Messages), Len(received) + 1 \in 1..Len(sent),
         sent[Len(received) + 1] = m, received' = Append(received, m),
         calls' = Append(calls, CallsOf(m)), UNCHANGED <<sent, content>>,
         CallsOf(m) = {} => failed' = "refused"
  PROVE  Handed' /\ Len(received') = Len(received) + 1
<1> PICK r \in Nat : r = Len(received) /\ DOMAIN received = 1..r
  BY LenProperties DEF Handed
<1>1. /\ received' \in Seq(Messages) /\ DOMAIN received' = 1..(r + 1) /\ Len(received') = r + 1
      /\ (\A k \in 1..r : received'[k] = received[k]) /\ received'[r + 1] = m
  BY Appended DEF Handed
<1>2. /\ calls' \in Seq(Plists) /\ DOMAIN calls = 1..r /\ DOMAIN calls' = 1..(r + 1)
      /\ Len(calls') = r + 1
      /\ (\A k \in 1..r : calls'[k] = calls[k]) /\ calls'[r + 1] = CallsOf(m)
  <2>1. CallsOf(m) \in Plists /\ calls \in Seq(Plists) /\ Len(calls) = r
    BY CallsArePlists DEF Handed
  <2> QED
    BY <2>1, Appended
<1>3. \A k \in 1..(r + 1) : k \in 1..r \/ k = r + 1
  OBVIOUS
<1>4. Len(received') <= Len(sent')
  BY <1>1
<1>5. \A k \in DOMAIN received' : received'[k] = sent'[k]
  BY <1>1, <1>3 DEF Handed
<1>6. \A k \in DOMAIN calls' : calls'[k] = CallsOf(received'[k])
  BY <1>1, <1>2, <1>3 DEF Handed
<1>7. \A k \in 1..r : calls[k] # {}
  BY <1>2 DEF Handed
<1>8. \A k \in DOMAIN calls' : calls'[k] = {} => k = Len(calls') /\ failed' = "refused"
  BY <1>2, <1>3, <1>7
<1> QED
  BY <1>1, <1>2, <1>4, <1>5, <1>6, <1>8 DEF Handed, CallsOf

LEMMA MessageTaken ==
  ASSUME Base, Handed, FailsForLengthOnly, failed = "no", PacketReady,
         ~ (partials /\ Body[1] = <<"key", "partial">>),
         NEW whole, whole = Joined(partial, Plain(IF partials THEN Tail(Body) ELSE Body)),
         NEW accepted \in BOOLEAN, accepted => CallsOf(whole) # {}, TakePacket(accepted),
         received' = Append(received, whole), partial' = CollectedAfterFinal(whole),
         failed' = IF accepted THEN failed ELSE "refused",
         calls' = Append(calls, CallsOf(whole)),
         UNCHANGED <<partials, sent, broken, content>>,
         NEW parts \in Seq(Parts), NEW tip \in Parts, Tracks(parts, tip)
  PROVE  Base' /\ Handed' /\ FailsForLengthOnly' /\ Tracks(Tail(parts), tip)'
<1> PICK p : p = parts[1]
  OBVIOUS
<1> PICK m : m = sent[p.of]
  OBVIOUS
<1> PICK b : b = BodyOf(m, p.at)
  OBVIOUS
<1>1. /\ parts # <<>> /\ p \in Parts /\ Within(p) /\ Body = b
      /\ unread' \in Seq(Octet) /\ Stream(Tail(parts))'
  BY PacketIsPart DEF TakePacket
<1>2. m \in Seq(STRING) /\ m \in Messages
  BY <1>1, BodyHolds
<1>3. IsLast(p)
  BY <1>1, BodyHolds
<1>4. Plain(IF partials THEN Tail(b) ELSE b) = Between(m, p.at, Len(m))
  BY <1>1, <1>3, BodyHolds
<1>5. /\ p.of = Len(received) + 1 /\ p.at = Len(partial)
      /\ Len(partial) \in 0..Len(m) /\ partial = Beginning(m, Len(partial))
  BY <1>1, <1>2, CollectedOfPart
<1>6. whole = m
  <2> PICK a \in 0..Len(m) : a = p.at
    BY <1>5
  <2>1. whole = Joined(Beginning(m, a), Between(m, a, Len(m)))
    BY <1>1, <1>4, <1>5
  <2>2. Len(m) \in a..Len(m)
    BY <1>2, LenProperties
  <2> QED
    BY <1>2, <2>1, <2>2, BeginningGrows, BeginningIs
<1>7. partial' = <<>> /\ Len(<<>>) = 0 /\ <<>> \in Seq(STRING)
  BY EmptySeq DEF CollectedAfterFinal
<1>8. p.of \in 1..Len(sent) /\ Len(sent) \in Nat
  BY <1>1, LenProperties DEF Within, Base
<1>9. Handed' /\ Len(received') = Len(received) + 1
  <2>1. Len(received) + 1 \in 1..Len(sent) /\ sent[Len(received) + 1] = m
    BY <1>5, <1>8
  <2> QED
    BY <1>2, <1>6, <2>1, HandedOn DEF Base
<1>10. At(Len(received') + 1, Len(partial')) = Follows(p)
  BY <1>3, <1>5, <1>7, <1>9 DEF Follows
<1>11. Chained(Tail(parts), tip)'
  BY <1>1, <1>10, RestChained DEF Tracks
<1>12. Collected'
  BY <1>7 DEF Collected
<1>13. Base'
  BY <1>1, <1>7 DEF Base, TakePacket
<1>14. FailsForLengthOnly'
  BY DEF FailsForLengthOnly
<1> QED
  BY <1>1, <1>9, <1>11, <1>12, <1>13, <1>14 DEF Tracks

LEMMA PacketStep ==
  ASSUME Base, Handed, FailsForLengthOnly, failed = "no",
         NEW handled \in BOOLEAN, LoopPacket(handled),
         NEW parts \in Seq(Parts), NEW tip \in Parts, Tracks(parts, tip)
  PROVE  Base' /\ Handed' /\ FailsForLengthOnly' /\ Tracks(Tail(parts), tip)'
<1>1. PacketReady /\ UNCHANGED <<partials, sent, broken, content>>
  BY DEF LoopPacket
<1>2. CASE partials /\ Body[1] = <<"key", "partial">>
  <2>1. /\ TakePacket(TRUE) /\ partial' = Joined(partial, Plain(Tail(Body)))
        /\ UNCHANGED <<received, failed, calls>>
    BY <1>2 DEF LoopPacket, Joined
  <2> QED
    BY <1>1, <1>2, <2>1, PartTaken
<1>3. CASE ~ (partials /\ Body[1] = <<"key", "partial">>)
  <2> PICK whole : whole = Joined(partial, Plain(IF partials THEN Tail(Body) ELSE Body))
    OBVIOUS
  <2> PICK made : made = CallsOf(whole)
    OBVIOUS
  <2> PICK accepted : accepted = (made # {} /\ (handled \/ \A call \in made : call.on \notin CanFail))
    OBVIOUS
  <2>1. accepted \in BOOLEAN /\ (accepted => made # {})
    OBVIOUS
  <2>2. /\ TakePacket(accepted) /\ received' = Append(received, whole)
        /\ partial' = CollectedAfterFinal(whole)
        /\ failed' = IF accepted THEN failed ELSE "refused"
        /\ calls' = Append(calls, made)
    BY <1>3 DEF LoopPacket, Joined
  <2> QED
    BY <1>1, <1>3, <2>1, <2>2, MessageTaken
<1> QED
  BY <1>2, <1>3

LEMMA EndStep ==
  ASSUME Base, Handed, FailsForLengthOnly, LoopEnds,
         NEW parts \in Seq(Parts), NEW tip \in Parts, Tracks(parts, tip)
  PROVE  Base' /\ Handed' /\ FailsForLengthOnly' /\ Tracks(parts, tip)'
<1>1. UNCHANGED linkVars /\ UNCHANGED <<wire, unread, hasLength, bodyLength>> /\ reading' = FALSE
  BY DEF LoopEnds, NeedMore
<1>2. Handed' /\ FailsForLengthOnly' /\ Chained(parts, tip)' /\ Collected'
  BY <1>1, LinkStays DEF Tracks
<1>3. /\ PacketsOf(parts)' = PacketsOf(parts)
      /\ BodyOf(sent[parts[1].of], parts[1].at)' = BodyOf(sent[parts[1].of], parts[1].at)
  BY <1>1, PartsStay DEF linkVars
<1>4. Stream(parts)'
  BY <1>1, <1>3 DEF Tracks, Stream
<1>5. Base'
  BY <1>1 DEF Base, linkVars
<1> QED
  BY <1>2, <1>4, <1>5 DEF Tracks

-----------------------------------------------------------------------------
(* The theorems. *)

LEMMA InitInv == Init => Inv
<1> SUFFICES ASSUME Init PROVE Inv
  OBVIOUS
<1>1. <<>> \in Seq(Octet) /\ <<>> \in Seq(Messages) /\ <<>> \in Seq(STRING) /\ <<>> \in Seq(Plists)
      /\ <<>> \in Seq(Parts) /\ <<>> \in Seq(Seq(Octet)) /\ Len(<<>>) = 0 /\ DOMAIN <<>> = {}
  BY EmptySeq
<1>2. Base
  BY <1>1 DEF Init, ReaderInit, Base
<1>3. Handed /\ FailsForLengthOnly
  BY <1>1 DEF Init, Handed, FailsForLengthOnly
<1>4. At(1, 0) \in Parts /\ Tracks(<<>>, At(1, 0))
  <2>1. At(1, 0) \in Parts
    BY DEF At, Parts
  <2>2. Chained(<<>>, At(1, 0)) /\ Collected
    BY <1>1 DEF Init, Chained, Collected
  <2>3. PacketsOf(<<>>) = <<>>
    <3>1. PacketsOf(<<>>) \in Seq(Seq(Octet)) /\ Len(PacketsOf(<<>>)) = 0
      BY <1>1, <1>2, PacketsHold
    <3> QED
      BY <3>1, EmptySeq
  <2>4. Joined(<<>>, <<>>) = <<>>
    BY <1>1, ConcatEmptySeq DEF Joined
  <2>5. Stream(<<>>)
    BY <2>3, <2>4, FlattenSeqEmpty DEF Init, ReaderInit, Stream
  <2> QED
    BY <2>1, <2>2, <2>5 DEF Tracks
<1> QED
  BY <1>1, <1>2, <1>3, <1>4 DEF Inv

LEMMA StepInv == Inv /\ [Next]_vars => Inv'
<1> SUFFICES ASSUME Inv, [Next]_vars PROVE Inv'
  OBVIOUS
<1>1. Base /\ Handed /\ FailsForLengthOnly
  BY DEF Inv
<1>2. CASE UNCHANGED vars
  <2>1. UNCHANGED linkVars /\ UNCHANGED <<wire, unread, reading, hasLength, bodyLength>>
    BY <1>2 DEF vars, readerVars
  <2>2. Base'
    BY <1>1, <2>1 DEF Base, linkVars
  <2>3. Handed' /\ FailsForLengthOnly' /\ failed' = failed
    BY <1>1, <2>1, LinkStays DEF linkVars
  <2>4. ASSUME NEW parts \in Seq(Parts), NEW tip \in Parts, Tracks(parts, tip)
        PROVE  Tracks(parts, tip)'
    <3>1. Chained(parts, tip)' /\ Collected'
      BY <1>1, <2>1, <2>4, LinkStays DEF Tracks
    <3>2. /\ PacketsOf(parts)' = PacketsOf(parts)
          /\ BodyOf(sent[parts[1].of], parts[1].at)' = BodyOf(sent[parts[1].of], parts[1].at)
      BY <2>1, PartsStay DEF linkVars
    <3>3. Stream(parts)'
      BY <2>1, <2>4, <3>2 DEF Tracks, Stream
    <3> QED
      BY <3>1, <3>3 DEF Tracks
  <2> QED
    BY <2>2, <2>3, <2>4 DEF Inv
<1>3. CASE Next
  <2>1. failed = "no"
    BY <1>1, <1>3 DEF Next, RecvNext, SendPlist, OnRecv, LoopLength, LengthReady, LoopPacket,
                      PacketReady, LoopEnds, NeedMore, Base
  <2> PICK parts \in Seq(Parts), tip \in Parts : Tracks(parts, tip)
    BY <2>1 DEF Inv
  <2>2. ASSUME NEW m \in Messages, NEW taken \in 0..Len(m), SendPlist(m, taken) PROVE Inv'
    BY <1>1, <2>2, SendStep DEF Inv
  <2>3. ASSUME NEW n \in DOMAIN wire, OnRecv(n) PROVE Inv'
    BY <1>1, <2>3, ReadStep DEF Inv
  <2>4. CASE LoopLength
    BY <1>1, <2>1, <2>4, LengthStep DEF Inv
  <2>5. ASSUME NEW handled \in BOOLEAN, LoopPacket(handled) PROVE Inv'
    <3>1. Base' /\ Handed' /\ FailsForLengthOnly' /\ Tracks(Tail(parts), tip)'
      BY <1>1, <2>1, <2>5, PacketStep
    <3>2. Tail(parts) \in Seq(Parts)
      <4>1. parts # <<>>
        BY <2>5 DEF LoopPacket, PacketReady, Tracks, Stream
      <4> QED
        BY <4>1, HeadTailProperties
    <3> QED
      BY <3>1, <3>2 DEF Inv
  <2>6. CASE LoopEnds
    BY <1>1, <2>6, EndStep DEF Inv
  <2> QED
    BY <1>3, <2>2, <2>3, <2>4, <2>5, <2>6 DEF Next, RecvNext
<1> QED
  BY <1>2, <1>3

(* The inductive invariant holds in every state. *)
LEMMA Always == Spec => []Inv
  BY InitInv, StepInv, PTL DEF Spec

(* The receiver hands on the messages that were sent, whole and in order, for messages
   of any length, packets of any size and reads that end anywhere (wi_send_plist,
   wi_parse_plist). *)
THEOREM MessagesArriveWhole == Spec => []ReceivedWhole
<1>1. Inv => ReceivedWhole
  <2> SUFFICES ASSUME Handed, sent \in Seq(Messages) PROVE IsPrefix(received, sent)
    BY DEF Inv, Base, ReceivedWhole
  <2> PICK r \in Nat : r = Len(received) /\ DOMAIN received = 1..r
    BY LenProperties DEF Handed
  <2>1. Len(sent) \in Nat /\ r <= Len(sent) /\ received \in Seq(Messages)
    BY LenProperties DEF Handed
  <2>2. r \in 0..Len(sent)
    BY <2>1
  <2>3. /\ Beginning(sent, r) \in Seq(Messages) /\ Len(Beginning(sent, r)) = r
        /\ \A i \in 1..r : Beginning(sent, r)[i] = sent[i]
    BY <2>2, SplitAt
  <2>4. \A i \in 1..r : received[i] = Beginning(sent, r)[i]
    BY <2>3 DEF Handed
  <2>5. received = Beginning(sent, r)
    BY <2>1, <2>3, <2>4, SeqEqual
  <2>6. Beginning(received, r) = received
    BY <2>1, BeginningIs
  <2>7. SubSeq(received, 1, Len(received)) = SubSeq(sent, 1, Len(received))
    BY <2>5, <2>6 DEF Beginning
  <2> QED
    BY <2>1, <2>7 DEF IsPrefix
<1> QED
  BY <1>1, Always, PTL

(* The octets of a message are never taken for a length: the only length that the
   receiver refuses is one that was sent (wi_parse_length, wi_recv_loop). *)
THEOREM LengthsAreLengths == Spec => []FailsForLengthOnly
<1>1. Inv => FailsForLengthOnly
  BY DEF Inv
<1> QED
  BY <1>1, Always, PTL

(* If rpc.c makes of each plist what its sender means, then the proxy is called for what
   was sent, in order: the link adds, drops and mixes nothing (wi_recv_loop). *)
THEOREM LinkKeepsMeaning ==
  ASSUME \A c \in DOMAIN Contents : \A m \in Messages :
           RecvPlist(Contents[c][m].plist) = Contents[c][m].meant
  PROVE  Spec => []CallsAsMeant
<1>1. Inv => CallsAsMeant
  <2> SUFFICES ASSUME Handed, content \in DOMAIN Contents PROVE CallsAsMeant
    BY DEF Inv, Base
  <2> PICK r \in Nat : r = Len(received) /\ DOMAIN received = 1..r
    BY LenProperties DEF Handed
  <2>1. calls \in [1..r -> Plists] /\ DOMAIN calls = 1..r
    BY LenProperties DEF Handed
  <2>2. ASSUME NEW k \in 1..r PROVE calls[k] = Contents[content][received[k]].meant
    <3>1. received[k] \in Messages /\ calls[k] = CallsOf(received[k])
      BY <2>1, ElementOfSeq DEF Handed
    <3>2. CallsOf(received[k]) = RecvPlist(Contents[content][received[k]].plist)
      BY <3>1 DEF CallsOf, Made
    <3> QED
      BY <3>1, <3>2
  <2>3. calls = [k \in 1..r |-> Contents[content][received[k]].meant]
    BY <2>1, <2>2
  <2> QED
    BY <2>1, <2>3 DEF CallsAsMeant, Handed
<1> QED
  BY <1>1, Always, PTL

(* A page is listed under the keys that spell its id (rpc_parse_pages). *)
LEMMA PagesOnce ==
  ASSUME NEW plist, NEW call \in RecvPlist(plist),
         call.on = "applicationSentListing",
         NEW i \in DOMAIN call.pages, NEW j \in DOMAIN call.pages,
         call.pages[i].id = call.pages[j].id
  PROVE  Number[i] = Number[j]
<1> PICK args : args = Item(plist, "__argument")
  OBVIOUS
<1> PICK pages : pages = Item(args, "WIRListingKey")
  OBVIOUS
<1> PICK selector : selector = Value(plist, "__selector")
  OBVIOUS
<1>1. call \in RecvMsg(selector, args)
  BY DEF RecvPlist
<1>2. selector = "_rpc_applicationSentListing:"
  BY <1>1 DEF RecvMsg, RecvReportSetup, RecvApps, RecvApp, RecvData, RecvUpdated
<1>3. call \in RecvListing(args)
  BY <1>1, <1>2 DEF RecvMsg
<1>4. IsPages(pages) /\ call.pages = ParsePages(pages)
  BY <1>3 DEF RecvListing
<1>5. /\ pages.type = "dict" /\ i \in DOMAIN pages.value /\ j \in DOMAIN pages.value
      /\ call.pages[i].id = Number[i] /\ call.pages[j].id = Number[j]
  BY <1>4 DEF IsPages, ParsePages
<1> QED
  BY <1>5

(* A listing that reaches the proxy names a page twice only under two keys that
   spell one number, whatever its messages say (rpc_parse_pages). *)
THEOREM PagesAreListedOnce == Spec => []ListedOnce
<1>1. Inv => ListedOnce
  <2> SUFFICES ASSUME Handed, content \in DOMAIN Contents, NEW k \in DOMAIN calls,
                      NEW call \in calls[k], call.on = "applicationSentListing",
                      NEW i \in DOMAIN call.pages, NEW j \in DOMAIN call.pages,
                      call.pages[i].id = call.pages[j].id
               PROVE  Number[i] = Number[j]
    BY DEF Inv, Base, ListedOnce
  <2>1. k \in 1..Len(received)
    BY LenProperties DEF Handed
  <2>2. received[k] \in Messages /\ calls[k] = CallsOf(received[k])
    BY <2>1, ElementOfSeq DEF Handed
  <2>3. call \in RecvPlist(Contents[content][received[k]].plist)
    BY <2>2 DEF CallsOf, Made
  <2> QED
    BY <2>2, <2>3, PagesOnce
<1> QED
  BY <1>1, Always, PTL
=============================================================================
