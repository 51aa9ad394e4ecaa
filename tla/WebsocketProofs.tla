-------------------------- MODULE WebsocketProofs --------------------------
(***************************************************************************)
(* The safety of a browser connection for any requests, any frames of any  *)
(* length, any payloads of the inspector and any number of each.  First:   *)
(* that the validation table of Utf8 and the loop over a payload accept    *)
(* what the grammar of UTF-8 starts with, for every payload.  Then two     *)
(* inductive invariants: Inv says what has been sent on the connection in  *)
(* each of its states, and Whole what has been gathered of the client's    *)
(* messages.                                                               *)
(***************************************************************************)
EXTENDS Websocket, InductionProofs

(* What the grammar asks for after the octets that led to a state. *)
Remaining(state) ==
  CASE state = "T1" -> << TailOctet >>
    [] state = "T2" -> << TailOctet, TailOctet >>
    [] state = "T3" -> << TailOctet, TailOctet, TailOctet >>
    [] state = "S1" -> << 160..191, TailOctet >>
    [] state = "S2" -> << 128..159, TailOctet >>
    [] state = "S3" -> << 144..191, TailOctet, TailOctet >>
    [] state = "S4" -> << 128..143, TailOctet, TailOctet >>
    [] OTHER -> << >>

(* Within a character: the octet is one that may come next, and the state
   says what remains after it; or the octet is invalid. *)
THEOREM TableWithinCharacter ==
  ASSUME NEW state \in State \ {"S0", "ER"}, NEW ch \in Octet
  PROVE  IF ch \in Remaining(state)[1]
         THEN /\ validate_utf8(state, ch) # "ER"
              /\ Remaining(validate_utf8(state, ch)) = Tail(Remaining(state))
         ELSE validate_utf8(state, ch) = "ER"
<1>1. CASE state = "T1"
  <2>1. Remaining(state) = << TailOctet >> /\ Tail(Remaining(state)) = << >>
    BY <1>1 DEF Remaining
  <2>2. validate_utf8(state, ch) = IF ch \in TailOctet THEN "S0" ELSE "ER"
    BY <1>1 DEF validate_utf8, TailOctet
  <2>3. Remaining("S0") = << >>
    BY DEF Remaining
  <2> QED
    BY <2>1, <2>2, <2>3
<1>2. CASE state = "T2"
  <2>1. Remaining(state) = << TailOctet, TailOctet >> /\ Tail(Remaining(state)) = << TailOctet >>
    BY <1>2 DEF Remaining
  <2>2. validate_utf8(state, ch) = IF ch \in TailOctet THEN "T1" ELSE "ER"
    BY <1>2 DEF validate_utf8, TailOctet
  <2>3. Remaining("T1") = << TailOctet >>
    BY DEF Remaining
  <2> QED
    BY <2>1, <2>2, <2>3
<1>3. CASE state = "T3"
  <2>1. Remaining(state) = << TailOctet, TailOctet, TailOctet >> /\ Tail(Remaining(state)) = << TailOctet, TailOctet >>
    BY <1>3 DEF Remaining
  <2>2. validate_utf8(state, ch) = IF ch \in TailOctet THEN "T2" ELSE "ER"
    BY <1>3 DEF validate_utf8, TailOctet
  <2>3. Remaining("T2") = << TailOctet, TailOctet >>
    BY DEF Remaining
  <2> QED
    BY <2>1, <2>2, <2>3
<1>4. CASE state = "S1"
  <2>1. Remaining(state) = << 160..191, TailOctet >> /\ Tail(Remaining(state)) = << TailOctet >>
    BY <1>4 DEF Remaining
  <2>2. validate_utf8(state, ch) = IF ch \in 160..191 THEN "T1" ELSE "ER"
    BY <1>4 DEF validate_utf8, TailOctet
  <2>3. Remaining("T1") = << TailOctet >>
    BY DEF Remaining
  <2> QED
    BY <2>1, <2>2, <2>3
<1>5. CASE state = "S2"
  <2>1. Remaining(state) = << 128..159, TailOctet >> /\ Tail(Remaining(state)) = << TailOctet >>
    BY <1>5 DEF Remaining
  <2>2. validate_utf8(state, ch) = IF ch \in 128..159 THEN "T1" ELSE "ER"
    BY <1>5 DEF validate_utf8, TailOctet
  <2>3. Remaining("T1") = << TailOctet >>
    BY DEF Remaining
  <2> QED
    BY <2>1, <2>2, <2>3
<1>6. CASE state = "S3"
  <2>1. Remaining(state) = << 144..191, TailOctet, TailOctet >> /\ Tail(Remaining(state)) = << TailOctet, TailOctet >>
    BY <1>6 DEF Remaining
  <2>2. validate_utf8(state, ch) = IF ch \in 144..191 THEN "T2" ELSE "ER"
    BY <1>6 DEF validate_utf8, TailOctet
  <2>3. Remaining("T2") = << TailOctet, TailOctet >>
    BY DEF Remaining
  <2> QED
    BY <2>1, <2>2, <2>3
<1>7. CASE state = "S4"
  <2>1. Remaining(state) = << 128..143, TailOctet, TailOctet >> /\ Tail(Remaining(state)) = << TailOctet, TailOctet >>
    BY <1>7 DEF Remaining
  <2>2. validate_utf8(state, ch) = IF ch \in 128..143 THEN "T2" ELSE "ER"
    BY <1>7 DEF validate_utf8, TailOctet
  <2>3. Remaining("T2") = << TailOctet, TailOctet >>
    BY DEF Remaining
  <2> QED
    BY <2>1, <2>2, <2>3
<1> QED
  BY <1>1, <1>2, <1>3, <1>4, <1>5, <1>6, <1>7 DEF State

(* Between characters: the octet starts one, and the state says what remains of
   it; or no character starts with it. *)
THEOREM TableBetweenCharacters ==
  ASSUME NEW ch \in Octet
  PROVE  /\ \A form \in Forms : ch \in form[1] =>
              /\ validate_utf8("S0", ch) # "ER"
              /\ Remaining(validate_utf8("S0", ch)) = Tail(form)
         /\ (\A form \in Forms : ch \notin form[1]) => validate_utf8("S0", ch) = "ER"
<1> DEFINE Follows(form) == /\ validate_utf8("S0", ch) # "ER"
                            /\ Remaining(validate_utf8("S0", ch)) = Tail(form)
<1>1. ASSUME NEW form, form = << 0..127 >>, ch \in form[1]
      PROVE  Follows(form)
  <2>1. ch \in 0..127
    BY <1>1
  <2>2. Tail(form) = << >>
    BY <1>1
  <2>3. validate_utf8("S0", ch) = "S0"
    BY <2>1 DEF validate_utf8
  <2>4. Remaining("S0") = << >>
    BY DEF Remaining
  <2> QED
    BY <2>2, <2>3, <2>4
<1>2. ASSUME NEW form, form = << 194..223, TailOctet >>, ch \in form[1]
      PROVE  Follows(form)
  <2>1. ch \in 194..223
    BY <1>2
  <2>2. Tail(form) = << TailOctet >>
    BY <1>2
  <2>3. validate_utf8("S0", ch) = "T1"
    BY <2>1 DEF validate_utf8
  <2>4. Remaining("T1") = << TailOctet >>
    BY DEF Remaining
  <2> QED
    BY <2>2, <2>3, <2>4
<1>3. ASSUME NEW form, form = << {224}, 160..191, TailOctet >>, ch \in form[1]
      PROVE  Follows(form)
  <2>1. ch \in {224}
    BY <1>3
  <2>2. Tail(form) = << 160..191, TailOctet >>
    BY <1>3
  <2>3. validate_utf8("S0", ch) = "S1"
    BY <2>1 DEF validate_utf8
  <2>4. Remaining("S1") = << 160..191, TailOctet >>
    BY DEF Remaining
  <2> QED
    BY <2>2, <2>3, <2>4
<1>4. ASSUME NEW form, form = << 225..236, TailOctet, TailOctet >>, ch \in form[1]
      PROVE  Follows(form)
  <2>1. ch \in 225..236
    BY <1>4
  <2>2. Tail(form) = << TailOctet, TailOctet >>
    BY <1>4
  <2>3. validate_utf8("S0", ch) = "T2"
    BY <2>1 DEF validate_utf8
  <2>4. Remaining("T2") = << TailOctet, TailOctet >>
    BY DEF Remaining
  <2> QED
    BY <2>2, <2>3, <2>4
<1>5. ASSUME NEW form, form = << {237}, 128..159, TailOctet >>, ch \in form[1]
      PROVE  Follows(form)
  <2>1. ch \in {237}
    BY <1>5
  <2>2. Tail(form) = << 128..159, TailOctet >>
    BY <1>5
  <2>3. validate_utf8("S0", ch) = "S2"
    BY <2>1 DEF validate_utf8
  <2>4. Remaining("S2") = << 128..159, TailOctet >>
    BY DEF Remaining
  <2> QED
    BY <2>2, <2>3, <2>4
<1>6. ASSUME NEW form, form = << 238..239, TailOctet, TailOctet >>, ch \in form[1]
      PROVE  Follows(form)
  <2>1. ch \in 238..239
    BY <1>6
  <2>2. Tail(form) = << TailOctet, TailOctet >>
    BY <1>6
  <2>3. validate_utf8("S0", ch) = "T2"
    BY <2>1 DEF validate_utf8
  <2>4. Remaining("T2") = << TailOctet, TailOctet >>
    BY DEF Remaining
  <2> QED
    BY <2>2, <2>3, <2>4
<1>7. ASSUME NEW form, form = << {240}, 144..191, TailOctet, TailOctet >>, ch \in form[1]
      PROVE  Follows(form)
  <2>1. ch \in {240}
    BY <1>7
  <2>2. Tail(form) = << 144..191, TailOctet, TailOctet >>
    BY <1>7
  <2>3. validate_utf8("S0", ch) = "S3"
    BY <2>1 DEF validate_utf8
  <2>4. Remaining("S3") = << 144..191, TailOctet, TailOctet >>
    BY DEF Remaining
  <2> QED
    BY <2>2, <2>3, <2>4
<1>8. ASSUME NEW form, form = << 241..243, TailOctet, TailOctet, TailOctet >>, ch \in form[1]
      PROVE  Follows(form)
  <2>1. ch \in 241..243
    BY <1>8
  <2>2. Tail(form) = << TailOctet, TailOctet, TailOctet >>
    BY <1>8
  <2>3. validate_utf8("S0", ch) = "T3"
    BY <2>1 DEF validate_utf8
  <2>4. Remaining("T3") = << TailOctet, TailOctet, TailOctet >>
    BY DEF Remaining
  <2> QED
    BY <2>2, <2>3, <2>4
<1>9. ASSUME NEW form, form = << {244}, 128..143, TailOctet, TailOctet >>, ch \in form[1]
      PROVE  Follows(form)
  <2>1. ch \in {244}
    BY <1>9
  <2>2. Tail(form) = << 128..143, TailOctet, TailOctet >>
    BY <1>9
  <2>3. validate_utf8("S0", ch) = "S4"
    BY <2>1 DEF validate_utf8
  <2>4. Remaining("S4") = << 128..143, TailOctet, TailOctet >>
    BY DEF Remaining
  <2> QED
    BY <2>2, <2>3, <2>4
<1>10. ASSUME \A form \in Forms : ch \notin form[1]
       PROVE  validate_utf8("S0", ch) = "ER"
  <2>1. ch \notin 0..127
    <3>1. << 0..127 >> \in Forms /\ << 0..127 >>[1] = 0..127
      BY DEF Forms
    <3> QED
      BY <1>10, <3>1
  <2>2. ch \notin 194..223
    <3>1. << 194..223, TailOctet >> \in Forms /\ << 194..223, TailOctet >>[1] = 194..223
      BY DEF Forms
    <3> QED
      BY <1>10, <3>1
  <2>3. ch \notin {224}
    <3>1. << {224}, 160..191, TailOctet >> \in Forms /\ << {224}, 160..191, TailOctet >>[1] = {224}
      BY DEF Forms
    <3> QED
      BY <1>10, <3>1
  <2>4. ch \notin 225..236
    <3>1. << 225..236, TailOctet, TailOctet >> \in Forms /\ << 225..236, TailOctet, TailOctet >>[1] = 225..236
      BY DEF Forms
    <3> QED
      BY <1>10, <3>1
  <2>5. ch \notin {237}
    <3>1. << {237}, 128..159, TailOctet >> \in Forms /\ << {237}, 128..159, TailOctet >>[1] = {237}
      BY DEF Forms
    <3> QED
      BY <1>10, <3>1
  <2>6. ch \notin 238..239
    <3>1. << 238..239, TailOctet, TailOctet >> \in Forms /\ << 238..239, TailOctet, TailOctet >>[1] = 238..239
      BY DEF Forms
    <3> QED
      BY <1>10, <3>1
  <2>7. ch \notin {240}
    <3>1. << {240}, 144..191, TailOctet, TailOctet >> \in Forms /\ << {240}, 144..191, TailOctet, TailOctet >>[1] = {240}
      BY DEF Forms
    <3> QED
      BY <1>10, <3>1
  <2>8. ch \notin 241..243
    <3>1. << 241..243, TailOctet, TailOctet, TailOctet >> \in Forms /\ << 241..243, TailOctet, TailOctet, TailOctet >>[1] = 241..243
      BY DEF Forms
    <3> QED
      BY <1>10, <3>1
  <2>9. ch \notin {244}
    <3>1. << {244}, 128..143, TailOctet, TailOctet >> \in Forms /\ << {244}, 128..143, TailOctet, TailOctet >>[1] = {244}
      BY DEF Forms
    <3> QED
      BY <1>10, <3>1
  <2> QED
    BY <2>1, <2>2, <2>3, <2>4, <2>5, <2>6, <2>7, <2>8, <2>9 DEF validate_utf8
<1>11. ASSUME NEW form \in Forms, ch \in form[1]
       PROVE  Follows(form)
  <2> HIDE DEF Follows
  <2>1. CASE form = << 0..127 >>
    BY <1>1, <1>11, <2>1
  <2>2. CASE form = << 194..223, TailOctet >>
    BY <1>2, <1>11, <2>2
  <2>3. CASE form = << {224}, 160..191, TailOctet >>
    BY <1>3, <1>11, <2>3
  <2>4. CASE form = << 225..236, TailOctet, TailOctet >>
    BY <1>4, <1>11, <2>4
  <2>5. CASE form = << {237}, 128..159, TailOctet >>
    BY <1>5, <1>11, <2>5
  <2>6. CASE form = << 238..239, TailOctet, TailOctet >>
    BY <1>6, <1>11, <2>6
  <2>7. CASE form = << {240}, 144..191, TailOctet, TailOctet >>
    BY <1>7, <1>11, <2>7
  <2>8. CASE form = << 241..243, TailOctet, TailOctet, TailOctet >>
    BY <1>8, <1>11, <2>8
  <2>9. CASE form = << {244}, 128..143, TailOctet, TailOctet >>
    BY <1>9, <1>11, <2>9
  <2> QED
    BY <2>1, <2>2, <2>3, <2>4, <2>5, <2>6, <2>7, <2>8, <2>9 DEF Forms
<1> QED
  BY <1>10, <1>11

-----------------------------------------------------------------------------
(* The definition of the fold chooses this function, from sets of places of the
   payload to states. *)
IsScan(f, payload, places) ==
  f = [s \in SUBSET places |->
         IF s = {} THEN "S0" ELSE validate_utf8(f[s \ {Max(s)}], payload[Max(s)])]

LEMMA ScanChooses ==
  ASSUME NEW payload
  PROVE  FoldLeft(validate_utf8, "S0", payload)
           = (CHOOSE f : IsScan(f, payload, DOMAIN payload))[DOMAIN payload]
BY DEF FoldLeft, MapThenFoldSet, IsScan

LEMMA LastIsMax ==
  ASSUME NEW n \in Nat, NEW s \in SUBSET (1..n), n \in s
  PROVE  Max(s) = n
<1>1. \A y \in s : n >= y
  OBVIOUS
<1>2. \A x \in s : (\A y \in s : x >= y) => x = n
  BY <1>1
<1> QED
  BY <1>1, <1>2 DEF Max

(* The function exists: its values for sets within 1..k do not depend on more. *)
LEMMA ScanExists ==
  ASSUME NEW payload, NEW n \in Nat
  PROVE  \E f : IsScan(f, payload, 1..n)
<1> DEFINE good == {k \in 0..n : \E f : IsScan(f, payload, 1..k)}
<1>1. 0 \in good
  <2>1. SUBSET (1..0) = {{}}
    OBVIOUS
  <2> DEFINE f == [s \in SUBSET (1..0) |-> "S0"]
             g == [s \in SUBSET (1..0) |->
                     IF s = {} THEN "S0" ELSE validate_utf8(f[s \ {Max(s)}], payload[Max(s)])]
  <2>2. f = g
    BY <2>1
  <2>3. IsScan(f, payload, 1..0)
    BY <2>2 DEF IsScan
  <2> QED
    BY <2>3
<1>2. ASSUME NEW k \in 1..n, k - 1 \in good PROVE k \in good
  <2>1. PICK f : IsScan(f, payload, 1..(k - 1))
    BY <1>2
  <2>2. \A s \in SUBSET (1..(k - 1)) :
          f[s] = IF s = {} THEN "S0" ELSE validate_utf8(f[s \ {Max(s)}], payload[Max(s)])
    BY <2>1 DEF IsScan
  <2> DEFINE g == [s \in SUBSET (1..k) |->
                     IF k \in s THEN validate_utf8(f[s \ {k}], payload[k]) ELSE f[s]]
             h == [s \in SUBSET (1..k) |->
                     IF s = {} THEN "S0" ELSE validate_utf8(g[s \ {Max(s)}], payload[Max(s)])]
  <2>3. ASSUME NEW s \in SUBSET (1..k)
        PROVE  g[s] = IF s = {} THEN "S0" ELSE validate_utf8(g[s \ {Max(s)}], payload[Max(s)])
    <3>1. CASE k \in s
      <4>1. Max(s) = k /\ s # {} /\ s \ {k} \in SUBSET (1..k) /\ k \notin s \ {k}
        BY <3>1, LastIsMax
      <4>2. g[s \ {k}] = f[s \ {k}]
        BY <4>1
      <4> QED
        BY <3>1, <4>1, <4>2
    <3>2. CASE k \notin s
      <4>1. s \in SUBSET (1..(k - 1))
        <5>1. \A x \in s : x \in 1..k /\ x # k
          BY <3>2
        <5>2. \A x \in 1..k : x # k => x \in 1..(k - 1)
          OBVIOUS
        <5> QED
          BY <5>1, <5>2
      <4>3. s \ {Max(s)} \in SUBSET (1..k) /\ k \notin s \ {Max(s)}
        BY <3>2
      <4>2. g[s] = f[s] /\ g[s \ {Max(s)}] = f[s \ {Max(s)}]
        BY <3>2, <4>3
      <4> QED
        BY <2>2, <4>1, <4>2
    <3> QED
      BY <3>1, <3>2
  <2>4. g = h
    BY <2>3
  <2> HIDE DEF g
  <2>5. IsScan(g, payload, 1..k)
    BY <2>4, Zenon DEF IsScan
  <2>6. k \in 0..n
    OBVIOUS
  <2> QED
    BY <2>5, <2>6
<1>3. \A k \in 0..n : k \in good
  <2> HIDE DEF good
  <2> QED
    BY <1>1, <1>2, NumbersUpTo
<1> QED
  BY <1>3

-----------------------------------------------------------------------------
(* The states that the scan of a payload goes through. *)

Trace(st, payload) ==
  /\ st \in [0..Len(payload) -> State]
  /\ st[0] = "S0"
  /\ \A k \in 1..Len(payload) : st[k] = validate_utf8(st[k - 1], payload[k])

LEMMA TableType == \A state, ch : validate_utf8(state, ch) \in State
BY DEF validate_utf8, State

LEMMA ScanTrace ==
  ASSUME NEW payload \in Seq(Octet)
  PROVE  \E st : Trace(st, payload) /\ FoldLeft(validate_utf8, "S0", payload) = st[Len(payload)]
<1> PICK n \in Nat : n = Len(payload) /\ DOMAIN payload = 1..n
  BY LenProperties
<1>1. PICK f : f = (CHOOSE g : IsScan(g, payload, 1..n))
  OBVIOUS
<1>2. IsScan(f, payload, 1..n)
  BY <1>1, ScanExists
<1>3. \A s \in SUBSET (1..n) :
        f[s] = IF s = {} THEN "S0" ELSE validate_utf8(f[s \ {Max(s)}], payload[Max(s)])
  BY <1>2 DEF IsScan
<1>4. f[1..0] = "S0"
  <2>1. 1..0 = {} /\ {} \in SUBSET (1..n)
    OBVIOUS
  <2> QED
    BY <1>3, <2>1
<1>5. ASSUME NEW k \in 1..n PROVE f[1..k] = validate_utf8(f[1..(k - 1)], payload[k])
  <2>1. 1..k \in SUBSET (1..n) /\ 1..k # {} /\ (1..k) \ {k} = 1..(k - 1)
    OBVIOUS
  <2>2. Max(1..k) = k
    BY LastIsMax
  <2> QED
    BY <1>3, <2>1, <2>2
<1> DEFINE st == [k \in 0..n |-> f[1..k]]
<1>6. ASSUME NEW k \in 0..n PROVE f[1..k] \in State
  <2>1. CASE k = 0
    BY <1>4, <2>1 DEF State
  <2>2. CASE k # 0
    <3>1. k \in 1..n
      BY <2>2
    <3> QED
      BY <1>5, <3>1, TableType
  <2> QED
    BY <2>1, <2>2
<1>7. \A k \in 1..n : st[k] = f[1..k] /\ st[k - 1] = f[1..(k - 1)]
  OBVIOUS
<1>8. Trace(st, payload)
  BY <1>4, <1>5, <1>6, <1>7 DEF Trace
<1>9. FoldLeft(validate_utf8, "S0", payload) = st[n]
  BY <1>1, ScanChooses
<1> QED
  BY <1>8, <1>9

(* After an invalid octet the scan stays in the error state. *)
LEMMA ErrorStays ==
  ASSUME NEW payload \in Seq(Octet), NEW st, Trace(st, payload), st[Len(payload)] # "ER"
  PROVE  \A k \in 0..Len(payload) : st[k] # "ER"
<1> PICK n \in Nat : n = Len(payload)
  BY LenProperties
<1> SUFFICES ASSUME NEW k \in 0..n, st[k] = "ER" PROVE st[n] = "ER"
  OBVIOUS
<1> DEFINE good == {j \in 0..n : j >= k => st[j] = "ER"}
<1>1. 0 \in good
  OBVIOUS
<1>2. ASSUME NEW j \in 1..n, j - 1 \in good PROVE j \in good
  <2>1. st[j] = validate_utf8(st[j - 1], payload[j])
    BY DEF Trace
  <2>2. \A ch : validate_utf8("ER", ch) = "ER"
    BY DEF validate_utf8
  <2> QED
    BY <1>2, <2>1, <2>2
<1>3. \A j \in 0..n : j \in good
  <2> HIDE DEF good
  <2> QED
    BY <1>1, <1>2, NumbersUpTo
<1> QED
  BY <1>3

-----------------------------------------------------------------------------
(* The scan of a character. *)

LEMMA TupleType ==
  ASSUME NEW a \in SUBSET Nat, NEW b \in SUBSET Nat, NEW c \in SUBSET Nat, NEW d \in SUBSET Nat
  PROVE  /\ <<a>> \in Seq(SUBSET Nat) /\ Len(<<a>>) = 1
         /\ <<a, b>> \in Seq(SUBSET Nat) /\ Len(<<a, b>>) = 2
         /\ <<a, b, c>> \in Seq(SUBSET Nat) /\ Len(<<a, b, c>>) = 3
         /\ <<a, b, c, d>> \in Seq(SUBSET Nat) /\ Len(<<a, b, c, d>>) = 4
OBVIOUS

LEMMA FormType ==
  \A form \in Forms : /\ form \in Seq(SUBSET Nat) /\ Len(form) \in 1..4 /\ form # <<>>
                      /\ Len(Tail(form)) = Len(form) - 1
                      /\ \A k \in 1..(Len(form) - 1) : Tail(form)[k] = form[k + 1]
<1>1. \A form \in Forms : form \in Seq(SUBSET Nat) /\ Len(form) \in {1, 2, 3, 4}
  <2> DEFINE Good(form) == form \in Seq(SUBSET Nat) /\ Len(form) \in {1, 2, 3, 4}
  <2>1. TailOctet \in SUBSET Nat
    BY DEF TailOctet
  <2>2. Good(<< 0..127 >>) /\ Good(<< 194..223, TailOctet >>)
    BY <2>1, TupleType
  <2>3. Good(<< {224}, 160..191, TailOctet >>) /\ Good(<< 225..236, TailOctet, TailOctet >>)
    BY <2>1, TupleType
  <2>4. Good(<< {237}, 128..159, TailOctet >>) /\ Good(<< 238..239, TailOctet, TailOctet >>)
    BY <2>1, TupleType
  <2>5. Good(<< {240}, 144..191, TailOctet, TailOctet >>)
    BY <2>1, TupleType
  <2>6. Good(<< 241..243, TailOctet, TailOctet, TailOctet >>)
    BY <2>1, TupleType
  <2>7. Good(<< {244}, 128..143, TailOctet, TailOctet >>)
    BY <2>1, TupleType
  <2> HIDE DEF Good
  <2>8. ASSUME NEW form \in Forms PROVE Good(form)
    <3>1. CASE form = << 0..127 >>
      BY <2>2, <3>1
    <3>2. CASE form = << 194..223, TailOctet >>
      BY <2>2, <3>2
    <3>3. CASE form = << {224}, 160..191, TailOctet >>
      BY <2>3, <3>3
    <3>4. CASE form = << 225..236, TailOctet, TailOctet >>
      BY <2>3, <3>4
    <3>5. CASE form = << {237}, 128..159, TailOctet >>
      BY <2>4, <3>5
    <3>6. CASE form = << 238..239, TailOctet, TailOctet >>
      BY <2>4, <3>6
    <3>7. CASE form = << {240}, 144..191, TailOctet, TailOctet >>
      BY <2>5, <3>7
    <3>8. CASE form = << 241..243, TailOctet, TailOctet, TailOctet >>
      BY <2>6, <3>8
    <3>9. CASE form = << {244}, 128..143, TailOctet, TailOctet >>
      BY <2>7, <3>9
    <3> QED
      BY <3>1, <3>2, <3>3, <3>4, <3>5, <3>6, <3>7, <3>8, <3>9 DEF Forms
  <2> QED
    BY <2>8 DEF Good
<1> SUFFICES ASSUME NEW form \in Forms
             PROVE  /\ form # <<>> /\ Len(form) \in 1..4
                    /\ Len(Tail(form)) = Len(form) - 1
                    /\ \A k \in 1..(Len(form) - 1) : Tail(form)[k] = form[k + 1]
  BY <1>1
<1>2. form \in Seq(SUBSET Nat) /\ form # <<>> /\ Len(form) \in 1..4
  <2>1. form \in Seq(SUBSET Nat) /\ Len(form) \in {1, 2, 3, 4}
    BY <1>1
  <2> QED
    BY <2>1, EmptySeq, SMTT(30)
<1> QED
  BY <1>2, HeadTailProperties

LEMMA RemainingType ==
  \A state \in State : /\ Remaining(state) \in Seq(SUBSET Nat) /\ Len(Remaining(state)) \in Nat
                       /\ Len(Remaining(state)) = 0 <=> state \in {"S0", "ER"}
<1> SUFFICES ASSUME NEW state \in State
             PROVE  /\ Remaining(state) \in Seq(SUBSET Nat) /\ Len(Remaining(state)) \in Nat
                    /\ Len(Remaining(state)) = 0 <=> state \in {"S0", "ER"}
  OBVIOUS
<1>1. CASE state \in {"S0", "ER"}
  BY <1>1 DEF Remaining
<1>2. TailOctet \in SUBSET Nat
  BY DEF TailOctet
<1>3. CASE state \in {"T1", "T2", "T3"}
  <2>1. \/ Remaining(state) = << TailOctet >>
        \/ Remaining(state) = << TailOctet, TailOctet >>
        \/ Remaining(state) = << TailOctet, TailOctet, TailOctet >>
    BY <1>3 DEF Remaining
  <2>2. Remaining(state) \in Seq(SUBSET Nat) /\ Len(Remaining(state)) \in {1, 2, 3}
    BY <1>2, <2>1, TupleType
  <2> QED
    BY <1>3, <2>2
<1>4. CASE state \in {"S1", "S2", "S3", "S4"}
  <2>1. CASE state = "S1"
    <3>1. Remaining(state) = << 160..191, TailOctet >>
      BY <2>1 DEF Remaining
    <3>2. 160..191 \in SUBSET Nat
      OBVIOUS
    <3>3. Remaining(state) \in Seq(SUBSET Nat) /\ Len(Remaining(state)) = 2
      BY <1>2, <3>1, <3>2, TupleType
    <3> QED
      BY <2>1, <3>3
  <2>2. CASE state = "S2"
    <3>1. Remaining(state) = << 128..159, TailOctet >>
      BY <2>2 DEF Remaining
    <3>2. 128..159 \in SUBSET Nat
      OBVIOUS
    <3>3. Remaining(state) \in Seq(SUBSET Nat) /\ Len(Remaining(state)) = 2
      BY <1>2, <3>1, <3>2, TupleType
    <3> QED
      BY <2>2, <3>3
  <2>3. CASE state = "S3"
    <3>1. Remaining(state) = << 144..191, TailOctet, TailOctet >>
      BY <2>3 DEF Remaining
    <3>2. 144..191 \in SUBSET Nat
      OBVIOUS
    <3>3. Remaining(state) \in Seq(SUBSET Nat) /\ Len(Remaining(state)) = 3
      BY <1>2, <3>1, <3>2, TupleType
    <3> QED
      BY <2>3, <3>3
  <2>4. CASE state = "S4"
    <3>1. Remaining(state) = << 128..143, TailOctet, TailOctet >>
      BY <2>4 DEF Remaining
    <3>2. 128..143 \in SUBSET Nat
      OBVIOUS
    <3>3. Remaining(state) \in Seq(SUBSET Nat) /\ Len(Remaining(state)) = 3
      BY <1>2, <3>1, <3>2, TupleType
    <3> QED
      BY <2>4, <3>3
  <2> QED
    BY <1>4, <2>1, <2>2, <2>3, <2>4
<1> QED
  BY <1>1, <1>3, <1>4 DEF State

(* The octets after place i are the first m of a form. *)
Matches(payload, i, m, form) == m <= Len(form) /\ \A k \in 1..m : payload[i + k] \in form[k]

(* What remains in a state is what the form asks for after its first m places. *)
Leaves(state, m, form) ==
  /\ Len(Remaining(state)) = Len(form) - m
  /\ \A k \in 1..(Len(form) - m) : Remaining(state)[k] = form[m + k]

(* One octet more. *)
LEMMA OneMore ==
  ASSUME NEW form \in Forms, NEW m \in Nat, m >= 1, NEW state \in State, state # "ER",
         Leaves(state, m, form), NEW ch \in Octet, state # "S0" \/ m < Len(form)
  PROVE  /\ m < Len(form)
         /\ ch \in form[m + 1] => /\ validate_utf8(state, ch) # "ER"
                                  /\ Leaves(validate_utf8(state, ch), m + 1, form)
         /\ ch \notin form[m + 1] => validate_utf8(state, ch) = "ER"
<1> PICK l \in Nat : l = Len(form)
  BY FormType
<1> DEFINE r == Remaining(state)
<1>1. r \in Seq(SUBSET Nat) /\ Len(r) = l - m /\ Len(r) \in Nat
      /\ (Len(r) = 0 <=> state \in {"S0", "ER"})
  BY RemainingType DEF Leaves
<1>2. \A k \in 1..(l - m) : r[k] = form[m + k]
  BY DEF Leaves
<1> HIDE DEF r
<1>3. state \notin {"S0", "ER"} /\ m < l /\ Len(r) # 0
  BY <1>1
<1>4. r[1] = form[m + 1]
  BY <1>2, <1>3
<1>5. r # <<>>
  BY <1>1, <1>3
<1>6. /\ Len(Tail(r)) = l - (m + 1)
      /\ \A k \in 1..(l - (m + 1)) : Tail(r)[k] = form[(m + 1) + k]
  <2>1. Len(Tail(r)) = (l - m) - 1 /\ \A k \in 1..((l - m) - 1) : Tail(r)[k] = r[k + 1]
    BY <1>1, <1>5, HeadTailProperties
  <2>2. \A k \in 1..((l - m) - 1) : k + 1 \in 1..(l - m) /\ m + (k + 1) = (m + 1) + k
    OBVIOUS
  <2>3. (l - m) - 1 = l - (m + 1)
    OBVIOUS
  <2> QED
    BY <1>2, <2>1, <2>2, <2>3
<1>7. IF ch \in r[1]
      THEN validate_utf8(state, ch) # "ER" /\ Remaining(validate_utf8(state, ch)) = Tail(r)
      ELSE validate_utf8(state, ch) = "ER"
  BY <1>3, TableWithinCharacter DEF r
<1>8. Remaining(validate_utf8(state, ch)) = Tail(r) => Leaves(validate_utf8(state, ch), m + 1, form)
  BY <1>6 DEF Leaves
<1> QED
  BY <1>3, <1>4, <1>7, <1>8

LEMMA FirstOctet ==
  ASSUME NEW form \in Forms, NEW ch \in Octet, ch \in form[1]
  PROVE  validate_utf8("S0", ch) # "ER" /\ Leaves(validate_utf8("S0", ch), 1, form)
<1>1. validate_utf8("S0", ch) # "ER" /\ Remaining(validate_utf8("S0", ch)) = Tail(form)
  BY TableBetweenCharacters
<1>2. /\ Len(Tail(form)) = Len(form) - 1
      /\ \A k \in 1..(Len(form) - 1) : Tail(form)[k] = form[1 + k]
  BY FormType
<1> QED
  BY <1>1, <1>2 DEF Leaves

(* Octets that a form allows are valid, and the state says what remains of the form. *)
LEMMA AllowedIsValid ==
  ASSUME NEW payload \in Seq(Octet), NEW st, Trace(st, payload),
         NEW i \in 0..Len(payload), st[i] = "S0", NEW form \in Forms,
         NEW l \in Nat, i + l <= Len(payload), Matches(payload, i, l, form)
  PROVE  \A m \in 1..l : st[i + m] # "ER" /\ Leaves(st[i + m], m, form)
<1> PICK n \in Nat : n = Len(payload)
  BY LenProperties
<1> DEFINE good == {m \in 0..l : m = 0 \/ (st[i + m] # "ER" /\ Leaves(st[i + m], m, form))}
<1>1. 0 \in good
  OBVIOUS
<1>2. ASSUME NEW m \in 1..l, m - 1 \in good PROVE m \in good
  <2>1. /\ i + m \in 1..n /\ (i + m) - 1 = i + (m - 1) /\ i + (m - 1) \in 0..n
        /\ payload[i + m] \in form[m] /\ m <= Len(form)
    BY DEF Matches
  <2>2. /\ st[i + m] = validate_utf8(st[i + (m - 1)], payload[i + m])
        /\ payload[i + m] \in Octet /\ st[i + (m - 1)] \in State
    BY <2>1, ElementOfSeq DEF Trace
  <2>3. CASE m = 1
    <3>1. st[i + (m - 1)] = "S0"
      BY <2>3
    <3> QED
      BY <2>1, <2>2, <2>3, <3>1, FirstOctet
  <2>4. CASE m # 1
    <3> PICK k \in Nat : k = m - 1 /\ k >= 1 /\ k + 1 = m
      BY <2>4
    <3> PICK len \in Nat : len = Len(form)
      BY FormType
    <3>1. st[i + k] # "ER" /\ Leaves(st[i + k], k, form)
      BY <1>2
    <3>2. k < Len(form)
      BY <2>1
    <3>3. validate_utf8(st[i + k], payload[i + m]) # "ER"
          /\ Leaves(validate_utf8(st[i + k], payload[i + m]), k + 1, form)
      BY <2>1, <2>2, <3>1, <3>2, OneMore
    <3> QED
      BY <2>2, <3>3
  <2> QED
    BY <2>3, <2>4
<1>3. \A m \in 0..l : m \in good
  <2> HIDE DEF good
  <2> QED
    BY <1>1, <1>2, NumbersUpTo
<1> QED
  BY <1>3

(* Octets that are valid and do not end a character before the last one are allowed by
   a form. *)
LEMMA ValidIsAllowed ==
  ASSUME NEW payload \in Seq(Octet), NEW st, Trace(st, payload),
         NEW i \in 0..Len(payload), st[i] = "S0",
         NEW l \in Nat, l >= 1, i + l <= Len(payload),
         \A m \in 1..l : st[i + m] # "ER",
         \A m \in 1..(l - 1) : st[i + m] # "S0"
  PROVE  \E form \in Forms : Matches(payload, i, l, form) /\ Leaves(st[i + l], l, form)
<1> PICK n \in Nat : n = Len(payload)
  BY LenProperties
<1>1. /\ st[i + 1] = validate_utf8("S0", payload[i + 1]) /\ payload[i + 1] \in Octet
      /\ st[i + 1] # "ER"
  <2>1. i + 1 \in 1..n /\ (i + 1) - 1 = i /\ 1 \in 1..l
    OBVIOUS
  <2> QED
    BY <2>1, ElementOfSeq DEF Trace
<1>2. PICK form \in Forms : payload[i + 1] \in form[1]
  BY <1>1, TableBetweenCharacters
<1> PICK len \in Nat : len = Len(form) /\ len >= 1
  BY FormType
<1> DEFINE good == {m \in 0..l : m = 0 \/ (Matches(payload, i, m, form) /\ Leaves(st[i + m], m, form))}
<1>3. 0 \in good
  OBVIOUS
<1>4. ASSUME NEW m \in 1..l, m - 1 \in good PROVE m \in good
  <2>1. i + m \in 1..n /\ (i + m) - 1 = i + (m - 1) /\ i + (m - 1) \in 0..n
    OBVIOUS
  <2>2. /\ st[i + m] = validate_utf8(st[i + (m - 1)], payload[i + m])
        /\ payload[i + m] \in Octet /\ st[i + (m - 1)] \in State
        /\ st[i + m] # "ER"
    BY <2>1, ElementOfSeq DEF Trace
  <2>3. CASE m = 1
    <3>1. st[i + (m - 1)] = "S0"
      BY <2>3
    <3>2. Leaves(st[i + m], m, form)
      BY <1>1, <1>2, <2>3, FirstOctet
    <3>3. Matches(payload, i, m, form)
      BY <1>2, <2>3 DEF Matches
    <3> QED
      BY <3>2, <3>3
  <2>4. CASE m # 1
    <3> PICK k \in Nat : k = m - 1 /\ k >= 1 /\ k + 1 = m /\ k \in 1..(l - 1) /\ k \in 1..l
      BY <2>4
    <3>1. Matches(payload, i, k, form) /\ Leaves(st[i + k], k, form)
      BY <1>4
    <3>2. st[i + k] # "ER" /\ st[i + k] # "S0"
      OBVIOUS
    <3>3. /\ k < Len(form)
          /\ payload[i + m] \in form[k + 1] =>
               Leaves(validate_utf8(st[i + k], payload[i + m]), k + 1, form)
          /\ payload[i + m] \notin form[k + 1] =>
               validate_utf8(st[i + k], payload[i + m]) = "ER"
      BY <2>2, <3>1, <3>2, OneMore
    <3>4. payload[i + m] \in form[m] /\ Leaves(st[i + m], m, form)
      BY <2>2, <3>3
    <3>5. Matches(payload, i, m, form)
      <4>1. m <= Len(form)
        BY <3>3
      <4>2. \A j \in 1..m : j = m \/ j \in 1..k
        OBVIOUS
      <4> QED
        BY <3>1, <3>4, <4>1, <4>2 DEF Matches
    <3> QED
      BY <3>4, <3>5
  <2> QED
    BY <2>3, <2>4
<1>5. \A m \in 0..l : m \in good
  <2> HIDE DEF good
  <2> QED
    BY <1>3, <1>4, NumbersUpTo
<1> QED
  BY <1>5

-----------------------------------------------------------------------------
(* Texts that are cut into characters. *)

NextEnd(ends, i) == CHOOSE j \in ends : j > i /\ \A k \in ends : k > i => j <= k

(* What comes after an end is a character, or the start of one that ends the text. *)
PieceAt(octets, ends, i) ==
  IF \E j \in ends : j > i
  THEN IsCharacter(SubSeq(octets, i + 1, NextEnd(ends, i)))
  ELSE \E form \in Forms : StartsAs(SubSeq(octets, i + 1, Len(octets)), form)

LEMMA StartsTextByPieces ==
  ASSUME NEW octets
  PROVE  StartsText(octets) <=>
           \E ends \in SUBSET DOMAIN octets : \A i \in ends \cup {0} : PieceAt(octets, ends, i)
BY DEF StartsText, PieceAt, NextEnd

LEMMA NextEndIsNext ==
  ASSUME NEW ends \in SUBSET Nat, NEW i \in Nat, \E j \in ends : j > i
  PROVE  /\ NextEnd(ends, i) \in ends /\ NextEnd(ends, i) > i
         /\ \A k \in ends : k > i => NextEnd(ends, i) <= k
<1> DEFINE later == {j \in ends : j > i}
<1>1. later \in SUBSET Nat /\ later # {}
  OBVIOUS
<1> HIDE DEF later
<1>2. PICK m \in later : \A k \in later : m <= k
  BY <1>1, LeastNumber
<1>3. m \in ends /\ m > i /\ \A k \in ends : k > i => m <= k
  BY <1>2 DEF later
<1> QED
  BY <1>3 DEF NextEnd

(* The octets of a piece. *)
LEMMA PieceOctets ==
  ASSUME NEW payload \in Seq(Octet), NEW i \in 0..Len(payload), NEW l \in Nat,
         i + l <= Len(payload), NEW form
  PROVE  /\ Len(SubSeq(payload, i + 1, i + l)) = l
         /\ StartsAs(SubSeq(payload, i + 1, i + l), form) <=> Matches(payload, i, l, form)
<1> PICK n \in Nat : n = Len(payload)
  BY LenProperties
<1> DEFINE piece == SubSeq(payload, i + 1, i + l)
<1>1. /\ piece \in Seq(Octet)
      /\ Len(piece) = IF i + 1 <= i + l THEN (i + l) - (i + 1) + 1 ELSE 0
      /\ \A k \in 1..((i + l) - (i + 1) + 1) : piece[k] = payload[(i + 1) + k - 1]
  <2>1. \A k \in (i + 1)..(i + l) : payload[k] \in Octet
    BY ElementOfSeq
  <2>2. i + 1 \in Int /\ i + l \in Int
    OBVIOUS
  <2> QED
    BY <2>1, <2>2, SubSeqProperties
<1> HIDE DEF piece
<1>2. Len(piece) = l /\ \A k \in 1..l : piece[k] = payload[i + k]
  <2>1. (i + l) - (i + 1) + 1 = l /\ \A k \in 1..l : (i + 1) + k - 1 = i + k
    OBVIOUS
  <2>2. (i + 1 <= i + l) <=> l # 0
    OBVIOUS
  <2> QED
    BY <1>1, <2>1, <2>2
<1>3. DOMAIN piece = 1..l
  BY <1>1, <1>2, LenProperties
<1> QED
  BY <1>2, <1>3 DEF StartsAs, Matches, piece

(* A scan without an error cuts a text: its characters end where the state is "S0". *)
LEMMA ScannedIsText ==
  ASSUME NEW payload \in Seq(Octet), NEW st, Trace(st, payload), st[Len(payload)] # "ER"
  PROVE  StartsText(payload)
<1> PICK n \in Nat : n = Len(payload) /\ DOMAIN payload = 1..n
  BY LenProperties
<1> DEFINE ends == {k \in 1..n : st[k] = "S0"}
<1>1. \A k \in 0..n : st[k] # "ER" /\ st[k] \in State
  BY ErrorStays DEF Trace
<1>2. ASSUME NEW i \in ends \cup {0} PROVE PieceAt(payload, ends, i)
  <2>1. i \in 0..n /\ i \in Nat /\ st[i] = "S0"
    BY DEF Trace
  <2>2. CASE \E j \in ends : j > i
    <3>1. ends \in SUBSET Nat
      OBVIOUS
    <3>2. PICK e \in Nat : e = NextEnd(ends, i) /\ e \in ends /\ e > i /\ \A k \in ends : k > i => e <= k
      <4> HIDE DEF ends
      <4> QED
        BY <2>1, <2>2, <3>1, NextEndIsNext
    <3>10. e - i \in Nat /\ i + (e - i) = e /\ e - i >= 1
      BY <2>1, <3>2
    <3> PICK l \in Nat : l = e - i /\ i + l = e /\ l >= 1
      BY <3>10
    <3>3. e \in 1..n /\ st[e] = "S0" /\ i \in 0..Len(payload) /\ i + l <= Len(payload)
      BY <2>1, <3>2
    <3>4. \A m \in 1..l : st[i + m] # "ER"
      BY <1>1, <2>1, <3>3
    <3>5. \A m \in 1..(l - 1) : st[i + m] # "S0"
      <4> SUFFICES ASSUME NEW m \in 1..(l - 1), st[i + m] = "S0" PROVE FALSE
        OBVIOUS
      <4>1. i + m \in 1..n /\ i + m > i /\ ~(e <= i + m)
        BY <2>1, <3>3
      <4>2. i + m \in ends
        BY <4>1
      <4> QED
        BY <3>2, <4>1, <4>2
    <3>6. PICK form \in Forms : Matches(payload, i, l, form) /\ Leaves(st[i + l], l, form)
      BY <2>1, <3>3, <3>4, <3>5, ValidIsAllowed
    <3>7. Len(form) = l
      <4>1. Len(Remaining("S0")) = 0
        BY RemainingType DEF State
      <4>2. PICK len \in Nat : len = Len(form)
        BY FormType
      <4>3. len - l = 0
        BY <3>3, <3>6, <4>1, <4>2 DEF Leaves
      <4> QED
        BY <4>2, <4>3
    <3>9. IsCharacter(SubSeq(payload, i + 1, i + l))
      BY <3>3, <3>6, <3>7, PieceOctets DEF IsCharacter
    <3> HIDE DEF ends
    <3> QED
      BY <2>2, <3>2, <3>9 DEF PieceAt
  <2>3. CASE ~(\E j \in ends : j > i)
    <3>4. n - i \in Nat /\ i + (n - i) = n
      BY <2>1
    <3> PICK l \in Nat : l = n - i /\ i + l = n
      BY <3>4
    <3>1. i \in 0..Len(payload) /\ i + l <= Len(payload)
      BY <2>1
    <3>2. PICK form \in Forms : Matches(payload, i, l, form)
      <4>1. CASE l = 0
        <5>1. PICK form \in Forms : TRUE
          BY DEF Forms
        <5>2. Len(form) \in Nat
          BY FormType
        <5> QED
          BY <4>1, <5>1, <5>2 DEF Matches
      <4>2. CASE l # 0
        <5>1. l >= 1 /\ \A m \in 1..l : st[i + m] # "ER"
          BY <1>1, <2>1, <4>2
        <5>2. \A m \in 1..(l - 1) : st[i + m] # "S0"
          <6> SUFFICES ASSUME NEW m \in 1..(l - 1), st[i + m] = "S0" PROVE FALSE
            OBVIOUS
          <6>1. i + m \in 1..n /\ i + m > i
            BY <2>1
          <6> QED
            BY <2>3, <6>1
        <5> QED
          BY <2>1, <3>1, <5>1, <5>2, ValidIsAllowed
      <4> QED
        BY <4>1, <4>2
    <3>3. StartsAs(SubSeq(payload, i + 1, i + l), form)
      BY <3>1, <3>2, PieceOctets
    <3> HIDE DEF ends
    <3> QED
      BY <2>3, <3>3 DEF PieceAt
  <2> QED
    BY <2>2, <2>3
<1>3. ends \in SUBSET DOMAIN payload
  OBVIOUS
<1> HIDE DEF ends
<1> QED
  BY <1>2, <1>3, StartsTextByPieces

(* The last end before a place. *)
LEMMA LastEndBefore ==
  ASSUME NEW starts \in SUBSET Nat, 0 \in starts, NEW k \in Nat, k >= 1
  PROVE  \E i \in starts : i < k /\ \A e \in starts : e < k => e <= i
<1> DEFINE before == {d \in 0..k : k - d \in starts /\ d # 0}
<1>1. before \in SUBSET Nat
  OBVIOUS
<1>2. k \in before
  OBVIOUS
<1> HIDE DEF before
<1>3. PICK d \in before : \A c \in before : d <= c
  BY <1>1, <1>2, LeastNumber
<1>4. d \in 0..k /\ k - d \in starts /\ d # 0
  BY DEF before
<1>5. ASSUME NEW e \in starts, e < k PROVE e <= k - d
  <2>1. k - e \in 0..k /\ k - (k - e) = e /\ k - e # 0
    BY <1>5
  <2>2. k - e \in before
    BY <1>5, <2>1 DEF before
  <2>3. d <= k - e
    BY <1>3, <2>2
  <2> QED
    BY <1>4, <2>1, <2>3
<1>6. k - d < k
  BY <1>4
<1> QED
  BY <1>4, <1>5, <1>6

(* A text that is cut into characters is scanned without an error, and every character
   ends in the state "S0". *)
LEMMA TextIsScanned ==
  ASSUME NEW payload \in Seq(Octet), NEW st, Trace(st, payload), StartsText(payload)
  PROVE  \A k \in 0..Len(payload) : st[k] # "ER"
<1> PICK n \in Nat : n = Len(payload) /\ DOMAIN payload = 1..n
  BY LenProperties
<1>1. PICK ends \in SUBSET (1..n) : \A i \in ends \cup {0} : PieceAt(payload, ends, i)
  BY StartsTextByPieces
<1> DEFINE Sound(j) == st[j] # "ER" /\ (j \in ends \cup {0} => st[j] = "S0")
           good == {k \in 0..n : \A j \in 0..k : Sound(j)}
<1>2. 0 \in good
  <2>1. \A j \in 0..0 : j = 0
    OBVIOUS
  <2> QED
    BY <2>1 DEF Trace
<1>3. ASSUME NEW k \in 1..n, k - 1 \in good PROVE k \in good
  <2> HIDE DEF Sound
  <2>1. \A j \in 0..(k - 1) : Sound(j)
    BY <1>3
  <2>2. PICK i \in ends \cup {0} : i < k /\ \A e \in ends \cup {0} : e < k => e <= i
    <3>1. ends \cup {0} \in SUBSET Nat /\ 0 \in ends \cup {0} /\ k \in Nat /\ k >= 1
      OBVIOUS
    <3> QED
      BY <3>1, LastEndBefore
  <2>3. i \in 0..n /\ i \in Nat /\ i \in 0..(k - 1)
    BY <2>2
  <2>4. st[i] = "S0"
    BY <2>1, <2>3 DEF Sound
  <2>5. ASSUME NEW l \in Nat, i + l <= n, k <= i + l, NEW form \in Forms, Matches(payload, i, l, form),
               k \in ends => k = i + l /\ Len(form) = l
        PROVE  Sound(k)
    <3>1. k - i \in 1..l /\ i + (k - i) = k
      BY <2>2, <2>3, <2>5
    <3>2. st[k] # "ER" /\ Leaves(st[k], k - i, form)
      BY <2>3, <2>4, <2>5, <3>1, AllowedIsValid
    <3>3. ASSUME k \in ends PROVE st[k] = "S0"
      <4>1. k - i = l
        BY <2>3, <2>5, <3>3
      <4>2. Len(Remaining(st[k])) = l - l
        BY <2>5, <3>2, <3>3, <4>1 DEF Leaves
      <4>3. st[k] \in State
        BY DEF Trace
      <4> QED
        BY <3>2, <4>2, <4>3, RemainingType
    <3> QED
      BY <3>2, <3>3 DEF Sound
  <2>6. PieceAt(payload, ends, i)
    BY <1>1
  <2>7. ASSUME \E j \in ends : j > i PROVE Sound(k)
    <3>1. ends \in SUBSET Nat
      OBVIOUS
    <3>2. PICK e \in Nat : e = NextEnd(ends, i) /\ e \in ends /\ e > i /\ \A j \in ends : j > i => e <= j
      <4>1. i \in Nat
        BY <2>3
      <4>2. /\ NextEnd(ends, i) \in ends /\ NextEnd(ends, i) > i
            /\ \A j \in ends : j > i => NextEnd(ends, i) <= j
        BY <2>7, <3>1, <4>1, NextEndIsNext
      <4> QED
        BY <3>1, <4>2
    <3>3. k <= e /\ e <= n /\ (k \in ends => k = e)
      BY <2>2, <2>3, <3>2
    <3>4. e - i \in Nat /\ i + (e - i) = e
      BY <2>3, <3>2
    <3> PICK l \in Nat : l = e - i /\ i + l = e
      BY <3>4
    <3>5. IsCharacter(SubSeq(payload, i + 1, i + l))
      BY <2>6, <2>7, <3>2 DEF PieceAt
    <3>6. i \in 0..Len(payload) /\ i + l <= Len(payload)
      BY <2>3, <3>3
    <3>7. PICK form \in Forms : Len(form) = l /\ Matches(payload, i, l, form)
      BY <3>5, <3>6, PieceOctets DEF IsCharacter
    <3> QED
      BY <2>5, <3>3, <3>6, <3>7
  <2>8. ASSUME ~(\E j \in ends : j > i) PROVE Sound(k)
    <3>1. n - i \in Nat /\ i + (n - i) = n
      BY <2>3
    <3> PICK l \in Nat : l = n - i /\ i + l = n
      BY <3>1
    <3>2. i \in 0..Len(payload) /\ i + l <= Len(payload)
      BY <2>3
    <3>3. PICK form \in Forms : StartsAs(SubSeq(payload, i + 1, i + l), form)
      BY <2>6, <2>8 DEF PieceAt
    <3>4. Matches(payload, i, l, form)
      BY <3>2, <3>3, PieceOctets
    <3>5. k \notin ends /\ k <= i + l
      BY <2>2, <2>8
    <3> QED
      BY <2>5, <3>2, <3>4, <3>5
  <2>9. Sound(k)
    BY <2>7, <2>8
  <2>10. \A j \in 0..k : j = k \/ j \in 0..(k - 1)
    OBVIOUS
  <2> QED
    BY <2>1, <2>9, <2>10
<1>4. \A k \in 0..n : k \in good
  <2> HIDE DEF good
  <2> QED
    BY <1>2, <1>3, NumbersUpTo
<1> QED
  BY <1>4

(* The loop over a payload rejects exactly what cannot be the start of UTF-8 text,
   for every payload (ws_read_frame, ws_send_frame, validate_utf8). *)
THEOREM ScanFollowsGrammar == \A payload \in Seq(Octet) : Rejects(payload) <=> ~StartsText(payload)
<1> SUFFICES ASSUME NEW payload \in Seq(Octet) PROVE Rejects(payload) <=> ~StartsText(payload)
  OBVIOUS
<1> PICK n \in Nat : n = Len(payload)
  BY LenProperties
<1>1. PICK st : Trace(st, payload) /\ FoldLeft(validate_utf8, "S0", payload) = st[n]
  BY ScanTrace
<1>2. Rejects(payload) <=> st[n] = "ER"
  BY <1>1 DEF Rejects
<1>3. st[n] # "ER" => StartsText(payload)
  BY <1>1, ScannedIsText
<1>4. StartsText(payload) => st[n] # "ER"
  BY <1>1, TextIsScanned
<1> QED
  BY <1>2, <1>3, <1>4

-----------------------------------------------------------------------------
Output == {Http, Upgrade} \cup {FrameOut(op, payload) : op \in Opcode, payload \in Seq(Octet)}

Connection ==
  [state: {"request", "headers", "length", "frame", "closed", "error"},
   resource: Resource \cup {"none"}, key: BOOLEAN,
   continued: {"none", "text", "binary"}, data: Seq(Octet), sentClose: BOOLEAN]

TypeOK ==
  /\ sent \in Seq(Requests \cup Frames) /\ handled \in 0..Len(sent)
  /\ ws \in Connection /\ page \in {"never", "held", "lost"}
  /\ out \in Seq(Output)
  /\ forwarded \in Seq([data: Seq(Octet), last: Nat]) /\ data \in Nat

Plain(u) == u \in Requests /\ ~u.upgrade

HttpOnly == \A n \in DOMAIN out : out[n] = Http

(* The upgrade is the k-th thing sent: HTTP goes before it and frames follow. *)
SwitchedAt(k) ==
  /\ out[k] = Upgrade
  /\ \A n \in DOMAIN out : n < k => out[n] = Http
  /\ \A n \in DOMAIN out : n > k => out[n].what = "frame"

Switched == \E k \in DOMAIN out : SwitchedAt(k)

(* The state of the connection says what has been sent on it. *)
Speaks ==
  /\ ws.state \in {"request", "headers"} => HttpOnly
  /\ Upgraded => Switched
  /\ HttpOnly \/ Switched

(* The client asks until it has asked for the upgrade, and sends frames when that has
   been answered. *)
Asked ==
  /\ \A k \in DOMAIN sent : sent[k] \in Requests => \A n \in 1..(k - 1) : Plain(sent[n])
  /\ \A k \in DOMAIN sent : sent[k] \in Frames => Switched
  /\ Switched => \E n \in 1..handled : sent[n] \in Requests /\ ~Plain(sent[n])

(* After a close frame nothing can be sent. *)
Closing == \A n \in DOMAIN out : out[n].op = "close" => n = Len(out) /\ ws.sentClose

(* Only a message in fragments leaves something in the connection. *)
Held == ws.continued = "none" => ws.data = <<>>

Inv == TypeOK /\ Speaks /\ Asked /\ Closing /\ Held

-----------------------------------------------------------------------------
(* Values. *)

(* A request is no frame. *)
LEMMA UnitsDiffer == \A u \in Frames : u \notin Requests
<1> SUFFICES ASSUME NEW u \in Frames, u \in Requests PROVE FALSE
  OBVIOUS
<1>1. u \in Frame /\ u \in Request
  BY WebsocketAssumption
<1>2. DOMAIN u = {"op", "fin", "mask", "payload"}
  BY <1>1 DEF Frame
<1>3. DOMAIN u = {"resource", "upgrade", "key"}
  BY <1>1 DEF Request
<1> QED
  BY <1>2, <1>3

(* What is sent as HTTP, as the upgrade and as a frame differ. *)
LEMMA OutputsDiffer ==
  /\ Http # Upgrade /\ Http.what # "frame" /\ Upgrade.what # "frame"
  /\ Http.op \notin {"close", "text"} /\ Upgrade.op \notin {"close", "text"}
  /\ \A op, payload : /\ FrameOut(op, payload).what = "frame"
                      /\ FrameOut(op, payload).op = op
                      /\ FrameOut(op, payload).data = payload
                      /\ FrameOut(op, payload) # Http /\ FrameOut(op, payload) # Upgrade
<1>1. Http.what = "http" /\ Upgrade.what = "upgrade" /\ Http.op = "none" /\ Upgrade.op = "none"
  BY DEF Http, Upgrade
<1>2. \A op, payload : /\ FrameOut(op, payload).what = "frame"
                       /\ FrameOut(op, payload).op = op
                       /\ FrameOut(op, payload).data = payload
  BY DEF FrameOut
<1> QED
  BY <1>1, <1>2

-----------------------------------------------------------------------------
(* What has been sent. *)

(* Nothing is sent, and the connection stays on its side of the upgrade or ends. *)
LEMMA SpeaksKept ==
  ASSUME Speaks, Closing, out' = out,
         \/ ws'.state = ws.state
         \/ ws'.state \in {"closed", "error"}
         \/ ws.state \in {"request", "headers"} /\ ws'.state \in {"request", "headers"}
         \/ ws.state \in {"length", "frame"} /\ ws'.state \in {"length", "frame"},
         ws.sentClose => ws'.sentClose
  PROVE  Speaks' /\ Closing' /\ (Switched' <=> Switched)
<1>1. HttpOnly' <=> HttpOnly
  BY DEF HttpOnly
<1>2. Switched' <=> Switched
  BY DEF Switched, SwitchedAt
<1>3. Speaks'
  BY <1>1, <1>2 DEF Speaks, Upgraded
<1>4. Closing'
  BY DEF Closing
<1> QED
  BY <1>2, <1>3, <1>4

(* A frame follows the upgrade, and nothing follows a close frame. *)
LEMMA FrameSent ==
  ASSUME TypeOK, Speaks, Closing, Upgraded, ~ws.sentClose,
         NEW op \in Opcode, NEW payload \in Seq(Octet),
         out' = Append(out, FrameOut(op, payload)),
         op = "close" => ws'.sentClose,
         ws'.state \notin {"request", "headers"}
  PROVE  Speaks' /\ Closing' /\ Switched /\ Switched' /\ out' \in Seq(Output)
<1> DEFINE f == FrameOut(op, payload)
<1>1. f \in Output /\ f.what = "frame" /\ f.op = op
  BY OutputsDiffer DEF Output
<1>2. out \in Seq(Output)
  BY DEF TypeOK
<1> HIDE DEF f
<1>3. /\ out' \in Seq(Output)
      /\ DOMAIN out = 1..Len(out) /\ Len(out) \in Nat
      /\ DOMAIN out' = 1..(Len(out) + 1) /\ Len(out') = Len(out) + 1
      /\ \A n \in 1..Len(out) : out'[n] = out[n]
      /\ out'[Len(out) + 1] = f
  BY <1>1, <1>2, Appended DEF f
<1>4. PICK k \in DOMAIN out : SwitchedAt(k)
  BY DEF Speaks, Switched
<1>5. k \in DOMAIN out'
  BY <1>3
<1>6. SwitchedAt(k)'
  BY <1>1, <1>3, <1>4 DEF SwitchedAt
<1>7. Switched'
  BY <1>5, <1>6 DEF Switched
<1>8. Speaks'
  BY <1>7 DEF Speaks
<1>9. Closing'
  BY <1>1, <1>3 DEF Closing
<1> QED
  BY <1>3, <1>4, <1>7, <1>8, <1>9 DEF Switched

(* The answers to requests. *)
LEMMA HttpSent ==
  ASSUME TypeOK, ws.state = "headers", Speaks, Closing, out' = Append(out, Http)
  PROVE  HttpOnly' /\ out' \in Seq(Output) /\ Closing' /\ ~Switched' /\ ~Switched
<1>1. Http \in Output /\ Http.op # "close" /\ Http # Upgrade
  BY OutputsDiffer DEF Output
<1>2. out \in Seq(Output) /\ HttpOnly
  BY DEF TypeOK, Speaks
<1>3. /\ out' \in Seq(Output)
      /\ DOMAIN out = 1..Len(out) /\ Len(out) \in Nat
      /\ DOMAIN out' = 1..(Len(out) + 1) /\ Len(out') = Len(out) + 1
      /\ \A n \in 1..Len(out) : out'[n] = out[n]
      /\ out'[Len(out) + 1] = Http
  BY <1>1, <1>2, Appended
<1>4. HttpOnly'
  BY <1>2, <1>3 DEF HttpOnly
<1> QED
  BY <1>1, <1>2, <1>3, <1>4 DEF HttpOnly, Closing, Switched, SwitchedAt

LEMMA UpgradeSent ==
  ASSUME TypeOK, ws.state = "headers", Speaks, Closing, NEW found \in BOOLEAN,
         out' = out \o Answer(found)
  PROVE  /\ Switched' /\ out' \in Seq(Output) /\ Closing' /\ ~Switched
         /\ \A i \in DOMAIN out' : out'[i].op # "text"
<1>1. Http \in Output /\ Upgrade \in Output /\ Http.op # "close" /\ Upgrade.op # "close" /\ Http # Upgrade
  BY OutputsDiffer DEF Output
<1>2. out \in Seq(Output) /\ HttpOnly /\ Len(out) \in Nat /\ DOMAIN out = 1..Len(out)
  BY LenProperties DEF TypeOK, Speaks
<1>3. /\ <<Upgrade>> \in Seq(Output) /\ Len(<<Upgrade>>) = 1 /\ <<Upgrade>>[1] = Upgrade
      /\ <<Http>> \in Seq(Output) /\ Len(<<Http>>) = 1 /\ <<Http>>[1] = Http
  BY <1>1
<1>4. /\ Answer(found) \in Seq(Output)
      /\ Len(Answer(found)) \in {1, 2}
      /\ Answer(found)[Len(Answer(found))] = Upgrade
      /\ Len(Answer(found)) = 2 => Answer(found)[1] = Http
  <2>1. CASE found
    <3>1. Answer(found) = <<Upgrade>>
      BY <1>3, <2>1, ConcatEmptySeq DEF Answer
    <3> QED
      BY <1>3, <3>1
  <2>2. CASE ~found
    <3>1. Answer(found) = <<Http>> \o <<Upgrade>>
      BY <2>2 DEF Answer
    <3> QED
      BY <1>3, <3>1, ConcatProperties
  <2> QED
    BY <2>1, <2>2
<1> PICK a \in Nat : a = Len(Answer(found)) /\ a \in {1, 2}
  BY <1>4
<1> PICK o \in Nat : o = Len(out)
  BY <1>2
<1> PICK n \in Nat : n = o + a
  OBVIOUS
<1>5. /\ out' \in Seq(Output) /\ Len(out') = n
      /\ \A i \in 1..n : out'[i] = IF i <= o THEN out[i] ELSE Answer(found)[i - o]
  BY <1>2, <1>4, ConcatProperties
<1>6. DOMAIN out' = 1..n /\ n > o
  BY <1>5, LenProperties
<1>7. out'[n] = Upgrade
  <2>1. n \in 1..n /\ ~(n <= o) /\ n - o = a
    OBVIOUS
  <2> QED
    BY <1>4, <1>5, <2>1
<1>8. \A i \in 1..n : i < n => out'[i] = Http
  <2> SUFFICES ASSUME NEW i \in 1..n, i < n PROVE out'[i] = Http
    OBVIOUS
  <2>1. CASE i <= o
    BY <1>2, <1>5, <2>1 DEF HttpOnly
  <2>2. CASE ~(i <= o)
    <3>1. i > o /\ i < o + a /\ i \in Int /\ (a = 1 \/ a = 2)
      BY <2>2
    <3>2. a = 2 /\ i - o = 1
      BY <3>1, SMTT(30)
    <3> QED
      BY <1>4, <1>5, <2>2, <3>2
  <2> QED
    BY <2>1, <2>2
<1>9. SwitchedAt(n)'
  BY <1>6, <1>7, <1>8 DEF SwitchedAt
<1>10. Switched'
  BY <1>6, <1>9 DEF Switched
<1>11. ~Switched
  BY <1>1, <1>2 DEF Switched, SwitchedAt, HttpOnly
<1>12. Closing'
  <2>1. \A i \in 1..n : i < n \/ i = n
    OBVIOUS
  <2>2. Http.op # "close" /\ Upgrade.op # "close"
    BY OutputsDiffer DEF Http, Upgrade
  <2>3. \A i \in 1..n : out'[i].op # "close"
    BY <1>7, <1>8, <2>1, <2>2
  <2> QED
    BY <1>6, <2>3 DEF Closing
<1>13. \A i \in DOMAIN out' : out'[i].op # "text"
  <2>1. \A i \in 1..n : i < n \/ i = n
    OBVIOUS
  <2> QED
    BY <1>6, <1>7, <1>8, <2>1, OutputsDiffer
<1> QED
  BY <1>5, <1>10, <1>11, <1>12, <1>13

-----------------------------------------------------------------------------
(* The client's units. *)

LEMMA InitInv == Init => Inv
<1> SUFFICES ASSUME Init PROVE Inv
  OBVIOUS
<1> USE DEF Init
<1>1. TypeOK
  <2>1. \A S : <<>> \in Seq(S) /\ Len(<<>>) = 0
    BY EmptySeq
  <2> QED
    BY <2>1 DEF TypeOK, Connection, Resource
<1>2. DOMAIN out = {} /\ DOMAIN sent = {}
  OBVIOUS
<1>3. ~Switched /\ HttpOnly
  BY <1>2 DEF Switched, HttpOnly
<1>4. Speaks
  BY <1>3 DEF Speaks, Upgraded
<1>5. Asked
  BY <1>2, <1>3 DEF Asked
<1>6. Closing /\ Held
  BY <1>2 DEF Closing, Held
<1> QED
  BY <1>1, <1>4, <1>5, <1>6 DEF Inv

LEMMA ClientSendsInv ==
  ASSUME Inv, NEW u \in Requests \cup Frames, ClientSends(u)
  PROVE  Inv'
<1>1. /\ sent' = Append(sent, u)
      /\ handled' = handled /\ ws' = ws /\ page' = page /\ out' = out
      /\ forwarded' = forwarded /\ data' = data
  BY DEF ClientSends
<1>2. /\ sent' \in Seq(Requests \cup Frames)
      /\ DOMAIN sent = 1..Len(sent) /\ Len(sent) \in Nat
      /\ DOMAIN sent' = 1..(Len(sent) + 1) /\ Len(sent') = Len(sent) + 1
      /\ \A n \in 1..Len(sent) : sent'[n] = sent[n]
      /\ sent'[Len(sent) + 1] = u
  BY <1>1, Appended DEF Inv, TypeOK
<1>3. TypeOK'
  BY <1>1, <1>2 DEF Inv, TypeOK
<1>4. Speaks' /\ Closing' /\ (Switched' <=> Switched)
  BY <1>1, SpeaksKept DEF Inv
<1>5. Held'
  BY <1>1 DEF Inv, Held
<1>6. u \in Requests => \A n \in 1..Len(sent) : Plain(sent[n])
  BY <1>2, UnitsDiffer DEF ClientSends, Plain
<1>7. u \in Frames => Switched
  <2> SUFFICES ASSUME u \in Frames PROVE Switched
    OBVIOUS
  <2>1. PICK n \in DOMAIN out : out[n] = Upgrade
    BY UnitsDiffer DEF ClientSends
  <2>2. ~HttpOnly
    BY <2>1, OutputsDiffer DEF HttpOnly
  <2> QED
    BY <2>2 DEF Inv, Speaks
<1>8. Asked'
  <2>1. ASSUME NEW k \in DOMAIN sent', sent'[k] \in Requests, NEW n \in 1..(k - 1)
        PROVE  Plain(sent'[n])
    <3>1. n \in 1..Len(sent) /\ sent'[n] = sent[n]
      BY <1>2
    <3>2. CASE k = Len(sent) + 1
      BY <1>2, <1>6, <2>1, <3>1, <3>2
    <3>3. CASE k # Len(sent) + 1
      <4>1. k \in DOMAIN sent /\ sent'[k] = sent[k]
        BY <1>2, <3>3
      <4> QED
        BY <2>1, <3>1, <4>1 DEF Inv, Asked
    <3> QED
      BY <3>2, <3>3
  <2>2. ASSUME NEW k \in DOMAIN sent', sent'[k] \in Frames PROVE Switched
    BY <1>2, <1>7, <2>2 DEF Inv, Asked
  <2>3. Switched => \E n \in 1..handled : sent'[n] \in Requests /\ ~Plain(sent'[n])
    <3>1. \A n \in 1..handled : sent'[n] = sent[n]
      BY <1>2 DEF Inv, TypeOK
    <3> QED
      BY <3>1 DEF Inv, Asked
  <2> QED
    BY <1>1, <1>4, <2>1, <2>2, <2>3 DEF Asked, Plain
<1> QED
  BY <1>3, <1>4, <1>5, <1>8 DEF Inv

(* Before the upgrade the connection is given requests, after it frames. *)
LEMMA UnitOfState ==
  ASSUME Inv, handled < Len(sent)
  PROVE  /\ handled + 1 \in DOMAIN sent /\ handled + 1 \in 1..Len(sent)
         /\ ws.state \in {"request", "headers"} => sent[handled + 1] \in Requests
         /\ Upgraded => sent[handled + 1] \in Frames
<1>1. /\ sent \in Seq(Requests \cup Frames) /\ DOMAIN sent = 1..Len(sent)
      /\ Len(sent) \in Nat /\ handled \in Nat
  BY LenProperties DEF Inv, TypeOK
<1>2. handled + 1 \in DOMAIN sent /\ handled + 1 \in 1..Len(sent)
  BY <1>1
<1>3. sent[handled + 1] \in Requests \cup Frames
  BY <1>1, <1>2, ElementOfSeq
<1>4. HttpOnly => ~Switched
  BY OutputsDiffer DEF HttpOnly, Switched, SwitchedAt
<1>5. ws.state \in {"request", "headers"} => ~Switched
  BY <1>4 DEF Inv, Speaks
<1>6. ws.state \in {"request", "headers"} => sent[handled + 1] \in Requests
  BY <1>2, <1>3, <1>5 DEF Inv, Asked
<1>7. Upgraded => sent[handled + 1] \notin Requests
  <2> SUFFICES ASSUME Upgraded, sent[handled + 1] \in Requests PROVE FALSE
    OBVIOUS
  <2>1. Switched
    BY DEF Inv, Speaks
  <2>2. PICK n \in 1..handled : ~Plain(sent[n])
    BY <2>1 DEF Inv, Asked
  <2>3. n \in 1..((handled + 1) - 1)
    BY <1>1
  <2> QED
    BY <1>2, <2>2, <2>3 DEF Inv, Asked
<1> QED
  BY <1>2, <1>3, <1>6, <1>7

(* Units are handled, and what has been sent is on the same side of the upgrade. *)
LEMMA AskedKept ==
  ASSUME Inv, sent' = sent, handled' \in Nat, handled' >= handled, Switched' <=> Switched
  PROVE  Asked'
<1>1. handled \in Nat
  BY DEF Inv, TypeOK
<1>2. \A n \in 1..handled : n \in 1..handled'
  BY <1>1
<1> QED
  BY <1>2 DEF Inv, Asked, Plain

-----------------------------------------------------------------------------
(* Requests. *)

LEMMA RecvRequestInv ==
  ASSUME Inv, NEW r \in Requests, RecvRequest(r)
  PROVE  Inv'
<1>1. /\ sent' = sent /\ handled' = handled /\ page' = page /\ out' = out
      /\ forwarded' = forwarded /\ data' = data /\ ws.state = "request"
  BY DEF RecvRequest
<1>2. /\ ws' \in Connection /\ ws'.state \in {"headers", "error"}
      /\ ws'.continued = ws.continued /\ ws'.data = ws.data /\ ws'.sentClose = ws.sentClose
  <2>1. ws \in Connection /\ r.resource \in Resource
    BY WebsocketAssumption DEF Inv, TypeOK, Request
  <2>2. CASE r.resource = "malformed"
    <3>1. ws' = [ws EXCEPT !.state = "error"]
      BY <2>2 DEF RecvRequest, Fail
    <3> QED
      BY <2>1, <3>1 DEF Connection
  <2>3. CASE r.resource # "malformed"
    <3>1. ws' = [ws EXCEPT !.state = "headers", !.resource = r.resource]
      BY <2>3 DEF RecvRequest
    <3> QED
      BY <2>1, <3>1 DEF Connection
  <2> QED
    BY <2>2, <2>3
<1>3. TypeOK' /\ Held'
  BY <1>1, <1>2 DEF Inv, TypeOK, Held
<1>4. Speaks' /\ Closing' /\ (Switched' <=> Switched)
  BY <1>1, <1>2, SpeaksKept DEF Inv
<1>5. Asked'
  BY <1>1, <1>4, AskedKept DEF Inv, TypeOK
<1> QED
  BY <1>3, <1>4, <1>5 DEF Inv

LEMMA PlainRequestInv ==
  ASSUME Inv, handled < Len(sent), NEW r \in Requests, NEW remote \in BOOLEAN,
         NEW sends \in BOOLEAN, PlainRequest(r, remote, sends)
  PROVE  Inv'
<1>1. /\ sent' = sent /\ handled' = handled + 1 /\ page' = page
      /\ forwarded' = forwarded /\ data' = data /\ ws.state = "headers"
  BY DEF PlainRequest
<1>2. /\ ws' \in Connection /\ ws'.state \in {"request", "closed", "error"}
      /\ ws'.continued = ws.continued /\ ws'.data = ws.data /\ ws'.sentClose = ws.sentClose
      /\ sends /\ ~remote => ws'.state = "closed"
  <2>1. ws \in Connection /\ r.key \in BOOLEAN
    BY WebsocketAssumption DEF Inv, TypeOK, Request
  <2> QED
    BY <2>1 DEF PlainRequest, Connection
<1>3. handled' \in 0..Len(sent) /\ handled' \in Nat /\ handled' >= handled
  <2>1. handled + 1 \in 1..Len(sent) /\ handled \in Nat
    BY UnitOfState DEF Inv, TypeOK
  <2> QED
    BY <1>1, <2>1
<1>4. /\ Speaks' /\ Closing' /\ (Switched' <=> Switched) /\ out' \in Seq(Output)
  <2>1. CASE sends /\ ~remote
    <3>1. out' = Append(out, Http)
      BY <2>1 DEF PlainRequest
    <3>2. HttpOnly' /\ out' \in Seq(Output) /\ Closing' /\ ~Switched' /\ ~Switched
      BY <1>1, <3>1, HttpSent DEF Inv
    <3>3. Speaks'
      BY <1>2, <2>1, <3>2 DEF Speaks, Upgraded
    <3> QED
      BY <3>2, <3>3
  <2>2. CASE ~(sends /\ ~remote)
    <3>1. out' = out
      BY <2>2 DEF PlainRequest
    <3>2. out \in Seq(Output)
      BY DEF Inv, TypeOK
    <3>3. Speaks' /\ Closing' /\ (Switched' <=> Switched)
      BY <1>1, <1>2, <3>1, SpeaksKept DEF Inv
    <3> QED
      BY <3>1, <3>2, <3>3
  <2> QED
    BY <2>1, <2>2
<1>5. TypeOK' /\ Held'
  BY <1>1, <1>2, <1>3, <1>4 DEF Inv, TypeOK, Held
<1>6. Asked'
  BY <1>1, <1>3, <1>4, AskedKept
<1> QED
  BY <1>4, <1>5, <1>6 DEF Inv

LEMMA UpgradeRequestInv ==
  ASSUME Inv, handled < Len(sent), NEW r \in Requests, r = sent[handled + 1],
         NEW found \in BOOLEAN, NEW sends \in BOOLEAN, UpgradeRequest(r, found, sends)
  PROVE  Inv'
<1>1. /\ sent' = sent /\ handled' = handled + 1 /\ page' \in {"held", page}
      /\ forwarded' = forwarded /\ data' = data /\ ws.state = "headers"
      /\ r.upgrade
  BY DEF UpgradeRequest, IsWebsocket
<1>2. /\ ws' \in Connection /\ ws'.state = IF sends THEN "length" ELSE "error"
      /\ ws'.continued = ws.continued /\ ws'.data = ws.data /\ ws'.sentClose = ws.sentClose
  <2>1. ws \in Connection
    BY DEF Inv, TypeOK
  <2> QED
    BY <2>1 DEF UpgradeRequest, Connection
<1>3. handled' \in 0..Len(sent) /\ handled' \in Nat /\ handled' >= handled
      /\ handled' \in 1..handled'
  <2>1. handled + 1 \in 1..Len(sent) /\ handled \in Nat
    BY UnitOfState DEF Inv, TypeOK
  <2> QED
    BY <1>1, <2>1
<1>4. /\ Speaks' /\ Closing' /\ out' \in Seq(Output) /\ ~Switched
  <2>1. CASE sends
    <3>1. out' = out \o Answer(found)
      BY <2>1 DEF UpgradeRequest
    <3>2. Switched' /\ out' \in Seq(Output) /\ Closing' /\ ~Switched
      BY <1>1, <3>1, UpgradeSent DEF Inv
    <3>3. Speaks'
      BY <1>2, <2>1, <3>2 DEF Speaks, Upgraded
    <3> QED
      BY <3>2, <3>3
  <2>2. CASE ~sends
    <3>1. out' = out
      BY <2>2 DEF UpgradeRequest
    <3>2. out \in Seq(Output) /\ HttpOnly
      BY <1>1 DEF Inv, TypeOK, Speaks
    <3>3. ~Switched
      BY <3>2, OutputsDiffer DEF HttpOnly, Switched, SwitchedAt
    <3>4. Speaks' /\ Closing'
      BY <1>1, <1>2, <2>2, <3>1, SpeaksKept DEF Inv
    <3> QED
      BY <3>1, <3>2, <3>3, <3>4
  <2> QED
    BY <2>1, <2>2
<1>5. TypeOK' /\ Held'
  BY <1>1, <1>2, <1>3, <1>4 DEF Inv, TypeOK, Held
<1>6. Asked'
  <2>1. \A k \in DOMAIN sent : sent[k] \notin Frames
    BY <1>4 DEF Inv, Asked
  <2>2. sent'[handled'] = r /\ ~Plain(r)
    BY <1>1 DEF Plain
  <2> QED
    BY <1>1, <1>3, <2>1, <2>2 DEF Inv, Asked, Plain
<1> QED
  BY <1>4, <1>5, <1>6 DEF Inv

-----------------------------------------------------------------------------
(* Frames. *)

(* What a valid frame leaves in the connection. *)
LEMMA AfterType ==
  ASSUME TypeOK, Held, NEW f \in Frames, Valid(f)
  PROVE  /\ After(f) \in Connection /\ After(f).state \in {"closed", "length"}
         /\ After(f).sentClose = ws.sentClose
         /\ After(f).continued = "none" => After(f).data = <<>>
         /\ Gathered(f) \in Seq(Octet)
         /\ f.payload \in Seq(Octet)
<1>1. ws \in Connection /\ f \in Frame
  BY WebsocketAssumption DEF TypeOK
<1>2. ws.data \in Seq(Octet) /\ f.payload \in Seq(Octet) /\ f.fin \in BOOLEAN /\ f.op \in Opcode
      /\ ws.continued \in {"none", "text", "binary"}
  BY <1>1 DEF Connection, Frame
<1>3. Gathered(f) \in Seq(Octet) /\ <<>> \in Seq(Octet)
  BY <1>2, ConcatProperties, EmptySeq DEF Gathered
<1>4. ~f.fin => Meaning(f) \in {"text", "binary"}
  BY <1>2 DEF Valid, InvalidStart, Meaning, Opcode, Control
<1>5. After(f).continued = IF f.fin THEN "none" ELSE Meaning(f)
  BY <1>1 DEF After, Connection
<1>6. After(f).data = IF f.fin THEN <<>> ELSE Gathered(f)
  BY <1>1 DEF After, Connection
<1>7. After(f).state = IF Meaning(f) = "close" THEN "closed" ELSE "length"
  BY <1>1 DEF After, Connection
<1>8. After(f).sentClose = ws.sentClose
  BY <1>1 DEF After, Connection
<1>9. After(f) \in Connection
  BY <1>1, <1>2, <1>3, <1>4 DEF After, Connection
<1> QED
  BY <1>2, <1>3, <1>4, <1>5, <1>6, <1>7, <1>8, <1>9

(* A connection that only changes to "error". *)
LEMMA FailType ==
  ASSUME TypeOK, Fail
  PROVE  /\ ws' \in Connection /\ ws'.state = "error"
         /\ ws'.continued = ws.continued /\ ws'.data = ws.data /\ ws'.sentClose = ws.sentClose
  BY DEF TypeOK, Fail, Connection

(* The connection has handled a frame, and sent nothing. *)
LEMMA QuietInv ==
  ASSUME Inv, sent' = sent, handled' \in 0..Len(sent), handled' >= handled, out' = out,
         page' \in {"never", "held", "lost"}, data' \in Nat,
         forwarded' \in Seq([data: Seq(Octet), last: Nat]),
         ws' \in Connection,
         ws'.state = ws.state \/ (Upgraded /\ ws'.state \notin {"request", "headers"}),
         ws'.sentClose = ws.sentClose, ws'.continued = "none" => ws'.data = <<>>
  PROVE  Inv'
<1>1. ws'.state \in {"request", "headers", "length", "frame", "closed", "error"}
  BY DEF Connection
<1>2. Speaks' /\ Closing' /\ (Switched' <=> Switched)
  BY <1>1, SpeaksKept DEF Inv, Upgraded
<1>3. TypeOK' /\ Held'
  BY DEF Inv, TypeOK, Held
<1>4. Asked'
  BY <1>2, AskedKept
<1> QED
  BY <1>2, <1>3, <1>4 DEF Inv

LEMMA ReplyInv ==
  ASSUME Inv, Upgraded, handled < Len(sent), NEW f \in Frames, Valid(f),
         NEW op \in Opcode, NEW payload \in Seq(Octet), NEW sends \in BOOLEAN,
         Reply(f, op, payload, sends)
  PROVE  Inv'
<1>1. /\ sent' = sent /\ handled' = handled + 1 /\ page' = page /\ forwarded' = forwarded
      /\ data' = data
  BY DEF Reply
<1>2. handled' \in 0..Len(sent) /\ handled' >= handled /\ handled' \in Nat
  <2>1. handled + 1 \in 1..Len(sent) /\ handled \in Nat
    BY UnitOfState DEF Inv, TypeOK
  <2> QED
    BY <1>1, <2>1
<1>3. CASE CanSend(op, payload) /\ sends
  <2>1. /\ ws' = [After(f) EXCEPT !.sentClose = @ \/ op = "close"]
        /\ out' = Append(out, FrameOut(op, payload))
    BY <1>3 DEF Reply
  <2>2. /\ After(f) \in Connection /\ After(f).state \in {"closed", "length"}
        /\ After(f).continued = "none" => After(f).data = <<>>
    BY AfterType DEF Inv
  <2>3. /\ ws' \in Connection /\ ws'.state \in {"closed", "length"}
        /\ ws'.continued = "none" => ws'.data = <<>>
        /\ op = "close" => ws'.sentClose
    BY <2>1, <2>2 DEF Connection
  <2>4. ~ws.sentClose
    BY <1>3 DEF CanSend
  <2>5. Speaks' /\ Closing' /\ Switched /\ Switched' /\ out' \in Seq(Output)
    BY <2>1, <2>3, <2>4, FrameSent DEF Inv
  <2>6. TypeOK' /\ Held'
    BY <1>1, <1>2, <2>3, <2>5 DEF Inv, TypeOK, Held
  <2>7. Asked'
    BY <1>1, <1>2, <2>5, AskedKept
  <2> QED
    BY <2>5, <2>6, <2>7 DEF Inv
<1>4. CASE ~(CanSend(op, payload) /\ sends)
  <2>1. Fail /\ out' = out
    BY <1>4 DEF Reply
  <2>2. /\ ws' \in Connection /\ ws'.state = "error"
        /\ ws'.continued = ws.continued /\ ws'.data = ws.data /\ ws'.sentClose = ws.sentClose
    BY <2>1, FailType DEF Inv
  <2> QED
    BY <1>1, <1>2, <2>1, <2>2, QuietInv DEF Inv, TypeOK, Held
<1> QED
  BY <1>3, <1>4

LEMMA FrameInv ==
  ASSUME Inv, Upgraded, handled < Len(sent), NEW f \in Frames, FrameNext(f)
  PROVE  Inv'
<1>1. handled + 1 \in 0..Len(sent) /\ handled + 1 >= handled /\ handled + 1 \in Nat
      /\ handled \in 0..Len(sent) /\ handled >= handled
  <2>1. handled + 1 \in 1..Len(sent) /\ handled \in 0..Len(sent) /\ handled \in Nat
    BY UnitOfState DEF Inv, TypeOK
  <2> QED
    BY <2>1
<1>2. /\ TypeOK /\ Held
      /\ page \in {"never", "held", "lost"} /\ data \in Nat
      /\ forwarded \in Seq([data: Seq(Octet), last: Nat])
  BY DEF Inv, TypeOK
<1>3. "close" \in Opcode /\ "pong" \in Opcode /\ <<>> \in Seq(Octet)
  BY EmptySeq DEF Opcode, Control
<1>4. CASE RefuseFrame(f)
  <2>1. Fail /\ UNCHANGED <<sent, handled, page, out, forwarded, data>>
    BY <1>4 DEF RefuseFrame
  <2>2. /\ ws' \in Connection /\ ws'.state = "error"
        /\ ws'.continued = ws.continued /\ ws'.data = ws.data /\ ws'.sentClose = ws.sentClose
    BY <1>2, <2>1, FailType
  <2> QED
    BY <1>1, <1>2, <2>1, <2>2, QuietInv DEF Held
<1>5. CASE RecvFragment(f)
  <2>1. /\ Valid(f) /\ ws' = After(f) /\ handled' = handled + 1
        /\ UNCHANGED <<sent, page, out, forwarded, data>>
    BY <1>5 DEF RecvFragment
  <2>2. /\ ws' \in Connection /\ ws'.state \in {"closed", "length"}
        /\ ws'.sentClose = ws.sentClose
        /\ ws'.continued = "none" => ws'.data = <<>>
    BY <1>2, <2>1, AfterType
  <2> QED
    BY <1>1, <1>2, <2>1, <2>2, QuietInv
<1>6. ASSUME NEW sends \in BOOLEAN, RejectMessage(f, sends)
      PROVE  Inv'
  <2>1. Valid(f) /\ Reply(f, "close", <<>>, sends)
    BY <1>6 DEF RejectMessage
  <2> QED
    BY <1>3, <2>1, ReplyInv
<1>7. ASSUME NEW sends \in BOOLEAN, ForwardMessage(f, sends)
      PROVE  Inv'
  <2>1. Valid(f) /\ handled' = handled + 1 /\ UNCHANGED <<sent, page, out, data>>
    BY <1>7 DEF ForwardMessage
  <2>2. CASE sends
    <3>1. ws' = After(f) /\ forwarded' = Append(forwarded, [data |-> Gathered(f), last |-> handled + 1])
      BY <1>7, <2>2 DEF ForwardMessage
    <3>2. /\ ws' \in Connection /\ ws'.state \in {"closed", "length"}
          /\ ws'.sentClose = ws.sentClose
          /\ ws'.continued = "none" => ws'.data = <<>>
          /\ Gathered(f) \in Seq(Octet)
      BY <1>2, <2>1, <3>1, AfterType
    <3>3. forwarded' \in Seq([data: Seq(Octet), last: Nat])
      BY <1>1, <3>1, <3>2, Appended DEF Inv, TypeOK
    <3> QED
      BY <1>1, <1>2, <2>1, <3>2, <3>3, QuietInv
  <2>3. CASE ~sends
    <3>1. Fail /\ forwarded' = forwarded
      BY <1>7, <2>3 DEF ForwardMessage
    <3>2. /\ ws' \in Connection /\ ws'.state = "error"
          /\ ws'.continued = ws.continued /\ ws'.data = ws.data /\ ws'.sentClose = ws.sentClose
      BY <1>2, <3>1, FailType
    <3> QED
      BY <1>1, <1>2, <2>1, <3>1, <3>2, QuietInv DEF Held
  <2> QED
    BY <2>2, <2>3
<1>8. ASSUME NEW sends \in BOOLEAN, RecvControl(f, sends)
      PROVE  Inv'
  <2>1. Valid(f)
    BY <1>8 DEF RecvControl
  <2>2. Gathered(f) \in Seq(Octet)
    BY <1>2, <2>1, AfterType
  <2>3. CASE Reply(f, "close", <<>>, sends)
    BY <1>3, <2>1, <2>3, ReplyInv
  <2>4. CASE Reply(f, "pong", Gathered(f), sends)
    BY <1>3, <2>1, <2>2, <2>4, ReplyInv
  <2>5. CASE ws' = After(f) /\ handled' = handled + 1 /\ UNCHANGED <<sent, page, out, forwarded, data>>
    <3>1. /\ ws' \in Connection /\ ws'.state \in {"closed", "length"}
          /\ ws'.sentClose = ws.sentClose
          /\ ws'.continued = "none" => ws'.data = <<>>
      BY <1>2, <2>1, <2>5, AfterType
    <3> QED
      BY <1>1, <1>2, <2>5, <3>1, QuietInv
  <2> QED
    BY <1>8, <2>3, <2>4, <2>5 DEF RecvControl
<1> QED
  BY <1>4, <1>5, <1>6, <1>7, <1>8 DEF FrameNext

-----------------------------------------------------------------------------
(* The inspector. *)

LEMMA InspectorInv ==
  ASSUME Inv, InspectorNext
  PROVE  Inv'
<1>1. /\ handled \in 0..Len(sent) /\ handled >= handled
      /\ page \in {"never", "held", "lost"} /\ data \in Nat
      /\ forwarded \in Seq([data: Seq(Octet), last: Nat])
      /\ ws \in Connection
      /\ ws.continued = "none" => ws.data = <<>>
  BY DEF Inv, TypeOK, Held
<1>2. ASSUME NEW payload \in Texts, NEW sends \in BOOLEAN, InspectorSends(payload, sends)
      PROVE  Inv'
  <2>1. /\ Upgraded /\ data' = data + 1 /\ UNCHANGED <<sent, handled, page, forwarded>>
    BY <1>2 DEF InspectorSends
  <2>2. data' \in Nat
    BY <2>1 DEF Inv, TypeOK
  <2>3. CASE CanSend("text", payload) /\ sends
    <3>1. ws' = ws /\ out' = Append(out, FrameOut(WireOp("text"), payload))
      BY <1>2, <2>3 DEF InspectorSends
    <3>2. /\ WireOp("text") \in Opcode /\ WireOp("text") # "close" /\ payload \in Seq(Octet)
          /\ ~ws.sentClose
      BY <2>3, WebsocketAssumption DEF WireOp, Opcode, Control, CanSend
    <3>3. Speaks' /\ Closing' /\ Switched /\ Switched' /\ out' \in Seq(Output)
      BY <2>1, <3>1, <3>2, FrameSent DEF Inv, Upgraded
    <3>4. TypeOK' /\ Held'
      BY <2>1, <2>2, <3>1, <3>3 DEF Inv, TypeOK, Held
    <3>5. Asked'
      BY <1>1, <2>1, <3>3, AskedKept
    <3> QED
      BY <3>3, <3>4, <3>5 DEF Inv
  <2>4. CASE ~(CanSend("text", payload) /\ sends)
    <3>1. Fail /\ out' = out
      BY <1>2, <2>4 DEF InspectorSends
    <3>2. /\ ws' \in Connection /\ ws'.state = "error"
          /\ ws'.continued = ws.continued /\ ws'.data = ws.data /\ ws'.sentClose = ws.sentClose
      BY <3>1, FailType DEF Inv
    <3> QED
      BY <1>1, <2>1, <2>2, <3>1, <3>2, QuietInv DEF Held
  <2> QED
    BY <2>3, <2>4
<1>3. CASE PageLost
  <2>1. page' = "lost" /\ UNCHANGED <<sent, handled, ws, out, forwarded, data>>
    BY <1>3 DEF PageLost
  <2>2. /\ sent' = sent /\ out' = out /\ handled' \in 0..Len(sent) /\ handled' >= handled
        /\ page' \in {"never", "held", "lost"} /\ data' \in Nat
        /\ forwarded' \in Seq([data: Seq(Octet), last: Nat])
        /\ ws' \in Connection /\ ws'.state = ws.state /\ ws'.sentClose = ws.sentClose
        /\ ws'.continued = "none" => ws'.data = <<>>
    BY <1>1, <2>1
  <2> QED
    BY <2>2, QuietInv
<1> QED
  BY <1>2, <1>3 DEF InspectorNext

-----------------------------------------------------------------------------

LEMMA StepInv == Inv /\ [Next]_vars => Inv'
<1> SUFFICES ASSUME Inv, [Next]_vars PROVE Inv'
  OBVIOUS
<1>1. ASSUME NEW u \in Requests \cup Frames, ClientSends(u) PROVE Inv'
  BY <1>1, ClientSendsInv
<1>2. ASSUME handled < Len(sent), RecvUnit(sent[handled + 1]) PROVE Inv'
  <2> DEFINE u == sent[handled + 1]
  <2>1. CASE ws.state \in {"request", "headers"} /\ RequestNext(u)
    <3>1. u \in Requests
      BY <1>2, <2>1, UnitOfState
    <3>2. ASSUME NEW remote \in BOOLEAN, NEW sends \in BOOLEAN, PlainRequest(u, remote, sends)
          PROVE  Inv'
      BY <1>2, <3>1, <3>2, PlainRequestInv
    <3>3. ASSUME NEW found \in BOOLEAN, NEW sends \in BOOLEAN, UpgradeRequest(u, found, sends)
          PROVE  Inv'
      BY <1>2, <3>1, <3>3, UpgradeRequestInv
    <3>4. CASE RecvRequest(u)
      BY <3>1, <3>4, RecvRequestInv
    <3> QED
      BY <2>1, <3>2, <3>3, <3>4 DEF RequestNext
  <2>2. CASE Upgraded /\ FrameNext(u)
    BY <1>2, <2>2, UnitOfState, FrameInv
  <2> QED
    BY <1>2, <2>1, <2>2 DEF RecvUnit
<1>3. CASE InspectorNext
  BY <1>3, InspectorInv
<1>4. CASE UNCHANGED vars
  <2>1. /\ sent' = sent /\ handled' = handled /\ ws' = ws /\ page' = page /\ out' = out
        /\ forwarded' = forwarded /\ data' = data
    BY <1>4 DEF vars
  <2>2. /\ handled \in 0..Len(sent) /\ handled >= handled
        /\ page \in {"never", "held", "lost"} /\ data \in Nat
        /\ forwarded \in Seq([data: Seq(Octet), last: Nat])
        /\ ws \in Connection
        /\ ws.continued = "none" => ws.data = <<>>
    BY DEF Inv, TypeOK, Held
  <2>3. /\ sent' = sent /\ out' = out /\ handled' \in 0..Len(sent) /\ handled' >= handled
        /\ page' \in {"never", "held", "lost"} /\ data' \in Nat
        /\ forwarded' \in Seq([data: Seq(Octet), last: Nat])
        /\ ws' \in Connection /\ ws'.state = ws.state /\ ws'.sentClose = ws.sentClose
        /\ ws'.continued = "none" => ws'.data = <<>>
    BY <2>1, <2>2
  <2> QED
    BY <2>3, QuietInv
<1> QED
  BY <1>1, <1>2, <1>3, <1>4 DEF Next

LEMMA AlwaysInv == Spec => []Inv
<1> QED
  BY InitInv, StepInv, PTL DEF Spec

(* Nothing follows a close frame on a connection, however the two sides' wishes to
   close and the inspector's data cross (ws_send_frame). *)
THEOREM NothingFollowsClose == Spec => []ClosedLast
<1>1. Inv => ClosedLast
  BY DEF Inv, Closing, ClosedLast
<1> QED
  BY <1>1, AlwaysInv, PTL

(* A connection speaks HTTP, upgrades at most once, and speaks frames from then on
   (ws_recv_headers). *)
THEOREM UpgradesOnce == Spec => []FramesAfterUpgrade
<1>1. Inv => FramesAfterUpgrade
  <2> SUFFICES ASSUME Inv, NEW n \in DOMAIN out
               PROVE  /\ out[n].what = "frame" => \E k \in 1..(n - 1) : out[k] = Upgrade
                      /\ out[n] = Upgrade => \A k \in DOMAIN out : k > n => out[k].what = "frame"
    BY DEF FramesAfterUpgrade
  <2>1. DOMAIN out = 1..Len(out) /\ Len(out) \in Nat
    BY LenProperties DEF Inv, TypeOK
  <2>2. CASE HttpOnly
    BY <2>2, OutputsDiffer DEF HttpOnly
  <2>3. ASSUME NEW k \in DOMAIN out, SwitchedAt(k)
        PROVE  /\ out[n].what = "frame" => k \in 1..(n - 1) /\ out[k] = Upgrade
               /\ out[n] = Upgrade => n = k
    BY <2>1, <2>3, OutputsDiffer DEF SwitchedAt
  <2> QED
    BY <2>2, <2>3 DEF Inv, Speaks, Switched, SwitchedAt
<1> QED
  BY <1>1, AlwaysInv, PTL

(* A ping is answered with its payload, and with what was held of the message that it
   interrupted in front of it (ws_recv_frame, iwdp_on_frame). *)
THEOREM PingsAreEchoed == Spec => PongsEcho
<1>1. Inv /\ [Next]_vars => [PingEchoed]_vars
  <2> SUFFICES ASSUME Inv, Next, NEW f \in Frames, handled' = handled + 1, sent[handled'] = f,
                      f.op = "ping", Len(out') > Len(out), ws.continued = "none"
               PROVE  out'[Len(out')].data = f.payload
    BY DEF PingEchoed
  <2>1. handled \in Nat /\ handled' # handled
    BY DEF Inv, TypeOK
  <2>2. handled < Len(sent) /\ RecvUnit(f)
    BY <2>1 DEF Next, ClientSends, InspectorNext, InspectorSends, PageLost
  <2>3. Upgraded /\ FrameNext(f)
    BY <2>2, UnitOfState, UnitsDiffer DEF RecvUnit
  <2>4. PICK sends \in BOOLEAN : RecvControl(f, sends)
    BY <2>1, <2>3 DEF FrameNext, RefuseFrame, RecvFragment, RejectMessage, ForwardMessage, Control
  <2>5. Reply(f, "pong", Gathered(f), sends) /\ Valid(f)
    BY <2>4 DEF RecvControl
  <2>6. out' # out
    OBVIOUS
  <2>7. out' = Append(out, FrameOut("pong", Gathered(f)))
    BY <2>5, <2>6 DEF Reply
  <2>8. f.payload \in Seq(Octet) /\ Gathered(f) \in Seq(Octet)
    BY <2>5, AfterType DEF Inv
  <2>9. Gathered(f) = f.payload
    BY <2>8, ConcatEmptySeq DEF Gathered, Inv, Held
  <2>10. FrameOut("pong", Gathered(f)) \in Output
    BY <2>8 DEF Output, Opcode, Control
  <2>11. out'[Len(out')] = FrameOut("pong", Gathered(f))
    BY <2>7, <2>10, Appended DEF Inv, TypeOK
  <2> QED
    BY <2>9, <2>11, OutputsDiffer
<1> QED
  BY <1>1, AlwaysInv, PTL DEF Spec, PongsEcho

-----------------------------------------------------------------------------
(* A frame is refused for what it starts, or for octets that are no UTF-8 text, with
   nothing more demanded of it (ws_read_frame). *)
THEOREM Utf8IsAccepted == Spec => Utf8IsTaken
<1>1. Inv /\ [Next]_vars => [TextTaken]_vars
  <2> SUFFICES ASSUME Inv, Next, NEW f \in Frames, handled < Len(sent), sent[handled + 1] = f,
                      Upgraded, ~InvalidStart(f.op, f.fin, Len(f.payload) > MaxShort),
                      StartsText(f.payload), ws' # ws, data' = data
               PROVE  handled' = handled + 1
    BY DEF TextTaken
  <2>1. f.payload \in Seq(Octet)
    BY WebsocketAssumption DEF Frame
  <2>2. ~Rejects(f.payload)
    BY <2>1, ScanFollowsGrammar
  <2>3. ~RefuseFrame(f)
    BY <2>2 DEF RefuseFrame, Valid, InvalidPayload
  <2>4. data \in Nat
    BY DEF Inv, TypeOK
  <2>5. RecvUnit(f)
    BY <2>4 DEF Next, ClientSends, InspectorNext, InspectorSends, PageLost
  <2>6. FrameNext(f)
    BY <2>5 DEF RecvUnit, Upgraded
  <2> QED
    BY <2>3, <2>6 DEF FrameNext, RecvFragment, RejectMessage, ForwardMessage, RecvControl, Reply
<1> QED
  BY <1>1, AlwaysInv, PTL DEF Spec, Utf8IsTaken

-----------------------------------------------------------------------------
(* The fragments of a message. *)

Payloads(units, first, last) == [n \in 1..(last - first + 1) |-> units[first + n - 1].payload]

(* The payloads of the frames from first to last, which may be more fragments of one
   message, are these octets. *)
Gathers(units, first, last, octets) ==
  /\ first \in 1..last
  /\ \A n \in first..last : units[n] \in Frames
  /\ units[first].op \in {"text", "binary"}
  /\ \A n \in first..last : n > first => units[n].op = "cont"
  /\ \A n \in first..last : n < last => ~units[n].fin
  /\ octets = FlattenSeq(Payloads(units, first, last))
  /\ units[first].op = "text" => \A n \in first..last : StartsText(units[n].payload)

ForwardedFrom(k, first) ==
  /\ Gathers(sent, first, forwarded[k].last, forwarded[k].data)
  /\ k > 1 => forwarded[k - 1].last < first

Forwarded ==
  \A k \in DOMAIN forwarded :
    /\ forwarded[k].last \in 1..handled /\ sent[forwarded[k].last].fin
    /\ \E first \in 1..forwarded[k].last : ForwardedFrom(k, first)

PendingFrom(first) ==
  /\ Gathers(sent, first, handled, ws.data)
  /\ ~sent[handled].fin /\ sent[first].op = ws.continued
  /\ \A k \in DOMAIN forwarded : forwarded[k].last < first

(* What the connection holds is a message begun after the last one that was forwarded. *)
Pending ==
  /\ Upgraded /\ ws.continued # "none" => \E first \in 1..handled : PendingFrom(first)
  /\ ws.state \in {"request", "headers"} => ws.continued = "none"

SentTexts == \A n \in DOMAIN out : out[n].op = "text" => StartsText(out[n].data)

Whole == Forwarded /\ Pending /\ SentTexts

LEMMA FrameTypes ==
  ASSUME NEW f \in Frames
  PROVE  f.payload \in Seq(Octet) /\ f.fin \in BOOLEAN /\ f.op \in Opcode
  BY WebsocketAssumption DEF Frame

LEMMA GathersOne ==
  ASSUME NEW units, NEW n \in Nat, n > 0, units[n] \in Frames, units[n].op \in {"text", "binary"},
         units[n].op = "text" => StartsText(units[n].payload)
  PROVE  Gathers(units, n, n, units[n].payload)
<1> DEFINE x == units[n].payload
<1>1. x \in Seq(Octet)
  BY FrameTypes
<1>2. Payloads(units, n, n) = <<x>>
  <2>1. n - n + 1 = 1 /\ n + 1 - 1 = n
    OBVIOUS
  <2>2. Payloads(units, n, n) = [i \in 1..1 |-> units[n + i - 1].payload]
    BY <2>1 DEF Payloads
  <2>3. \A i \in 1..1 : n + i - 1 = n
    OBVIOUS
  <2>4. [i \in 1..1 |-> units[n + i - 1].payload] = [i \in 1..1 |-> x]
    BY <2>3
  <2>5. [i \in 1..1 |-> x] = <<x>>
    OBVIOUS
  <2> QED
    BY <2>2, <2>4, <2>5
<1>3. x = FlattenSeq(Payloads(units, n, n))
  BY <1>1, <1>2, FlattenSeqOne
<1>4. \A i \in n..n : i = n
  OBVIOUS
<1>5. n \in 1..n
  OBVIOUS
<1> QED
  BY <1>3, <1>4, <1>5 DEF Gathers

LEMMA IsAppend ==
  ASSUME NEW S, NEW s \in Seq(S), NEW x \in S, NEW t \in Seq(S), NEW n \in Nat,
         Len(s) = n, Len(t) = n + 1, \A i \in 1..n : t[i] = s[i], t[n + 1] = x
  PROVE  t = Append(s, x)
<1>1. /\ Append(s, x) \in Seq(S) /\ Len(Append(s, x)) = n + 1
      /\ \A i \in 1..n : Append(s, x)[i] = s[i]
      /\ Append(s, x)[n + 1] = x
  BY Appended
<1>2. \A i \in 1..(n + 1) : t[i] = Append(s, x)[i]
  <2>1. \A i \in 1..(n + 1) : i \in 1..n \/ i = n + 1
    OBVIOUS
  <2> QED
    BY <1>1, <2>1
<1> QED
  BY <1>1, <1>2, SeqEqual

LEMMA GathersMore ==
  ASSUME NEW units, NEW first, NEW last \in Nat, NEW octets, Gathers(units, first, last, octets),
         ~units[last].fin, units[last + 1] \in Frames, units[last + 1].op = "cont",
         units[first].op = "text" => StartsText(units[last + 1].payload)
  PROVE  Gathers(units, first, last + 1, octets \o units[last + 1].payload)
<1> PICK a \in Nat : a = first /\ a > 0 /\ a <= last
  BY DEF Gathers
<1> PICK n \in Nat : n = last - a + 1
  OBVIOUS
<1> DEFINE p == Payloads(units, a, last)
           x == units[last + 1].payload
           q == Payloads(units, a, last + 1)
<1>1. x \in Seq(Octet)
  BY FrameTypes
<1>2. p = [i \in 1..n |-> units[a + i - 1].payload] /\ q = [i \in 1..(n + 1) |-> units[a + i - 1].payload]
  <2>1. last - a + 1 = n /\ last + 1 - a + 1 = n + 1
    OBVIOUS
  <2> QED
    BY <2>1 DEF Payloads
<1>3. \A i \in 1..n : units[a + i - 1].payload \in Seq(Octet)
  <2> SUFFICES ASSUME NEW i \in 1..n PROVE units[a + i - 1].payload \in Seq(Octet)
    OBVIOUS
  <2>1. a + i - 1 \in a..last
    OBVIOUS
  <2>2. units[a + i - 1] \in Frames
    BY <2>1 DEF Gathers
  <2> QED
    BY <2>2, FrameTypes
<1>4. p \in Seq(Seq(Octet)) /\ Len(p) = n
  BY <1>2, <1>3
<1>5. a + (n + 1) - 1 = last + 1
  OBVIOUS
<1>6. q = Append(p, x)
  <2>1. \A i \in 1..n : i <= n + 1 /\ q[i] = p[i]
    BY <1>2, SMTT(30)
  <2>2. n + 1 \in 1..(n + 1) /\ q[n + 1] = x
    BY <1>2, <1>5
  <2>3. q \in Seq(Seq(Octet)) /\ Len(q) = n + 1
    <3>1. \A i \in 1..(n + 1) : units[a + i - 1].payload \in Seq(Octet)
      <4> SUFFICES ASSUME NEW i \in 1..(n + 1) PROVE units[a + i - 1].payload \in Seq(Octet)
        OBVIOUS
      <4>1. i \in 1..n \/ i = n + 1
        OBVIOUS
      <4> QED
        BY <1>1, <1>3, <1>5, <4>1
    <3> HIDE DEF q
    <3> QED
      BY <1>2, <3>1
  <2>4. PICK P, Q, X : P = p /\ Q = q /\ X = x
    OBVIOUS
  <2> HIDE DEF p, x, q
  <2>5. P \in Seq(Seq(Octet)) /\ X \in Seq(Octet) /\ Len(P) = n
    BY <1>1, <1>4, <2>4
  <2>6. Q \in Seq(Seq(Octet)) /\ Len(Q) = n + 1
    BY <2>3, <2>4
  <2>7. (\A i \in 1..n : Q[i] = P[i]) /\ Q[n + 1] = X
    BY <2>1, <2>2, <2>4
  <2>8. Q = Append(P, X)
    BY <2>5, <2>6, <2>7, IsAppend, SMTT(30)
  <2> QED
    BY <2>4, <2>8
<1>7. octets = FlattenSeq(p)
  BY DEF Gathers
<1>8. octets \o x = FlattenSeq(q)
  <2> HIDE DEF p, x, q
  <2> QED
    BY <1>1, <1>4, <1>6, <1>7, FlattenSeqAppend
<1>9. \A i \in a..(last + 1) : i \in a..last \/ i = last + 1
  OBVIOUS
<1>10. a \in a..last /\ a \in 1..(last + 1) /\ last + 1 > a
  OBVIOUS
<1>11. \A i \in a..(last + 1) : units[i] \in Frames
  BY <1>9 DEF Gathers
<1>12. \A i \in a..(last + 1) : i > a => units[i].op = "cont"
  BY <1>9 DEF Gathers
<1>13. \A i \in a..(last + 1) : i < last + 1 => ~units[i].fin
  <2> SUFFICES ASSUME NEW i \in a..(last + 1), i < last + 1 PROVE ~units[i].fin
    OBVIOUS
  <2>1. i \in a..last /\ (i < last \/ i = last)
    OBVIOUS
  <2> QED
    BY <2>1 DEF Gathers
<1>14. units[a].op = "text" => \A i \in a..(last + 1) : StartsText(units[i].payload)
  BY <1>9 DEF Gathers
<1> HIDE DEF p, x, q
<1>15. Gathers(units, a, last + 1, octets \o x)
  BY <1>8, <1>10, <1>11, <1>12, <1>13, <1>14 DEF Gathers, q
<1> QED
  BY <1>15 DEF x

(* The frames after it make no difference. *)
LEMMA GathersSame ==
  ASSUME NEW units, NEW others, NEW first, NEW last \in Nat, NEW octets,
         \A n \in 1..last : others[n] = units[n], Gathers(units, first, last, octets)
  PROVE  Gathers(others, first, last, octets)
<1> PICK a \in Nat : a = first /\ a > 0 /\ a <= last
  BY DEF Gathers
<1>1. \A i \in a..last : others[i] = units[i]
  OBVIOUS
<1>2. Payloads(others, a, last) = Payloads(units, a, last)
  <2>1. \A i \in 1..(last - a + 1) : a + i - 1 \in a..last
    OBVIOUS
  <2> QED
    BY <1>1, <2>1 DEF Payloads
<1>3. others[a] = units[a]
  OBVIOUS
<1>4. Gathers(others, a, last, octets)
  BY <1>1, <1>2, <1>3 DEF Gathers
<1> QED
  BY <1>4

-----------------------------------------------------------------------------

(* Nothing was forwarded, and the units handled so far are what they were. *)
LEMMA ForwardedKept ==
  ASSUME TypeOK, Forwarded, forwarded' = forwarded, handled' \in Nat, handled' >= handled,
         \A n \in 1..handled : sent'[n] = sent[n]
  PROVE  Forwarded'
<1>1. handled \in Nat
  BY DEF TypeOK
<1> SUFFICES ASSUME NEW k \in DOMAIN forwarded
             PROVE  /\ forwarded[k].last \in 1..handled' /\ sent'[forwarded[k].last].fin
                    /\ \E first \in 1..forwarded[k].last :
                         /\ Gathers(sent', first, forwarded[k].last, forwarded[k].data)
                         /\ k > 1 => forwarded[k - 1].last < first
  BY DEF Forwarded, ForwardedFrom
<1>2. forwarded[k].last \in 1..handled /\ sent[forwarded[k].last].fin
  BY DEF Forwarded
<1> PICK last \in Nat : last = forwarded[k].last /\ last \in 1..handled
  BY <1>1, <1>2
<1>3. PICK first \in 1..last : /\ Gathers(sent, first, last, forwarded[k].data)
                               /\ k > 1 => forwarded[k - 1].last < first
  BY DEF Forwarded, ForwardedFrom
<1>4. \A n \in 1..last : sent'[n] = sent[n]
  BY <1>1
<1>5. Gathers(sent', first, last, forwarded[k].data)
  <2> PICK units, others, octets : units = sent /\ others = sent' /\ octets = forwarded[k].data
    OBVIOUS
  <2>1. Gathers(units, first, last, octets)
    BY <1>3
  <2>2. \A n \in 1..last : others[n] = units[n]
    BY <1>4
  <2>3. Gathers(others, first, last, octets)
    BY <2>1, <2>2, GathersSame
  <2> QED
    BY <2>3
<1>6. last \in 1..handled' /\ last \in 1..last
  BY <1>1
<1>7. sent'[last].fin
  BY <1>2, <1>4, <1>6
<1>8. first \in 1..forwarded[k].last /\ Gathers(sent', first, forwarded[k].last, forwarded[k].data)
  BY <1>5
<1>9. k > 1 => forwarded[k - 1].last < first
  BY <1>3
<1> QED
  BY <1>6, <1>7, <1>8, <1>9

(* The connection holds no message any more. *)
LEMMA NothingPends ==
  ASSUME Upgraded' => ws'.continued = "none",
         ws'.state \in {"request", "headers"} => ws'.continued = "none"
  PROVE  Pending'
  BY DEF Pending

LEMMA SentTextsMore ==
  ASSUME TypeOK, SentTexts, NEW op \in Opcode, NEW payload \in Seq(Octet),
         op = "text" => ~Rejects(payload), out' = Append(out, FrameOut(op, payload))
  PROVE  SentTexts'
<1> DEFINE f == FrameOut(op, payload)
<1>1. f \in Output /\ f.op = op /\ f.data = payload
  BY OutputsDiffer DEF Output
<1>2. op = "text" => StartsText(payload)
  BY ScanFollowsGrammar
<1> HIDE DEF f
<1>3. /\ DOMAIN out = 1..Len(out) /\ Len(out) \in Nat
      /\ DOMAIN out' = 1..(Len(out) + 1)
      /\ \A n \in 1..Len(out) : out'[n] = out[n]
      /\ out'[Len(out) + 1] = f
  BY <1>1, Appended DEF TypeOK, f
<1>4. \A n \in DOMAIN out' : n \in DOMAIN out \/ n = Len(out) + 1
  BY <1>3
<1> QED
  BY <1>1, <1>2, <1>3, <1>4 DEF SentTexts

(* A frame of a message goes on with what the connection holds of it. *)
LEMMA Gathering ==
  ASSUME Inv, Whole, Upgraded, handled < Len(sent), NEW f \in Frames, f = sent[handled + 1],
         Valid(f), f.op \notin Control
  PROVE  \E first \in 1..(handled + 1) :
           /\ Gathers(sent, first, handled + 1, Gathered(f))
           /\ sent[first].op = Meaning(f)
           /\ \A k \in DOMAIN forwarded : forwarded[k].last < first
<1>1. handled \in Nat /\ handled + 1 \in Nat /\ handled + 1 > 0
  BY DEF Inv, TypeOK
<1>2. f.payload \in Seq(Octet) /\ f.op \in Opcode
  BY FrameTypes
<1>3. Meaning(f) = "text" => StartsText(f.payload)
  BY <1>2, ScanFollowsGrammar DEF Valid, InvalidPayload
<1>4. CASE ws.continued = "none"
  <2>1. f.op \in {"text", "binary"}
    BY <1>2, <1>4 DEF Valid, InvalidStart, Opcode, Control
  <2>2. Meaning(f) = f.op
    BY <2>1 DEF Meaning
  <2>3. Gathered(f) = f.payload
    BY <1>2, <1>4, ConcatEmptySeq DEF Gathered, Inv, Held
  <2>4. Gathers(sent, handled + 1, handled + 1, f.payload)
    BY <1>1, <1>3, <2>1, <2>2, GathersOne
  <2>5. \A k \in DOMAIN forwarded : forwarded[k].last < handled + 1
    BY <1>1 DEF Whole, Forwarded
  <2>6. handled + 1 \in 1..(handled + 1)
    BY <1>1
  <2> QED
    BY <2>2, <2>3, <2>4, <2>5, <2>6
<1>5. CASE ws.continued # "none"
  <2>1. f.op = "cont"
    BY <1>2, <1>5 DEF Valid, InvalidStart, Opcode, Control
  <2>2. Meaning(f) = ws.continued
    BY <2>1 DEF Meaning
  <2>3. PICK first \in 1..handled : PendingFrom(first)
    BY <1>5 DEF Whole, Pending
  <2>4. Gathers(sent, first, handled + 1, ws.data \o f.payload)
    <3>1. Gathers(sent, first, handled, ws.data) /\ ~sent[handled].fin /\ sent[first].op = ws.continued
      BY <2>3 DEF PendingFrom
    <3> QED
      BY <1>1, <1>3, <2>1, <2>2, <3>1, GathersMore
  <2>5. first \in 1..(handled + 1)
    BY <1>1
  <2> QED
    BY <2>2, <2>3, <2>4, <2>5 DEF PendingFrom, Gathered
<1> QED
  BY <1>4, <1>5

LEMMA InitWhole == Init => Whole
<1> SUFFICES ASSUME Init PROVE Whole
  OBVIOUS
<1>1. DOMAIN out = {} /\ DOMAIN forwarded = {} /\ ws.state = "request" /\ ws.continued = "none"
  BY DEF Init
<1> QED
  BY <1>1 DEF Whole, Forwarded, Pending, SentTexts

LEMMA ClientSendsWhole ==
  ASSUME Inv, Whole, NEW u \in Requests \cup Frames, ClientSends(u)
  PROVE  Whole'
<1>1. /\ sent' = Append(sent, u)
      /\ handled' = handled /\ ws' = ws /\ out' = out /\ forwarded' = forwarded
  BY DEF ClientSends
<1>2. Len(sent) \in Nat /\ \A n \in 1..Len(sent) : sent'[n] = sent[n]
  BY <1>1, Appended DEF Inv, TypeOK
<1>3. handled \in Nat /\ handled >= handled /\ \A n \in 1..handled : sent'[n] = sent[n]
  <2>1. handled \in 0..Len(sent)
    BY DEF Inv, TypeOK
  <2> QED
    BY <1>2, <2>1
<1>4. Forwarded' /\ SentTexts'
  BY <1>1, <1>3, ForwardedKept DEF Inv, Whole, SentTexts
<1>5. Pending'
  <2>1. ASSUME NEW first \in 1..handled, PendingFrom(first) PROVE PendingFrom(first)'
    <3>1. Gathers(sent', first, handled, ws.data)
      <4> PICK units, others, octets : units = sent /\ others = sent' /\ octets = ws.data
        OBVIOUS
      <4>1. Gathers(units, first, handled, octets) /\ \A n \in 1..handled : others[n] = units[n]
        BY <1>3, <2>1 DEF PendingFrom
      <4>2. Gathers(others, first, handled, octets)
        BY <1>3, <4>1, GathersSame
      <4> QED
        BY <4>2
    <3>2. sent'[first] = sent[first] /\ sent'[handled] = sent[handled]
      BY <1>3
    <3> QED
      BY <1>1, <2>1, <3>1, <3>2 DEF PendingFrom
  <2> QED
    BY <1>1, <2>1 DEF Whole, Pending, Upgraded
<1> QED
  BY <1>4, <1>5 DEF Whole

LEMMA RequestWhole ==
  ASSUME Inv, Whole, handled < Len(sent), NEW r \in Requests,
         ws.state \in {"request", "headers"}, RequestNext(r)
  PROVE  Whole'
<1>1. ws \in Connection /\ handled \in Nat /\ handled >= handled /\ handled + 1 \in Nat
      /\ handled + 1 >= handled
  BY DEF Inv, TypeOK
<1>2. ws.continued = "none"
  BY DEF Whole, Pending
<1>3. sent' = sent /\ forwarded' = forwarded /\ handled' \in {handled, handled + 1}
      /\ ws'.continued = "none"
  BY <1>1, <1>2 DEF RequestNext, RecvRequest, Fail, PlainRequest, UpgradeRequest, Connection
<1>4. Forwarded'
  BY <1>1, <1>3, ForwardedKept DEF Inv, Whole
<1>5. Pending'
  BY <1>3, NothingPends
<1>6. SentTexts'
  <2>1. \A n \in DOMAIN out' : out'[n].op # "text"
    <3>1. HttpOnly
      BY DEF Inv, Speaks
    <3>2. CASE out' = out
      BY <3>1, <3>2, OutputsDiffer DEF HttpOnly
    <3>3. CASE ws.state = "headers" /\ out' = Append(out, Http)
      <4>1. HttpOnly'
        BY <3>3, HttpSent DEF Inv
      <4> QED
        BY <4>1, OutputsDiffer DEF HttpOnly
    <3>4. ASSUME NEW found \in BOOLEAN, ws.state = "headers", out' = out \o Answer(found)
          PROVE  \A n \in DOMAIN out' : out'[n].op # "text"
      BY <3>4, UpgradeSent DEF Inv
    <3>5. \/ out' = out
          \/ ws.state = "headers" /\ out' = Append(out, Http)
          \/ \E found \in BOOLEAN : ws.state = "headers" /\ out' = out \o Answer(found)
      BY DEF RequestNext, RecvRequest, PlainRequest, UpgradeRequest
    <3> QED
      BY <3>2, <3>3, <3>4, <3>5
  <2> QED
    BY <2>1 DEF SentTexts
<1> QED
  BY <1>4, <1>5, <1>6 DEF Whole

(* A unit is handled and the connection holds no message after it. *)
LEMMA QuietWhole ==
  ASSUME Inv, Whole, sent' = sent, handled' \in Nat, handled' >= handled,
         forwarded' = forwarded, SentTexts', ws'.state \notin {"request", "headers"},
         ws'.state = "error" \/ ws'.continued = "none"
  PROVE  Whole'
<1>1. Forwarded'
  BY ForwardedKept DEF Inv, Whole
<1>2. Pending'
  BY NothingPends DEF Upgraded
<1> QED
  BY <1>1, <1>2 DEF Whole

LEMMA ReplyWhole ==
  ASSUME Inv, Whole, Upgraded, NEW f \in Frames, Valid(f), f.fin,
         NEW op \in Control, NEW payload \in Seq(Octet), NEW sends \in BOOLEAN,
         Reply(f, op, payload, sends)
  PROVE  Whole'
<1>1. sent' = sent /\ handled' = handled + 1 /\ forwarded' = forwarded
  BY DEF Reply
<1>2. handled + 1 \in Nat /\ handled + 1 >= handled /\ TypeOK /\ Held
  BY DEF Inv, TypeOK
<1>3. CASE CanSend(op, payload) /\ sends
  <2>1. /\ ws' = [After(f) EXCEPT !.sentClose = @ \/ op = "close"]
        /\ out' = Append(out, FrameOut(op, payload))
    BY <1>3 DEF Reply
  <2>2. op \in Opcode /\ op # "text"
    BY DEF Opcode, Control
  <2>3. SentTexts'
    BY <1>2, <2>1, <2>2, SentTextsMore DEF Whole
  <2>4. After(f) \in Connection /\ After(f).state \in {"closed", "length"}
    BY <1>2, AfterType
  <2>5. After(f).continued = "none"
    BY <1>2 DEF After, TypeOK, Connection
  <2>6. ws'.state \in {"closed", "length"} /\ ws'.continued = "none"
    BY <2>1, <2>4, <2>5 DEF Connection
  <2> QED
    BY <1>1, <1>2, <2>3, <2>6, QuietWhole
<1>4. CASE ~(CanSend(op, payload) /\ sends)
  <2>1. Fail /\ out' = out
    BY <1>4 DEF Reply
  <2>2. ws'.state = "error"
    BY <1>2, <2>1, FailType
  <2>3. SentTexts'
    BY <2>1 DEF Whole, SentTexts
  <2> QED
    BY <1>1, <1>2, <2>2, <2>3, QuietWhole
<1> QED
  BY <1>3, <1>4

LEMMA FragmentWhole ==
  ASSUME Inv, Whole, Upgraded, handled < Len(sent), NEW f \in Frames, f = sent[handled + 1],
         RecvFragment(f)
  PROVE  Whole'
<1>1. /\ Valid(f) /\ f.op \notin Control /\ ~f.fin /\ ws' = After(f) /\ handled' = handled + 1
      /\ sent' = sent /\ out' = out /\ forwarded' = forwarded
  BY DEF RecvFragment
<1>2. handled + 1 \in Nat /\ handled + 1 >= handled /\ TypeOK /\ Held
  BY DEF Inv, TypeOK
<1>3. PICK first \in 1..(handled + 1) :
        /\ Gathers(sent, first, handled + 1, Gathered(f))
        /\ sent[first].op = Meaning(f)
        /\ \A k \in DOMAIN forwarded : forwarded[k].last < first
  BY <1>1, Gathering
<1>4. After(f).data = Gathered(f) /\ After(f).continued = Meaning(f)
  BY <1>1, <1>2 DEF After, TypeOK, Connection
<1>5. After(f).state \in {"closed", "length"}
  BY <1>1, <1>2, AfterType
<1>6. PendingFrom(first)'
  BY <1>1, <1>3, <1>4 DEF PendingFrom
<1>7. Pending'
  BY <1>1, <1>5, <1>6 DEF Pending
<1>8. Forwarded' /\ SentTexts'
  BY <1>1, <1>2, ForwardedKept DEF Whole, SentTexts
<1> QED
  BY <1>7, <1>8 DEF Whole

LEMMA ForwardWhole ==
  ASSUME Inv, Whole, Upgraded, handled < Len(sent), NEW f \in Frames, f = sent[handled + 1],
         ForwardMessage(f, TRUE)
  PROVE  Whole'
<1> DEFINE m == [data |-> Gathered(f), last |-> handled + 1]
<1>1. /\ Valid(f) /\ f.op \notin Control /\ f.fin /\ ws' = After(f) /\ handled' = handled + 1
      /\ sent' = sent /\ out' = out /\ forwarded' = Append(forwarded, m)
  BY DEF ForwardMessage
<1>2. handled + 1 \in Nat /\ handled + 1 >= handled /\ TypeOK /\ Held /\ handled \in Nat
  BY DEF Inv, TypeOK
<1>3. PICK first \in 1..(handled + 1) :
        /\ Gathers(sent, first, handled + 1, Gathered(f))
        /\ \A k \in DOMAIN forwarded : forwarded[k].last < first
  BY <1>1, Gathering
<1>4. Gathered(f) \in Seq(Octet) /\ After(f).state \in {"closed", "length"}
  BY <1>1, <1>2, AfterType
<1>5. m \in [data: Seq(Octet), last: Nat] /\ m.last = handled + 1 /\ m.data = Gathered(f)
  BY <1>2, <1>4
<1> PICK c \in Nat : c = Len(forwarded)
  BY LenProperties DEF Inv, TypeOK
<1> HIDE DEF m
<1>6. /\ DOMAIN forwarded = 1..c /\ DOMAIN forwarded' = 1..(c + 1)
      /\ \A k \in 1..c : forwarded'[k] = forwarded[k]
      /\ forwarded'[c + 1] = m
  <2>1. forwarded \in Seq([data: Seq(Octet), last: Nat])
    BY DEF Inv, TypeOK
  <2> QED
    BY <1>1, <1>5, <2>1, Appended
<1>7. ASSUME NEW k \in 1..(c + 1)
      PROVE  /\ forwarded'[k].last \in 1..(handled + 1) /\ sent[forwarded'[k].last].fin
             /\ \E from \in 1..forwarded'[k].last :
                  /\ Gathers(sent, from, forwarded'[k].last, forwarded'[k].data)
                  /\ k > 1 => forwarded'[k - 1].last < from
  <2>1. k > 1 => k - 1 \in 1..c
    OBVIOUS
  <2>2. CASE k \in 1..c
    <3>1. forwarded'[k] = forwarded[k] /\ (k > 1 => forwarded'[k - 1] = forwarded[k - 1])
      BY <1>6, <2>1, <2>2
    <3>2. k \in DOMAIN forwarded
      BY <1>6, <2>2
    <3>3. forwarded[k].last \in 1..handled /\ sent[forwarded[k].last].fin
      BY <3>2 DEF Whole, Forwarded
    <3>4. forwarded[k].last \in 1..(handled + 1)
      BY <1>2, <3>3
    <3>5. PICK from \in 1..forwarded[k].last : ForwardedFrom(k, from)
      BY <3>2 DEF Whole, Forwarded
    <3> QED
      BY <3>1, <3>3, <3>4, <3>5 DEF ForwardedFrom
  <2>3. CASE k = c + 1
    <3>1. forwarded'[k].last = handled + 1 /\ forwarded'[k].data = Gathered(f)
      BY <1>5, <1>6, <2>3
    <3>2. k > 1 => forwarded'[k - 1].last < first
      BY <1>3, <1>6, <2>1
    <3>3. sent[handled + 1].fin /\ handled + 1 \in 1..(handled + 1)
      BY <1>1, <1>2
    <3> QED
      BY <1>3, <3>1, <3>2, <3>3
  <2> QED
    BY <2>2, <2>3
<1>8. Forwarded'
  BY <1>1, <1>6, <1>7 DEF Forwarded, ForwardedFrom
<1>9. After(f).continued = "none"
  BY <1>1, <1>2 DEF After, TypeOK, Connection
<1>10. Pending' /\ SentTexts'
  BY <1>1, <1>4, <1>9 DEF Pending, Whole, SentTexts
<1> QED
  BY <1>8, <1>10 DEF Whole

LEMMA FrameWhole ==
  ASSUME Inv, Whole, Upgraded, handled < Len(sent), NEW f \in Frames, f = sent[handled + 1],
         FrameNext(f)
  PROVE  Whole'
<1>1. /\ handled \in Nat /\ handled >= handled /\ handled + 1 \in Nat /\ handled + 1 >= handled
      /\ TypeOK /\ Held
  BY DEF Inv, TypeOK
<1>2. "close" \in Control /\ "pong" \in Control /\ <<>> \in Seq(Octet)
  BY EmptySeq DEF Control
<1>3. Valid(f) /\ f.op \in Control => f.fin
  BY DEF Valid, InvalidStart
<1>4. CASE RefuseFrame(f)
  <2>1. Fail /\ sent' = sent /\ handled' = handled /\ out' = out /\ forwarded' = forwarded
    BY <1>4 DEF RefuseFrame
  <2>2. ws'.state = "error" /\ SentTexts'
    BY <1>1, <2>1, FailType DEF Whole, SentTexts
  <2> QED
    BY <1>1, <2>1, <2>2, QuietWhole
<1>5. CASE RecvFragment(f)
  BY <1>5, FragmentWhole
<1>6. ASSUME NEW sends \in BOOLEAN, RejectMessage(f, sends) PROVE Whole'
  <2>1. Valid(f) /\ f.fin /\ Reply(f, "close", <<>>, sends)
    BY <1>6 DEF RejectMessage
  <2> QED
    BY <1>2, <2>1, ReplyWhole
<1>7. ASSUME NEW sends \in BOOLEAN, ForwardMessage(f, sends) PROVE Whole'
  <2>1. CASE sends
    BY <1>7, <2>1, ForwardWhole
  <2>2. CASE ~sends
    <3>1. Fail /\ sent' = sent /\ handled' = handled + 1 /\ out' = out /\ forwarded' = forwarded
      BY <1>7, <2>2 DEF ForwardMessage
    <3>2. ws'.state = "error" /\ SentTexts'
      BY <1>1, <3>1, FailType DEF Whole, SentTexts
    <3> QED
      BY <1>1, <3>1, <3>2, QuietWhole
  <2> QED
    BY <2>1, <2>2
<1>8. ASSUME NEW sends \in BOOLEAN, RecvControl(f, sends) PROVE Whole'
  <2>1. Valid(f) /\ f.fin
    BY <1>3, <1>8 DEF RecvControl
  <2>2. Gathered(f) \in Seq(Octet)
    BY <1>1, <2>1, AfterType
  <2>3. CASE Reply(f, "close", <<>>, sends)
    BY <1>2, <2>1, <2>3, ReplyWhole
  <2>4. CASE Reply(f, "pong", Gathered(f), sends)
    BY <1>2, <2>1, <2>2, <2>4, ReplyWhole
  <2>5. CASE ws' = After(f) /\ handled' = handled + 1 /\ UNCHANGED <<sent, page, out, forwarded, data>>
    <3>1. After(f).state \in {"closed", "length"}
      BY <1>1, <2>1, AfterType
    <3>2. After(f).continued = "none"
      BY <1>1, <2>1 DEF After, TypeOK, Connection
    <3>3. SentTexts'
      BY <2>5 DEF Whole, SentTexts
    <3> QED
      BY <1>1, <2>5, <3>1, <3>2, <3>3, QuietWhole
  <2> QED
    BY <1>8, <2>3, <2>4, <2>5 DEF RecvControl
<1> QED
  BY <1>4, <1>5, <1>6, <1>7, <1>8 DEF FrameNext

(* What the inspector does leaves the messages of the client alone. *)
LEMMA SameWhole ==
  ASSUME Inv, Whole, sent' = sent, handled' = handled, forwarded' = forwarded, SentTexts',
         ws' = ws \/ ws'.state = "error"
  PROVE  Whole'
<1>1. handled \in Nat /\ handled >= handled
  BY DEF Inv, TypeOK
<1>2. Forwarded'
  BY <1>1, ForwardedKept DEF Inv, Whole
<1>3. Pending'
  <2>1. CASE ws' = ws
    BY <2>1 DEF Whole, Pending, PendingFrom, Upgraded
  <2>2. CASE ws'.state = "error"
    BY <2>2 DEF Pending, Upgraded
  <2> QED
    BY <2>1, <2>2
<1> QED
  BY <1>2, <1>3 DEF Whole

LEMMA InspectorWhole ==
  ASSUME Inv, Whole, InspectorNext
  PROVE  Whole'
<1>1. ASSUME NEW payload \in Texts, NEW sends \in BOOLEAN, InspectorSends(payload, sends)
      PROVE  Whole'
  <2>1. sent' = sent /\ handled' = handled /\ forwarded' = forwarded
    BY <1>1 DEF InspectorSends
  <2>2. CASE CanSend("text", payload) /\ sends
    <3>1. ws' = ws /\ out' = Append(out, FrameOut(WireOp("text"), payload))
      BY <1>1, <2>2 DEF InspectorSends
    <3>2. /\ WireOp("text") \in Opcode /\ payload \in Seq(Octet)
          /\ WireOp("text") = "text" => ~Rejects(payload)
      BY <2>2, WebsocketAssumption DEF WireOp, Opcode, Control, CanSend
    <3>3. SentTexts'
      BY <3>1, <3>2, SentTextsMore DEF Inv, Whole
    <3> QED
      BY <2>1, <3>1, <3>3, SameWhole
  <2>3. CASE ~(CanSend("text", payload) /\ sends)
    <3>1. Fail /\ out' = out
      BY <1>1, <2>3 DEF InspectorSends
    <3>2. ws'.state = "error" /\ SentTexts'
      BY <3>1, FailType DEF Inv, Whole, SentTexts
    <3> QED
      BY <2>1, <3>2, SameWhole
  <2> QED
    BY <2>2, <2>3
<1>2. CASE PageLost
  <2>1. SentTexts'
    BY <1>2 DEF PageLost, Whole, SentTexts
  <2> QED
    BY <1>2, <2>1, SameWhole DEF PageLost
<1> QED
  BY <1>1, <1>2 DEF InspectorNext

LEMMA StepWhole == Inv /\ Whole /\ [Next]_vars => Whole'
<1> SUFFICES ASSUME Inv, Whole, [Next]_vars PROVE Whole'
  OBVIOUS
<1>1. ASSUME NEW u \in Requests \cup Frames, ClientSends(u) PROVE Whole'
  BY <1>1, ClientSendsWhole
<1>2. ASSUME handled < Len(sent), RecvUnit(sent[handled + 1]) PROVE Whole'
  <2>1. CASE ws.state \in {"request", "headers"} /\ RequestNext(sent[handled + 1])
    BY <1>2, <2>1, UnitOfState, RequestWhole
  <2>2. CASE Upgraded /\ FrameNext(sent[handled + 1])
    BY <1>2, <2>2, UnitOfState, FrameWhole
  <2> QED
    BY <1>2, <2>1, <2>2 DEF RecvUnit
<1>3. CASE InspectorNext
  BY <1>3, InspectorWhole
<1>4. CASE UNCHANGED vars
  <2>1. SentTexts'
    BY <1>4 DEF vars, Whole, SentTexts
  <2> QED
    BY <1>4, <2>1, SameWhole DEF vars
<1> QED
  BY <1>1, <1>2, <1>3, <1>4 DEF Next

LEMMA AlwaysWhole == Spec => [](Inv /\ Whole)
<1> QED
  BY InitInv, StepInv, InitWhole, StepWhole, PTL DEF Spec

(* However a message is cut into frames of any length, and whatever requests, control
   frames and inspector data come with it, the inspector is given all of it, in order and
   once (ws_recv_frame, iwdp_on_frame). *)
THEOREM MessagesAreForwardedWhole == Spec => []ForwardedWhole
<1>1. Inv /\ Whole => ForwardedWhole
  <2> SUFFICES ASSUME Inv, Whole, NEW k \in DOMAIN forwarded, NEW last, last = forwarded[k].last
               PROVE  \E first \in 1..last :
                        /\ sent[first] \in Frames /\ sent[last] \in Frames
                        /\ \A n \in first..last : sent[n] \in Frames
                        /\ IsMessage(first, last)
                        /\ k > 1 => forwarded[k - 1].last < first
                        /\ forwarded[k].data = FlattenSeq(Payloads(sent, first, last))
    BY DEF ForwardedWhole, Payloads
  <2>1. last \in 1..handled /\ sent[last].fin /\ handled \in Nat
    BY DEF Whole, Forwarded, Inv, TypeOK
  <2>2. PICK first \in 1..last : ForwardedFrom(k, first)
    BY DEF Whole, Forwarded
  <2>3. first \in first..last /\ last \in first..last
    BY <2>1
  <2> QED
    BY <2>1, <2>2, <2>3 DEF ForwardedFrom, Gathers, IsMessage
<1> QED
  BY <1>1, AlwaysWhole, PTL

(* A text that reaches the inspector is made of frames that UTF-8 texts start with, and so
   is every text sent to the client (ws_read_frame, ws_send_frame). *)
THEOREM TextsAreUtf8 == Spec => []TextWithinUtf8
<1>1. Inv /\ Whole => TextWithinUtf8
  <2> SUFFICES ASSUME Inv, Whole PROVE TextWithinUtf8
    OBVIOUS
  <2>1. ASSUME NEW k \in DOMAIN forwarded, NEW n \in DOMAIN sent, n <= forwarded[k].last,
               sent[n].op = "text", \A j \in (n + 1)..forwarded[k].last : sent[j].op = "cont",
               NEW j \in n..forwarded[k].last
        PROVE  StartsText(sent[j].payload)
    <3> PICK last \in Nat : last = forwarded[k].last
      BY DEF Whole, Forwarded, Inv, TypeOK
    <3>1. PICK first \in 1..last : Gathers(sent, first, last, forwarded[k].data)
      BY DEF Whole, Forwarded, ForwardedFrom
    <3>2. n \in Nat
      BY LenProperties DEF Inv, TypeOK
    <3>3. n <= first
      <4>1. n > first /\ n <= last => n \in first..last
        BY <3>2
      <4>2. n > first => sent[n].op = "cont"
        BY <2>1, <3>1, <4>1 DEF Gathers
      <4> QED
        BY <2>1, <3>2, <4>2
    <3>4. n >= first
      <4>1. n < first => first \in (n + 1)..last
        BY <3>2
      <4>2. n < first => sent[first].op = "cont"
        BY <2>1, <4>1
      <4> QED
        BY <3>1, <3>2, <4>2 DEF Gathers
    <3>5. n = first
      BY <3>2, <3>3, <3>4
    <3> QED
      BY <2>1, <3>1, <3>5 DEF Gathers
  <2> QED
    BY <2>1 DEF TextWithinUtf8, Whole, SentTexts
<1> QED
  BY <1>1, AlwaysWhole, PTL
=============================================================================
