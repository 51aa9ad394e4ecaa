----------------------------- MODULE MCWebsocket -----------------------------
(* The requests and frames of the Websocket runs. *)
EXTENDS Websocket

R(resource, upgrade, key) == [resource |-> resource, upgrade |-> upgrade, key |-> key]
F(op, fin, mask, payload) == [op |-> op, fin |-> fin, mask |-> mask, payload |-> payload]

a == <<97>>
ab == <<97, 98>>

(* Payloads that no UTF-8 text starts with: an octet that never occurs, a tail without
   a start, an overlong form, a surrogate, a character beyond 10FFFF, and a start
   without its tail. *)
Bad == {<<255>>, <<128>>, <<224, 128>>, <<237, 160>>, <<244, 144>>, <<194, 97>>}

(* At least one octet of every range that the table tells apart. *)
Samples == {0, 97, 128, 144, 160, 192, 194, 224, 225, 237, 238, 240, 241, 244, 255}

ASSUME TableFollowsGrammar == ScansAsGrammar(Samples, 4)

MCRequests == {R("static", FALSE, FALSE), R("list", FALSE, TRUE), R("page", TRUE, TRUE)}

MCAllRequests == MCRequests \cup
  {R("malformed", FALSE, FALSE), R("static", FALSE, TRUE), R("page", TRUE, FALSE)}

MCFrames == {F("text", FALSE, "key", a), F("cont", TRUE, "key", <<99>>),
             F("text", TRUE, "zero", a), F("ping", TRUE, "key", <<100>>),
             F("close", TRUE, "none", <<>>), F("text", TRUE, "key", ab)}

MCAllFrames == MCFrames \cup
  {F("binary", FALSE, "none", a), F("cont", FALSE, "key", <<98>>),
   F("ping", FALSE, "key", a),
   F("pong", TRUE, "key", a), F("ping", TRUE, "key", <<97, 98, 99>>),
   F("unknown", TRUE, "key", a),
   F("text", FALSE, "key", <<97, 195>>), F("cont", TRUE, "key", <<169>>)}
  \cup {F("text", TRUE, "key", payload) : payload \in Bad}

MCTexts == {a, <<255>>}
=============================================================================
