---------------------------------- MODULE Utf8 ----------------------------------
(***************************************************************************)
(* The UTF-8 validation table of validate_utf8.h, how websocket.c scans a  *)
(* payload with it, and the grammar of RFC 3629 that its comment cites.    *)
(***************************************************************************)
EXTENDS Naturals, Sequences, SequencesExt

Octet == 0..255

State == {"S0", "T1", "T2", "T3", "S1", "S2", "S3", "S4", "ER"}

(* validate_utf8[state + ch] *)
validate_utf8(state, ch) ==
  CASE state = "S0" /\ ch \in 0..127 -> "S0"
    [] state = "S0" /\ ch \in 194..223 -> "T1"
    [] state = "S0" /\ ch = 224 -> "S1"
    [] state = "S0" /\ ch \in (225..236 \cup 238..239) -> "T2"
    [] state = "S0" /\ ch = 237 -> "S2"
    [] state = "S0" /\ ch = 240 -> "S3"
    [] state = "S0" /\ ch \in 241..243 -> "T3"
    [] state = "S0" /\ ch = 244 -> "S4"
    [] state = "T1" /\ ch \in 128..191 -> "S0"
    [] state = "T2" /\ ch \in 128..191 -> "T1"
    [] state = "T3" /\ ch \in 128..191 -> "T2"
    [] state = "S1" /\ ch \in 160..191 -> "T1"
    [] state = "S2" /\ ch \in 128..159 -> "T1"
    [] state = "S3" /\ ch \in 144..191 -> "T2"
    [] state = "S4" /\ ch \in 128..143 -> "T2"
    [] OTHER -> "ER"

(* The loop over a payload.  An invalid octet ends it; a state other than S0
   after the last octet is no error. *)
Rejects(payload) == FoldLeft(validate_utf8, "S0", payload) = "ER"

-----------------------------------------------------------------------------
(* The grammar: the octets a character may have, one place after the other. *)

TailOctet == 128..191

Forms ==
  { << 0..127 >>,
    << 194..223, TailOctet >>,
    << {224}, 160..191, TailOctet >>,
    << 225..236, TailOctet, TailOctet >>,
    << {237}, 128..159, TailOctet >>,
    << 238..239, TailOctet, TailOctet >>,
    << {240}, 144..191, TailOctet, TailOctet >>,
    << 241..243, TailOctet, TailOctet, TailOctet >>,
    << {244}, 128..143, TailOctet, TailOctet >> }

StartsAs(octets, form) ==
  Len(octets) <= Len(form) /\ \A i \in DOMAIN octets : octets[i] \in form[i]

IsCharacter(octets) == \E form \in Forms : Len(octets) = Len(form) /\ StartsAs(octets, form)

(* A text that may end within a character: it is cut into characters and the
   start of one. *)
StartsText(octets) ==
  \E ends \in SUBSET DOMAIN octets :
    LET starts == ends \cup {0}
        Next(i) == CHOOSE j \in ends : j > i /\ \A k \in ends : k > i => j <= k
    IN  \A i \in starts :
          IF \E j \in ends : j > i
          THEN IsCharacter(SubSeq(octets, i + 1, Next(i)))
          ELSE \E form \in Forms : StartsAs(SubSeq(octets, i + 1, Len(octets)), form)

(* validate_utf8 rejects exactly what cannot be the start of UTF-8 text, for
   every payload of up to "longest" of the given octets: overlong forms,
   surrogates, what lies beyond 10FFFF and misplaced tails, and nothing else. *)
ScansAsGrammar(octets, longest) ==
  \A n \in 0..longest : \A payload \in [1..n -> octets] :
    Rejects(payload) <=> ~StartsText(payload)
=============================================================================
