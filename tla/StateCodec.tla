----------------------------- MODULE StateCodec -----------------------------
(***************************************************************************)
(* The codecs of internal/repository/statecodec: a masking state is stored *)
(* as plain JSON, or sealed with a key into an envelope that carries the   *)
(* marker "_enc".  A codec is Plain or the key it seals with.  AES-GCM is  *)
(* external: a sealed payload opens with its own key and no other.         *)
(***************************************************************************)
CONSTANT Plain

Envelope(key, st) == [enc |-> TRUE, key |-> key, data |-> st]
Bare(st) == [enc |-> FALSE, key |-> Plain, data |-> st]

IsEnvelope(payload) == payload.enc

Encode(codec, st) == IF codec = Plain THEN Bare(st) ELSE Envelope(codec, st)

\* Mutant: the encrypting codec refuses records written before it was enabled.
DecodeSealedOnly(codec, payload) ==
    IF payload.key = codec THEN <<"state", payload.data>> ELSE <<"undecryptable">>

\* The plain codec refuses envelopes; the encrypting one accepts plain records
\* (encryption was switched on while they were stored) and its own envelopes.
Decode(codec, payload) ==
    IF ~IsEnvelope(payload) THEN <<"state", payload.data>>
    ELSE IF codec # Plain /\ payload.key = codec THEN <<"state", payload.data>>
    ELSE <<"undecryptable">>
=============================================================================
