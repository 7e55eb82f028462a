------------------------------- MODULE Codec -------------------------------
(***************************************************************************)
(* The message codec (codec.py with the schemas of schema.py): what a node *)
(* can put on the air and what a receiver accepts.  A payload is the JSON  *)
(* value of its text; a message is a JSON object, a function from the      *)
(* short field names to JSON values.  Name, role, firmware and meta of a   *)
(* profile are left out: nobody tests them.  The size of an advertisement  *)
(* is counted in service ids, the only part of it that varies much.        *)
(***************************************************************************)
EXTENDS Integers, Sequences, SequencesExt, TLC

CONSTANTS
  ShortMax   \* the service ids for which an advertisement fits in 205 bytes

\* JSON values, and what is not JSON.
Str(s) == [string |-> s]
Num(n) == [number |-> n]
Arr(s) == [array |-> s]
Obj(f) == [object |-> f]
NotJson == [broken |-> TRUE]

IsStr(v) == "string" \in DOMAIN v
IsArr(v) == "array" \in DOMAIN v
IsObj(v) == "object" \in DOMAIN v
IsName(v) == IsStr(v) /\ v.string # ""

\* What an exception leaves: of an encoder no payload, of decode no message.
NotSent == [refused |-> TRUE]
Refused == [t |-> Str("refused")]

-----------------------------------------------------------------------------
(* validate                                                                *)

Version == Num(1)
Common == {"v", "t", "n"}

\* isinstance(value, int), in the range of a uint16
MaxServiceId == 65535
ValidServiceId(v) == "number" \in DOMAIN v /\ v.number \in 0 .. MaxServiceId

ValidCommon(m) ==
  /\ Common \subseteq DOMAIN m
  /\ m.v = Version /\ IsStr(m.t) /\ IsName(m.n)

ValidAdvertise(m) ==
  /\ {"h", "s"} \subseteq DOMAIN m
  /\ IsArr(m.s) /\ m.s.array # << >> /\ \A id \in Range(m.s.array) : ValidServiceId(id)
  /\ IsStr(m.h)

ValidQuery(m) == "sid" \in DOMAIN m /\ ValidServiceId(m.sid)

ValidQueryResult(m) ==
  /\ ValidQuery(m)
  /\ "p" \in DOMAIN m /\ IsArr(m.p) /\ \A provider \in Range(m.p.array) : IsName(provider)

ValidGetProfile(m) == "to" \in DOMAIN m /\ IsName(m.to)

\* Mutant: a service without an id is accepted.
ValidProfileLoosely(m) ==
  /\ {"h", "s"} \subseteq DOMAIN m
  /\ IsStr(m.h) /\ IsArr(m.s)
  /\ \A service \in Range(m.s.array) :
       IsObj(service) /\ ("sid" \in DOMAIN service.object => ValidServiceId(service.object.sid))

\* Unlike an advertisement, a profile may list no service at all.
ValidProfile(m) ==
  /\ {"h", "s"} \subseteq DOMAIN m
  /\ IsStr(m.h) /\ IsArr(m.s)
  /\ \A service \in Range(m.s.array) :
       IsObj(service) /\ "sid" \in DOMAIN service.object /\ ValidServiceId(service.object.sid)

Validate(payload) ==
  /\ IsObj(payload)
  /\ ValidCommon(payload.object)
  /\ LET m == payload.object
     IN CASE m.t.string = "a" -> ValidAdvertise(m)
          [] m.t.string = "q" -> ValidQuery(m)
          [] m.t.string = "i" -> ValidQueryResult(m)
          [] m.t.string = "g" -> ValidGetProfile(m)
          [] m.t.string = "p" -> ValidProfile(m)
          [] OTHER -> FALSE

Decode(payload) == IF Validate(payload) THEN payload.object ELSE Refused

-----------------------------------------------------------------------------
(* The encoders.                                                           *)

Header(type, node) == [v |-> Version, t |-> Str(type), n |-> Str(node)]
Encode(m) == IF Validate(Obj(m)) THEN Obj(m) ELSE NotSent

\* The size is tested after the validation.
EncodeAdvertise(node, hash, ids) ==
  IF Len(ids) <= ShortMax
    THEN Encode(Header("a", node) @@ [h |-> Str(hash), s |-> Arr(ids)])
    ELSE NotSent
EncodeQuery(node, id) == Encode(Header("q", node) @@ [sid |-> id])
EncodeQueryResult(node, id, providers) ==
  Encode(Header("i", node) @@ [sid |-> id, p |-> Arr(providers)])
EncodeGetProfile(node, target) == Encode(Header("g", node) @@ [to |-> Str(target)])
EncodeProfile(node, hash, services) ==
  Encode(Header("p", node) @@ [h |-> Str(hash), s |-> Arr(services)])
=============================================================================
