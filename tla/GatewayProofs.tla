---------------------------- MODULE GatewayProofs ----------------------------
(***************************************************************************)
(* What is proved of Gateway for all values of its constants: the type     *)
(* invariant, that the log has no gap, that the registry's halves agree,   *)
(* and that no message is sent twice.                                      *)
(*                                                                         *)
(* The first three are inductive together: what a handler or the mesh task *)
(* does to the log and to the registry is a recursion over the payloads it *)
(* polls, and each step of it keeps them.  For the last, the messages of   *)
(* the log, of each poll and those sent are kept apart.                    *)
(***************************************************************************)
EXTENDS Gateway, SequenceTheorems, NaturalsOrder

-----------------------------------------------------------------------------
(* The registry.                                                           *)

Messages == {Decode(payload) : payload \in Payloads}

\* ServicesFindNodes, of any registry.
HalvesAgree(r) ==
  /\ \A n \in NodeIds : \A s \in r.nodes[n].ids \cup r.nodes[n].services :
       s \in Services /\ n \in FindService(r, s)
  /\ \A s \in Services : FindService(r, s) = r.providers[s]

\* A message that poll registers names what the registry knows, and has ids.
LEMMA DecodedIsValid ==
  ASSUME NEW m \in Messages
  PROVE  /\ m.t.string \in {"a", "p"} => m.n.string \in NodeIds /\ m.h.string \in Hashes
         /\ m.t.string = "a" => AdvertisedIds(m) \subseteq Services
         /\ m.t.string = "p" => ProfiledIds(m) \subseteq Services /\ NoId \notin ProfiledIds(m)
<1>1. PICK payload \in Payloads : m = Decode(payload) BY DEF Messages
<1>2. CASE ~Validate(payload)
  <2>1. m = Refused BY <1>1, <1>2 DEF Decode
  <2>2. m.t.string = "refused" BY <2>1 DEF Refused, Str
  <2> QED BY <2>2
<1>3. CASE Validate(payload)
  <2>1. m = payload.object BY <1>1, <1>3 DEF Decode
  <2>2. m \in {x.object : x \in {y \in Payloads : Validate(y)}} BY <1>3, <2>1
  <2>3. /\ m.n.string \in NodeIds
        /\ m.t.string \in {"a", "p"} => m.h.string \in Hashes
        /\ m.t.string = "a" => AdvertisedIds(m) \subseteq Services
        /\ m.t.string = "p" => ProfiledIds(m) \subseteq Services \cup {NoId}
    BY <2>2, PayloadAssumption
  <2>4. m.t.string = "p" => NoId \notin ProfiledIds(m)
    <3> SUFFICES ASSUME m.t.string = "p" PROVE NoId \notin ProfiledIds(m) OBVIOUS
    <3>1. ValidProfile(m) BY <1>3, <2>1 DEF Validate
    <3>2. ASSUME NEW s \in Range(m.s.array)
          PROVE  /\ "sid" \in DOMAIN s.object
                 /\ s.object.sid.number \in 0 .. MaxServiceId
      <4>1. "sid" \in DOMAIN s.object /\ ValidServiceId(s.object.sid) BY <3>1 DEF ValidProfile
      <4> QED BY <4>1 DEF ValidServiceId
    <3>3. ASSUME NEW s \in Range(m.s.array)
          PROVE  (IF "sid" \in DOMAIN s.object THEN s.object.sid.number ELSE NoId) # NoId
      <4>1. NoId \notin 0 .. MaxServiceId BY DEF NoId
      <4>2. s.object.sid.number # NoId BY <3>2, <4>1
      <4> QED BY <3>2, <4>2
    <3> QED BY <3>3 DEF ProfiledIds
  <2> QED BY <2>3, <2>4
<1> QED BY <1>2, <1>3

\* Registering a message keeps the registry's type and the agreement of its halves.
LEMMA RegisterKeeps ==
  ASSUME NEW r \in RegistryType, HalvesAgree(r), NEW m \in Messages
  PROVE  Register(r, m) \in RegistryType /\ HalvesAgree(Register(r, m))
<1> DEFINE node == m.n.string
           hash == m.h.string
<1>1. r.nodes \in [NodeIds -> NodeEntry] /\ r.providers \in [Services -> SUBSET NodeIds]
  BY DEF RegistryType
<1>2. ASSUME NEW ids \in SUBSET Services, node \in NodeIds, hash \in Hashes,
             NEW entry \in NodeEntry, entry.known, entry.ids = ids,
             \A s \in entry.services : s \in ids \/ s \in r.nodes[node].services,
             NEW q, q = [nodes |-> [r.nodes EXCEPT ![node] = entry],
                         providers |-> IndexServices(r.providers, node, ids)]
      PROVE  q \in RegistryType /\ HalvesAgree(q)
  <2>1. q.providers = [s \in Services |-> r.providers[s] \cup (IF s \in ids THEN {node} ELSE {})]
    BY <1>2 DEF IndexServices
  <2>2. q.nodes = [r.nodes EXCEPT ![node] = entry] BY <1>2
  <2>3. q.providers \in [Services -> SUBSET NodeIds] BY <1>1, <1>2, <2>1
  <2>4. q.nodes \in [NodeIds -> NodeEntry] BY <1>1, <1>2, <2>2
  <2>5. q \in RegistryType BY <1>2, <2>1, <2>2, <2>3, <2>4 DEF RegistryType, IndexServices
  <2>6. ASSUME NEW s \in Services, NEW n \in q.providers[s]
        PROVE  n \in NodeIds /\ q.nodes[n].known
    <3>1. n \in NodeIds BY <2>3
    <3>2. CASE n = node BY <1>1, <1>2, <2>2, <3>1, <3>2
    <3>3. CASE n # node
      <4>1. n \in r.providers[s] BY <2>1, <3>3
      <4>2. r.nodes[n].known BY <4>1 DEF HalvesAgree, FindService
      <4> QED BY <1>1, <2>2, <3>1, <3>3, <4>2
    <3> QED BY <3>2, <3>3
  <2>7. ASSUME NEW s \in Services PROVE FindService(q, s) = q.providers[s]
    BY <2>6 DEF FindService
  <2>8. ASSUME NEW n \in NodeIds, NEW s \in q.nodes[n].ids \cup q.nodes[n].services
        PROVE  s \in Services /\ n \in q.providers[s]
    <3>1. CASE n # node
      <4>1. s \in r.nodes[n].ids \cup r.nodes[n].services BY <1>1, <2>2, <3>1
      <4>2. s \in Services /\ n \in r.providers[s] BY <4>1 DEF HalvesAgree, FindService
      <4> QED BY <2>1, <4>2
    <3>2. CASE n = node
      <4>1. q.nodes[n] = entry BY <1>1, <1>2, <2>2, <3>2
      <4>2. CASE s \in ids BY <1>2, <2>1, <3>2, <4>2
      <4>3. CASE s \notin ids
        <5>1. s \in r.nodes[n].services BY <1>2, <3>2, <4>1, <4>3
        <5>2. s \in Services /\ n \in r.providers[s] BY <5>1 DEF HalvesAgree, FindService
        <5> QED BY <2>1, <5>2
      <4> QED BY <4>2, <4>3
    <3> QED BY <3>1, <3>2
  <2>9. HalvesAgree(q) BY <2>7, <2>8 DEF HalvesAgree
  <2> QED BY <2>5, <2>9
<1>3. CASE m.t.string = "a"
  <2> DEFINE ids == AdvertisedIds(m)
             entry == [r.nodes[node] EXCEPT !.known = TRUE, !.hash = hash, !.ids = ids]
  <2>1. node \in NodeIds /\ hash \in Hashes /\ ids \in SUBSET Services
    BY <1>3, DecodedIsValid
  <2>2. r.nodes[node] \in NodeEntry BY <1>1, <2>1
  <2>3. entry \in NodeEntry BY <2>1, <2>2 DEF NodeEntry
  <2>4. entry.known /\ entry.ids = ids /\ entry.services = r.nodes[node].services
    BY <2>2 DEF NodeEntry
  <2>5. Register(r, m) = [nodes |-> [r.nodes EXCEPT ![node] = entry],
                          providers |-> IndexServices(r.providers, node, ids)]
    BY <1>3, <2>1 DEF Register, RegisterAdvertisement
  <2> HIDE DEF entry, ids
  <2> QED BY <1>2, <2>1, <2>3, <2>4, <2>5
<1>4. CASE m.t.string = "p"
  <2> DEFINE ids == ProfiledIds(m)
             entry == [r.nodes[node] EXCEPT !.hash = hash, !.profiled = TRUE, !.services = ids,
                                            !.known = TRUE, !.ids = ids]
             begun == [r.nodes[node] EXCEPT !.hash = hash, !.profiled = TRUE, !.services = ids]
  <2>1. node \in NodeIds /\ hash \in Hashes /\ ids \in SUBSET Services /\ NoId \notin ids
    BY <1>4, DecodedIsValid
  <2>2. r.nodes[node] \in NodeEntry BY <1>1, <2>1
  <2>3. entry \in NodeEntry BY <2>1, <2>2 DEF NodeEntry
  <2>4. entry.known /\ entry.ids = ids /\ entry.services = ids
    BY <2>2 DEF NodeEntry
  <2>5. [begun EXCEPT !.known = TRUE, !.ids = ids] = entry BY <2>2 DEF NodeEntry
  <2>6. Register(r, m) = RegisterProfile(r, m) BY <1>4 DEF Register
  <2>7. RegisterProfile(r, m) = [nodes |-> [r.nodes EXCEPT ![node] = [begun EXCEPT !.known = TRUE, !.ids = ids]],
                                 providers |-> IndexServices(r.providers, node, ids)]
    BY <2>1 DEF RegisterProfile
  <2>8. Register(r, m) = [nodes |-> [r.nodes EXCEPT ![node] = entry],
                          providers |-> IndexServices(r.providers, node, ids)]
    BY <2>5, <2>6, <2>7
  <2> HIDE DEF entry, ids, begun
  <2> QED BY <1>2, <2>1, <2>3, <2>4, <2>8
<1>5. CASE m.t.string \notin {"a", "p"}
  <2>1. Register(r, m) = r BY <1>5 DEF Register
  <2> QED BY <2>1
<1> QED BY <1>3, <1>4, <1>5

\* So does registering all that a handler polls.
LEMMA RegisterAllKeeps ==
  ASSUME NEW r \in RegistryType, HalvesAgree(r), NEW msgs \in Seq(Messages)
  PROVE  RegisterAll(r, msgs) \in RegistryType /\ HalvesAgree(RegisterAll(r, msgs))
<1> DEFINE N == Len(msgs)
           step == [i \in Nat |-> [q \in RegistryType |->
                      IF HalvesAgree(q) /\ i \in 1 .. N THEN Register(q, msgs[i]) ELSE q]]
           Is(f) == f = [i \in 0 .. N |-> IF i = 0 THEN r ELSE Register(f[i - 1], msgs[i])]
<1>1. N \in Nat /\ \A i \in 1 .. N : msgs[i] \in Messages OBVIOUS
<1>2. step \in [Nat -> [RegistryType -> RegistryType]]
  <2>1. ASSUME NEW i \in Nat, NEW q \in RegistryType
        PROVE  (IF HalvesAgree(q) /\ i \in 1 .. N THEN Register(q, msgs[i]) ELSE q) \in RegistryType
    BY <1>1, RegisterKeeps
  <2> QED BY <2>1
<1> HIDE DEF N
<1>3. PICK f \in [0 .. N -> RegistryType] :
        f[0] = r /\ \A i \in 1 .. N : f[i] = step[i][f[i - 1]]
  <2> HIDE DEF step
  <2>1. N \in Nat BY <1>1
  <2>2. Recursions(RegistryType, r, N, step) # {} BY <1>2, <2>1, RecursionExists
  <2> QED BY <2>2 DEF Recursions
<1>4. ASSUME NEW i \in 1 .. N, HalvesAgree(f[i - 1])
      PROVE  f[i] = Register(f[i - 1], msgs[i])
  <2>1. i - 1 \in 0 .. N /\ i \in Nat BY <1>1
  <2> QED BY <1>3, <1>4, <2>1
<1> HIDE DEF step
<1> DEFINE S == {n \in Nat : n <= N => HalvesAgree(f[n])}
<1>5. \A n \in Nat : n \in S
  <2>1. 0 \in S BY <1>3
  <2>2. ASSUME NEW n \in Nat, n \in S PROVE n + 1 \in S
    <3> SUFFICES ASSUME n + 1 <= N PROVE HalvesAgree(f[n + 1]) OBVIOUS
    <3>1. n \in 0 .. N /\ n + 1 \in 1 .. N /\ (n + 1) - 1 = n BY <1>1
    <3>2. HalvesAgree(f[n]) BY <1>1, <2>2
    <3>3. f[n + 1] = Register(f[n], msgs[n + 1]) BY <1>4, <3>1, <3>2
    <3> QED BY <1>1, <1>3, <3>1, <3>2, <3>3, RegisterKeeps
  <2> HIDE DEF S
  <2> QED BY <2>1, <2>2, SetInduction
<1>6. \A i \in 0 .. N : HalvesAgree(f[i]) BY <1>1, <1>5
<1>7. Is(f)
  <2>1. ASSUME NEW i \in 0 .. N
        PROVE  f[i] = IF i = 0 THEN r ELSE Register(f[i - 1], msgs[i])
    <3>1. CASE i = 0 BY <1>3, <3>1
    <3>2. CASE i # 0
      <4>1. i \in 1 .. N /\ i - 1 \in 0 .. N BY <1>1, <3>2
      <4>2. HalvesAgree(f[i - 1]) BY <1>6, <4>1
      <4> QED BY <1>4, <3>2, <4>1, <4>2
    <3> QED BY <3>1, <3>2
  <2> QED BY <2>1
<1> DEFINE g == CHOOSE h : Is(h)
<1>8. Is(g) BY <1>7
<1>9. RegisterAll(r, msgs) = g[N] BY DEF RegisterAll, N
<1> HIDE DEF g
<1> DEFINE T == {n \in Nat : n <= N => g[n] \in RegistryType /\ HalvesAgree(g[n])}
<1>10. \A n \in Nat : n \in T
  <2>1. 0 \in T
    <3>1. g[0] = r BY <1>1, <1>8
    <3> QED BY <3>1
  <2>2. ASSUME NEW n \in Nat, n \in T PROVE n + 1 \in T
    <3> SUFFICES ASSUME n + 1 <= N PROVE g[n + 1] \in RegistryType /\ HalvesAgree(g[n + 1])
      OBVIOUS
    <3>1. n + 1 \in 0 .. N /\ n + 1 # 0 /\ n + 1 \in 1 .. N /\ (n + 1) - 1 = n BY <1>1
    <3>2. g[n] \in RegistryType /\ HalvesAgree(g[n]) BY <1>1, <2>2
    <3>3. g[n + 1] = Register(g[n], msgs[n + 1]) BY <1>8, <3>1
    <3> QED BY <1>1, <3>1, <3>2, <3>3, RegisterKeeps
  <2> HIDE DEF T
  <2> QED BY <2>1, <2>2, SetInduction
<1> QED BY <1>1, <1>9, <1>10

-----------------------------------------------------------------------------
(* The log.                                                                *)

\* The log holds the latest messages when the last captured had this id.
Latest(entries, id) ==
  /\ entries \in Seq(Nat) /\ Len(entries) <= LogMax
  /\ entries = [i \in 1 .. Len(entries) |-> id - Len(entries) + i]

\* What the log gains is newer than all it had.
Continues(entries) ==
  \A i \in DOMAIN entries : entries[i] > seq \/ \E h \in DOMAIN log : entries[i] = log[h]

LEMMA CaptureKeeps ==
  ASSUME NEW id \in Nat, NEW entries, Latest(entries, id)
  PROVE  /\ Latest(Capture(entries, id + 1), id + 1)
         /\ \A i \in DOMAIN Capture(entries, id + 1) :
              \/ Capture(entries, id + 1)[i] = id + 1
              \/ \E h \in DOMAIN entries : Capture(entries, id + 1)[i] = entries[h]
<1> DEFINE L == Len(entries)
           longer == Append(entries, id + 1)
           new == Capture(entries, id + 1)
<1>1. /\ entries \in Seq(Nat) /\ L \in Nat /\ L <= LogMax /\ DOMAIN entries = 1 .. L
      /\ \A i \in 1 .. L : entries[i] = id - L + i
  BY DEF Latest
<1>2. LogMax \in Nat /\ LogMax # 0 BY GatewayAssumption
<1>3. longer \in Seq(Nat) /\ Len(longer) = L + 1 /\ DOMAIN longer = 1 .. L + 1
  BY <1>1
<1>4. \A i \in 1 .. L : longer[i] = entries[i] BY <1>1
<1>5. longer[L + 1] = id + 1 BY <1>1
<1>6. ASSUME NEW i \in 1 .. L + 1 PROVE longer[i] = (id + 1) - (L + 1) + i
  <2>1. CASE i \in 1 .. L
    <3>1. longer[i] = id - L + i BY <1>1, <1>4, <2>1
    <3> QED BY <1>1, <3>1
  <2>2. CASE i = L + 1 BY <1>1, <1>5, <2>2
  <2> QED BY <1>1, <2>1, <2>2
<1>7. CASE L + 1 > LogMax
  <2>1. new = Tail(longer) BY <1>3, <1>7 DEF Capture
  <2> HIDE DEF new, longer, L
  <2>2. longer # << >>
    <3>1. Len(longer) # 0 BY <1>1, <1>3
    <3> QED BY <3>1
  <2>3. new \in Seq(Nat) /\ Len(new) = L /\ DOMAIN new = 1 .. L
    <3>1. Tail(longer) \in Seq(Nat) /\ Len(Tail(longer)) = Len(longer) - 1
      BY <1>3, <2>2, HeadTailProperties
    <3>2. Len(new) = L BY <1>1, <1>3, <2>1, <3>1
    <3> QED BY <2>1, <3>1, <3>2
  <2>4. ASSUME NEW i \in 1 .. L PROVE new[i] = longer[i + 1] /\ new[i] = (id + 1) - L + i
    <3>1. new[i] = longer[i + 1]
      <4>1. i \in 1 .. Len(longer) - 1 BY <1>1, <1>3
      <4>2. Tail(longer)[i] = longer[i + 1] BY <1>3, <2>2, <4>1
      <4> QED BY <2>1, <4>2
    <3>2. i + 1 \in 1 .. L + 1 BY <1>1
    <3>3. longer[i + 1] = (id + 1) - (L + 1) + (i + 1) BY <1>6, <3>2
    <3> QED BY <1>1, <3>1, <3>3
  <2>5. new = [i \in 1 .. L |-> (id + 1) - L + i] BY <2>3, <2>4
  <2>6. Latest(new, id + 1) BY <1>1, <2>3, <2>5 DEF Latest
  <2>7. ASSUME NEW i \in 1 .. L
        PROVE  new[i] = id + 1 \/ \E h \in DOMAIN entries : new[i] = entries[h]
    <3>1. CASE i = L BY <1>5, <2>4, <3>1
    <3>2. CASE i # L
      <4>1. i + 1 \in 1 .. L BY <1>1, <3>2
      <4>2. new[i] = entries[i + 1] BY <1>4, <2>4, <4>1
      <4> QED BY <1>1, <4>1, <4>2
    <3> QED BY <3>1, <3>2
  <2> QED BY <2>3, <2>6, <2>7 DEF new
<1>8. CASE ~(L + 1 > LogMax)
  <2>1. new = longer BY <1>3, <1>8 DEF Capture
  <2> HIDE DEF new, longer
  <2>2. new = [i \in 1 .. L + 1 |-> (id + 1) - (L + 1) + i] BY <1>3, <1>6, <2>1
  <2>3. Len(new) = L + 1 /\ new \in Seq(Nat) /\ L + 1 <= LogMax BY <1>1, <1>2, <1>3, <1>8, <2>1
  <2>4. Latest(new, id + 1)
    BY <2>2, <2>3 DEF Latest
  <2>5. ASSUME NEW i \in 1 .. L + 1
        PROVE  new[i] = id + 1 \/ \E h \in DOMAIN entries : new[i] = entries[h]
    <3>1. CASE i = L + 1 BY <1>5, <2>1, <3>1
    <3>2. CASE i # L + 1
      <4>1. i \in 1 .. L BY <1>1, <3>2
      <4> QED BY <1>1, <1>4, <2>1, <4>1
    <3> QED BY <3>1, <3>2
  <2> QED BY <1>3, <2>1, <2>4, <2>5 DEF new
<1> QED BY <1>7, <1>8

LEMMA CaptureAllKeeps ==
  ASSUME seq \in Nat, Latest(log, seq), NEW k \in Nat
  PROVE  Latest(CaptureAll(k), seq + k) /\ Continues(CaptureAll(k))
<1> DEFINE X == Seq(Nat)
           step == [i \in Nat |-> [e \in X |->
                      IF Latest(e, seq + (i - 1)) /\ i > 0 THEN Capture(e, seq + i) ELSE e]]
           Is(f) == f = [i \in 0 .. k |-> IF i = 0 THEN log ELSE Capture(f[i - 1], seq + i)]
           Good(e, n) == Latest(e, seq + n) /\ Continues(e)
<1>1. log \in X /\ Continues(log) BY DEF Latest, Continues
<1>2. ASSUME NEW e, NEW n \in Nat, Good(e, n) PROVE Good(Capture(e, seq + (n + 1)), n + 1)
  <2>1. seq + n \in Nat /\ (seq + n) + 1 = seq + (n + 1) /\ seq + (n + 1) > seq OBVIOUS
  <2> DEFINE q == Capture(e, seq + (n + 1))
  <2>2. /\ Latest(q, seq + (n + 1))
        /\ \A i \in DOMAIN q : q[i] = seq + (n + 1) \/ \E h \in DOMAIN e : q[i] = e[h]
    <3>1. /\ Latest(Capture(e, (seq + n) + 1), (seq + n) + 1)
          /\ \A i \in DOMAIN Capture(e, (seq + n) + 1) :
               \/ Capture(e, (seq + n) + 1)[i] = (seq + n) + 1
               \/ \E h \in DOMAIN e : Capture(e, (seq + n) + 1)[i] = e[h]
      BY <1>2, <2>1, CaptureKeeps
    <3> QED BY <2>1, <3>1
  <2> HIDE DEF q
  <2>3. Continues(q)
    <3> SUFFICES ASSUME NEW i \in DOMAIN q
                 PROVE  q[i] > seq \/ \E h \in DOMAIN log : q[i] = log[h]
      BY DEF Continues
    <3>1. CASE q[i] = seq + (n + 1) BY <2>1, <3>1
    <3>2. CASE \E h \in DOMAIN e : q[i] = e[h] BY <1>2, <3>2 DEF Continues
    <3> QED BY <2>2, <3>1, <3>2
  <2> QED BY <2>2, <2>3 DEF q
<1>3. step \in [Nat -> [X -> X]]
  <2>1. ASSUME NEW i \in Nat, NEW e \in X
        PROVE  (IF Latest(e, seq + (i - 1)) /\ i > 0 THEN Capture(e, seq + i) ELSE e) \in X
    <3>1. CASE Latest(e, seq + (i - 1)) /\ i > 0
      <4>1. seq + (i - 1) \in Nat /\ (seq + (i - 1)) + 1 = seq + i BY <3>1
      <4>2. Latest(Capture(e, (seq + (i - 1)) + 1), (seq + (i - 1)) + 1) BY <3>1, <4>1, CaptureKeeps
      <4> QED BY <3>1, <4>1, <4>2 DEF Latest
    <3>2. CASE ~(Latest(e, seq + (i - 1)) /\ i > 0) BY <3>2
    <3> QED BY <3>1, <3>2
  <2> QED BY <2>1
<1>4. PICK f \in [0 .. k -> X] : f[0] = log /\ \A i \in 1 .. k : f[i] = step[i][f[i - 1]]
  <2> HIDE DEF step, X
  <2>1. Recursions(X, log, k, step) # {} BY <1>1, <1>3, RecursionExists
  <2> QED BY <2>1 DEF Recursions
<1>5. ASSUME NEW i \in 1 .. k, Latest(f[i - 1], seq + (i - 1))
      PROVE  f[i] = Capture(f[i - 1], seq + i)
  <2>1. i \in Nat /\ i > 0 /\ i - 1 \in 0 .. k OBVIOUS
  <2>2. f[i - 1] \in X BY <1>4, <2>1
  <2> QED BY <1>4, <1>5, <2>1, <2>2
<1> HIDE DEF step, X, Good
<1> DEFINE S == {n \in Nat : n <= k => Good(f[n], n)}
<1>6. \A n \in Nat : n \in S
  <2>1. 0 \in S BY <1>1, <1>4 DEF Good
  <2>2. ASSUME NEW n \in Nat, n \in S PROVE n + 1 \in S
    <3> SUFFICES ASSUME n + 1 <= k PROVE Good(f[n + 1], n + 1) OBVIOUS
    <3>1. n + 1 \in 1 .. k /\ (n + 1) - 1 = n /\ n <= k OBVIOUS
    <3>2. Good(f[n], n) BY <2>2, <3>1
    <3>3. f[n + 1] = Capture(f[n], seq + (n + 1)) BY <1>5, <3>1, <3>2 DEF Good
    <3>4. Good(Capture(f[n], seq + (n + 1)), n + 1) BY <1>2, <3>2
    <3> QED BY <3>3, <3>4
  <2> HIDE DEF S
  <2> QED BY <2>1, <2>2, SetInduction
<1>7. \A i \in 0 .. k : Good(f[i], i) BY <1>6
<1>8. Is(f)
  <2>1. ASSUME NEW i \in 0 .. k
        PROVE  f[i] = IF i = 0 THEN log ELSE Capture(f[i - 1], seq + i)
    <3>1. CASE i = 0 BY <1>4, <3>1
    <3>2. CASE i # 0
      <4>1. i \in 1 .. k /\ i - 1 \in 0 .. k BY <3>2
      <4>2. Latest(f[i - 1], seq + (i - 1)) BY <1>7, <4>1 DEF Good
      <4> QED BY <1>5, <3>2, <4>1, <4>2
    <3> QED BY <3>1, <3>2
  <2> QED BY <2>1
<1> DEFINE g == CHOOSE h : Is(h)
<1>9. Is(g) BY <1>8
<1>10. CaptureAll(k) = g[k] BY DEF CaptureAll
<1> HIDE DEF g
<1> DEFINE T == {n \in Nat : n <= k => Good(g[n], n)}
<1>11. \A n \in Nat : n \in T
  <2>1. 0 \in T
    <3>1. g[0] = log BY <1>9
    <3> QED BY <1>1, <3>1 DEF Good
  <2>2. ASSUME NEW n \in Nat, n \in T PROVE n + 1 \in T
    <3> SUFFICES ASSUME n + 1 <= k PROVE Good(g[n + 1], n + 1) OBVIOUS
    <3>1. n + 1 \in 0 .. k /\ n + 1 # 0 /\ (n + 1) - 1 = n /\ n <= k OBVIOUS
    <3>2. Good(g[n], n) BY <2>2, <3>1
    <3>3. g[n + 1] = Capture(g[n], seq + (n + 1)) BY <1>9, <3>1
    <3>4. Good(Capture(g[n], seq + (n + 1)), n + 1) BY <1>2, <3>2
    <3> QED BY <3>3, <3>4
  <2> HIDE DEF T
  <2> QED BY <2>1, <2>2, SetInduction
<1>12. Good(g[k], k) BY <1>11
<1> QED BY <1>10, <1>12 DEF Good

-----------------------------------------------------------------------------
(* The first three properties.                                             *)

PollType == [at : {"idle", "open", "rejected"}, req : [Endpoints -> {"none", "sent", "answered"}],
             nodes : SUBSET NodeReport, msgs : Seq(Nat)]

\* The inductive invariant of the types, the log and the registry.
StateInv == TypeOK /\ LogHasNoGap /\ ServicesFindNodes

\* Its part that only the gateway changes, and the rest.
GatewayOK ==
  /\ up \in BOOLEAN /\ rx \in Seq(Messages)
  /\ reg \in RegistryType /\ HalvesAgree(reg)
  /\ seq \in Nat /\ Latest(log, seq)
BrowsersOK ==
  /\ ui \in [Clients -> [stream : {"new", "open", "closed"}, nodes : SUBSET NodeReport]]
  /\ poll \in [Clients -> [Polls -> PollType]]
  /\ hist \in [arrived : Nat, sent : Seq(Nat)]
  /\ troubles \in Nat

LEMMA StateInvParts == StateInv <=> GatewayOK /\ BrowsersOK
<1>1. HalvesAgree(reg) <=> ServicesFindNodes BY DEF HalvesAgree, ServicesFindNodes
<1>2. (log \in Seq(Nat) /\ Len(log) <= LogMax /\ LogHasNoGap) <=> Latest(log, seq)
  BY DEF Latest, LogHasNoGap
<1>3. TypeOK <=> /\ up \in BOOLEAN /\ rx \in Seq(Messages) /\ reg \in RegistryType
                 /\ log \in Seq(Nat) /\ Len(log) <= LogMax /\ seq \in Nat
                 /\ BrowsersOK
  BY DEF TypeOK, BrowsersOK, PollType, Messages
<1> QED BY <1>1, <1>2, <1>3 DEF StateInv, GatewayOK

LEMMA IdlePollType == IdlePoll \in PollType /\ IdlePoll.msgs = << >>
<1>1. << >> \in Seq(Nat) OBVIOUS
<1> QED BY <1>1 DEF IdlePoll, PollType

LEMMA RejectedType ==
  ASSUME NEW pl PROVE Rejected(pl) \in PollType /\ Rejected(pl).msgs = << >>
<1> DEFINE sent == {e \in Endpoints : pl.req[e] = "sent"}
           req == [e \in Endpoints |-> IF e \in sent THEN "sent" ELSE "none"]
<1>1. req \in [Endpoints -> {"none", "sent", "answered"}] OBVIOUS
<1>2. Rejected(pl) = IF sent = {} THEN IdlePoll
                     ELSE [IdlePoll EXCEPT !.at = "rejected", !.req = req]
  BY DEF Rejected
<1> HIDE DEF sent, req
<1>3. [IdlePoll EXCEPT !.at = "rejected", !.req = req] \in PollType
  BY <1>1, IdlePollType DEF PollType
<1>4. [IdlePoll EXCEPT !.at = "rejected", !.req = req].msgs = << >>
  BY IdlePollType DEF PollType
<1> QED BY <1>2, <1>3, <1>4, IdlePollType

LEMMA ReportType == ASSUME NEW r \in RegistryType PROVE Report(r) \in SUBSET NodeReport
<1> SUFFICES ASSUME NEW n \in NodeIds
             PROVE  [node |-> n, hash |-> r.nodes[n].hash,
                     ids |-> IF r.nodes[n].profiled THEN r.nodes[n].services
                             ELSE r.nodes[n].ids] \in NodeReport
  BY DEF Report
<1>1. r.nodes[n] \in NodeEntry BY DEF RegistryType
<1>2. /\ r.nodes[n].hash \in Hashes \cup {"none"}
      /\ r.nodes[n].services \in SUBSET (Services \cup {NoId})
      /\ r.nodes[n].ids \in SUBSET Services
  BY <1>1 DEF NodeEntry
<1>3. (IF r.nodes[n].profiled THEN r.nodes[n].services ELSE r.nodes[n].ids)
        \in SUBSET (Services \cup {NoId})
  BY <1>2
<1> QED BY <1>2, <1>3 DEF NodeReport

\* Polling n payloads.
LEMMA PollingKeeps ==
  ASSUME GatewayOK, NEW n \in 0 .. Len(rx)
  PROVE  /\ SubSeq(rx, n + 1, Len(rx)) \in Seq(Messages)
         /\ RegisterAll(reg, SubSeq(rx, 1, n)) \in RegistryType
         /\ HalvesAgree(RegisterAll(reg, SubSeq(rx, 1, n)))
<1>1. rx \in Seq(Messages) /\ Len(rx) \in Nat BY DEF GatewayOK
<1>2. SubSeq(rx, n + 1, Len(rx)) \in Seq(Messages)
  <2>1. \A i \in n + 1 .. Len(rx) : i \in 1 .. Len(rx) /\ rx[i] \in Messages BY <1>1
  <2> QED BY <1>1, <2>1, SubSeqProperties
<1>3. SubSeq(rx, 1, n) \in Seq(Messages)
  <2>1. \A i \in 1 .. n : i \in 1 .. Len(rx) /\ rx[i] \in Messages BY <1>1
  <2> QED BY <1>1, <2>1, SubSeqProperties
<1> QED BY <1>2, <1>3, RegisterAllKeeps DEF GatewayOK

LEMMA DrainKeeps ==
  ASSUME GatewayOK, NEW max \in Nat, Drain(max)
  PROVE  up' = up /\ rx' \in Seq(Messages) /\ reg' \in RegistryType /\ HalvesAgree(reg')
<1> DEFINE n == Min({max, Len(rx)})
<1>1. rx \in Seq(Messages) /\ Len(rx) \in Nat BY DEF GatewayOK
<1>2. n \in 0 .. Len(rx)
  <2>1. {max, Len(rx)} \subseteq Nat /\ {max, Len(rx)} # {} BY <1>1
  <2>2. \E x \in {max, Len(rx)} : \A y \in {max, Len(rx)} : x <= y BY <2>1, LeastElement
  <2>3. n \in {max, Len(rx)} /\ \A y \in {max, Len(rx)} : n <= y BY <2>2 DEF Min
  <2>4. n \in Nat /\ n <= Len(rx) BY <1>1, <2>3
  <2> QED BY <1>1, <2>4
<1>3. /\ rx' = SubSeq(rx, n + 1, Len(rx))
      /\ reg' = RegisterAll(reg, SubSeq(rx, 1, n))
      /\ up' = up
  BY DEF Drain
<1> HIDE DEF n
<1> QED BY <1>2, <1>3, PollingKeeps

\* A handler keeps the gateway's part of the invariant; it may empty the log.
LEMMA HandleKeeps ==
  ASSUME GatewayOK, NEW e, Handle(e)
  PROVE  /\ GatewayOK'
         /\ seq' = seq
         /\ (e # "messages" /\ log' = log) \/ (e = "messages" /\ log' = << >>)
<1>1. ASSUME e \in {"status", "nodes"}, GetStatusOrNodes
      PROVE  GatewayOK' /\ seq' = seq /\ e # "messages" /\ log' = log
  <2>1. Drain(StatusDrain) /\ log' = log /\ seq' = seq BY <1>1 DEF GetStatusOrNodes
  <2>2. StatusDrain \in Nat BY GatewayAssumption
  <2>3. up' = up /\ rx' \in Seq(Messages) /\ reg' \in RegistryType /\ HalvesAgree(reg')
    BY <2>1, <2>2, DrainKeeps
  <2>4. Latest(log', seq') BY <2>1 DEF GatewayOK
  <2>5. GatewayOK' BY <2>1, <2>3, <2>4 DEF GatewayOK
  <2> QED BY <1>1, <2>1, <2>5
<1>2. ASSUME e = "messages", GetMessages
      PROVE  GatewayOK' /\ seq' = seq /\ log' = << >>
  <2>1. Drain(MessagesDrain) /\ log' = << >> /\ seq' = seq BY <1>2 DEF GetMessages
  <2>2. MessagesDrain \in Nat /\ LogMax \in Nat BY GatewayAssumption
  <2>3. up' = up /\ rx' \in Seq(Messages) /\ reg' \in RegistryType /\ HalvesAgree(reg')
    BY <2>1, <2>2, DrainKeeps
  <2>4. Latest(<< >>, seq) BY <2>2 DEF Latest, GatewayOK
  <2>5. GatewayOK' BY <2>1, <2>3, <2>4 DEF GatewayOK
  <2> QED BY <2>1, <2>5
<1> QED BY <1>1, <1>2 DEF Handle

LEMMA MeshTaskKeeps ==
  ASSUME GatewayOK, MeshTaskRuns
  PROVE  /\ GatewayOK'
         /\ \E k \in Nat : seq' = seq + k
         /\ Continues(log')
<1> DEFINE bad == {i \in DOMAIN rx : ~IsMessage(rx[i])}
           n == IF bad = {} THEN Len(rx) ELSE Min(bad)
           k == IF bad = {} THEN n ELSE n - 1
<1>1. rx \in Seq(Messages) /\ Len(rx) \in Nat /\ DOMAIN rx = 1 .. Len(rx) BY DEF GatewayOK
<1>2. n \in 0 .. Len(rx) /\ k \in Nat
  <2>1. CASE bad = {} BY <1>1, <2>1
  <2>2. CASE bad # {}
    <3>1. bad \subseteq Nat BY <1>1
    <3>2. \E x \in bad : \A y \in bad : x <= y BY <2>2, <3>1, LeastElement
    <3>3. Min(bad) \in bad BY <3>2 DEF Min
    <3>4. Min(bad) \in 1 .. Len(rx) BY <1>1, <3>3
    <3> QED BY <1>1, <2>2, <3>4
  <2> QED BY <2>1, <2>2
<1>3. /\ up' = up
      /\ rx' = SubSeq(rx, n + 1, Len(rx))
      /\ reg' = RegisterAll(reg, SubSeq(rx, 1, n))
      /\ seq' = seq + k
      /\ log' = CaptureAll(k)
  BY DEF MeshTaskRuns
<1> HIDE DEF n, k
<1>4. rx' \in Seq(Messages) /\ reg' \in RegistryType /\ HalvesAgree(reg')
  BY <1>2, <1>3, PollingKeeps
<1>5. Latest(log', seq') /\ Continues(log')
  BY <1>2, <1>3, CaptureAllKeeps DEF GatewayOK
<1>6. seq' \in Nat BY <1>2, <1>3 DEF GatewayOK
<1>7. GatewayOK' BY <1>3, <1>4, <1>5, <1>6 DEF GatewayOK
<1> QED BY <1>2, <1>3, <1>5, <1>7

\* A request is handled, or not: of an answer and of a failure.
LEMMA RequestKeeps ==
  ASSUME GatewayOK, BrowsersOK, NEW c \in Clients, NEW p \in Polls, NEW e \in Endpoints,
         Answer(c, p, e) \/ RequestFails(c, p, e)
  PROVE  /\ GatewayOK' /\ BrowsersOK'
         /\ seq' = seq /\ hist' = hist /\ ui' = ui
         /\ \E new \in PollType :
              /\ poll' = [poll EXCEPT ![c][p] = new]
              /\ \/ log' \in {log, << >>} /\ new.msgs \in {poll[c][p].msgs, << >>}
                 \/ log' = << >> /\ new.msgs = log
<1>1. poll[c][p] \in PollType BY DEF BrowsersOK
<1>2. ASSUME NEW new \in PollType, poll' = [poll EXCEPT ![c][p] = new],
             ui' = ui, hist' = hist, troubles' \in Nat
      PROVE  BrowsersOK'
  <2>1. poll' \in [Clients -> [Polls -> PollType]] BY <1>2 DEF BrowsersOK
  <2> QED BY <1>2, <2>1 DEF BrowsersOK
<1>3. CASE Answer(c, p, e)
  <2> DEFINE req == [poll[c][p].req EXCEPT ![e] = "answered"]
             nodes == IF e = "nodes" THEN Report(reg') ELSE poll[c][p].nodes
             msgs == IF e = "messages" THEN log ELSE poll[c][p].msgs
             pl == [poll[c][p] EXCEPT !.req[e] = "answered",
                      !.nodes = IF e = "nodes" THEN Report(reg') ELSE @,
                      !.msgs = IF e = "messages" THEN log ELSE @]
             new == IF pl.at = "open" THEN pl ELSE Rejected(pl)
  <2>1. /\ Handle(e)
        /\ poll' = [poll EXCEPT ![c][p] = new]
        /\ ui' = ui /\ hist' = hist /\ troubles' = troubles
    BY <1>3 DEF Answer
  <2>2. /\ GatewayOK'
        /\ seq' = seq
        /\ (e # "messages" /\ log' = log) \/ (e = "messages" /\ log' = << >>)
    BY <2>1, HandleKeeps
  <2>3. req \in [Endpoints -> {"none", "sent", "answered"}] BY <1>1 DEF PollType
  <2>4. nodes \in SUBSET NodeReport
    <3>1. Report(reg') \in SUBSET NodeReport BY <2>2, ReportType DEF GatewayOK
    <3> QED BY <1>1, <3>1 DEF PollType
  <2>5. msgs \in Seq(Nat) BY <1>1 DEF PollType, GatewayOK, Latest
  <2>6. pl = [at |-> poll[c][p].at, req |-> req, nodes |-> nodes, msgs |-> msgs]
    <3>1. \A r \in PollType : r = [at |-> r.at, req |-> r.req, nodes |-> r.nodes, msgs |-> r.msgs]
      BY DEF PollType
    <3>2. poll[c][p] = [at |-> poll[c][p].at, req |-> poll[c][p].req,
                        nodes |-> poll[c][p].nodes, msgs |-> poll[c][p].msgs]
      BY <1>1, <3>1
    <3>3. pl = [poll[c][p] EXCEPT !.req = req, !.nodes = nodes, !.msgs = msgs] OBVIOUS
    <3> HIDE DEF req, nodes, msgs, pl
    <3> QED BY <1>1, <3>3 DEF PollType
  <2> HIDE DEF req, nodes, msgs, pl
  <2>7. pl \in PollType /\ pl.msgs = msgs BY <1>1, <2>3, <2>4, <2>5, <2>6 DEF PollType
  <2>8. new \in PollType /\ new.msgs \in {msgs, << >>} BY <2>7, RejectedType
  <2>9. new.msgs \in {poll[c][p].msgs, << >>} \/ (e = "messages" /\ new.msgs = log)
    BY <2>8 DEF msgs
  <2> HIDE DEF new
  <2>10. BrowsersOK'
    <3>1. troubles' \in Nat BY <2>1 DEF BrowsersOK
    <3> QED BY <1>2, <2>1, <2>8, <3>1
  <2>11. \/ log' \in {log, << >>} /\ new.msgs \in {poll[c][p].msgs, << >>}
         \/ log' = << >> /\ new.msgs = log
    BY <2>2, <2>9
  <2> QED BY <2>1, <2>2, <2>8, <2>10, <2>11
<1>4. CASE RequestFails(c, p, e)
  <2> DEFINE pl == [poll[c][p] EXCEPT !.req[e] = "failed"]
             new == Rejected(pl)
  <2>1. /\ poll' = [poll EXCEPT ![c][p] = new]
        /\ ui' = ui /\ hist' = hist
        /\ troubles' \in {troubles, troubles + 1}
        /\ UNCHANGED gateway \/ Handle(e)
    BY <1>4 DEF RequestFails
  <2> HIDE DEF pl
  <2>2. new \in PollType /\ new.msgs = << >> BY RejectedType
  <2> HIDE DEF new
  <2>3. BrowsersOK'
    <3>1. troubles' \in Nat BY <2>1 DEF BrowsersOK
    <3> QED BY <1>2, <2>1, <2>2, <3>1
  <2>4. GatewayOK' /\ seq' = seq /\ log' \in {log, << >>}
    <3>1. CASE UNCHANGED gateway BY <3>1 DEF gateway, GatewayOK
    <3>2. CASE Handle(e) BY <3>2, HandleKeeps
    <3> QED BY <2>1, <3>1, <3>2
  <2> QED BY <2>1, <2>2, <2>3, <2>4
<1> QED BY <1>3, <1>4

LEMMA StartPollKeeps ==
  ASSUME BrowsersOK, NEW c \in Clients, StartPoll(c)
  PROVE  /\ BrowsersOK'
         /\ \E p \in Polls, new \in PollType :
              poll' = [poll EXCEPT ![c][p] = new] /\ new.msgs = << >>
<1> DEFINE p == CHOOSE q \in Idle(c) : TRUE
           new == [IdlePoll EXCEPT !.at = "open", !.req = [e \in Endpoints |-> "sent"]]
<1>1. p \in Polls BY DEF StartPoll, Idle
<1>2. new \in PollType /\ new.msgs = << >> BY IdlePollType DEF PollType
<1>3. poll' = [poll EXCEPT ![c][p] = new] /\ UNCHANGED <<gateway, ui, troubles, hist>>
  BY DEF StartPoll
<1> HIDE DEF p, new
<1>4. poll' \in [Clients -> [Polls -> PollType]] BY <1>1, <1>2, <1>3 DEF BrowsersOK
<1>5. BrowsersOK' BY <1>3, <1>4 DEF BrowsersOK
<1> QED BY <1>1, <1>2, <1>3, <1>5

LEMMA ResolveKeeps ==
  ASSUME BrowsersOK, NEW c \in Clients, NEW p \in Polls, Resolve(c, p)
  PROVE  /\ BrowsersOK'
         /\ poll' = [poll EXCEPT ![c][p] = IdlePoll]
         /\ hist'.sent \in {hist.sent, hist.sent \o poll[c][p].msgs}
<1> DEFINE open == ui[c].stream = "open"
           nodes == poll[c][p].nodes
           msgs == poll[c][p].msgs
<1>1. /\ ui' = IF open THEN [ui EXCEPT ![c].nodes = nodes] ELSE ui
      /\ hist' = IF open THEN [hist EXCEPT !.sent = @ \o msgs] ELSE hist
      /\ poll' = [poll EXCEPT ![c][p] = IdlePoll]
      /\ UNCHANGED <<gateway, troubles>>
  BY DEF Resolve
<1>2. poll[c][p] \in PollType BY DEF BrowsersOK
<1>3. nodes \in SUBSET NodeReport /\ msgs \in Seq(Nat) BY <1>2 DEF PollType
<1> HIDE DEF open, nodes, msgs
<1>4. ui' \in [Clients -> [stream : {"new", "open", "closed"}, nodes : SUBSET NodeReport]]
  BY <1>1, <1>3 DEF BrowsersOK
<1>5. poll' \in [Clients -> [Polls -> PollType]] BY <1>1, IdlePollType DEF BrowsersOK
<1>6. hist.sent \in Seq(Nat) BY DEF BrowsersOK
<1>7. hist.sent \o msgs \in Seq(Nat) BY <1>3, <1>6, ConcatProperties
<1>8. hist' \in [arrived : Nat, sent : Seq(Nat)] /\ hist'.sent \in {hist.sent, hist.sent \o msgs}
  BY <1>1, <1>7 DEF BrowsersOK
<1>9. BrowsersOK' BY <1>1, <1>4, <1>5, <1>8 DEF BrowsersOK
<1> QED BY <1>1, <1>8, <1>9 DEF msgs

LEMMA InitOK == Init => GatewayOK /\ BrowsersOK
<1> SUFFICES ASSUME Init PROVE GatewayOK /\ BrowsersOK OBVIOUS
<1>1. << >> \in Seq(Messages) /\ << >> \in Seq(Nat) OBVIOUS
<1>2. reg \in RegistryType
  <2>1. Unknown \in NodeEntry BY DEF Unknown, NodeEntry
  <2> QED BY <2>1 DEF Init, EmptyRegistry, RegistryType
<1>3. HalvesAgree(reg)
  <2>1. \A s \in Services : reg.providers[s] = {} BY DEF Init, EmptyRegistry
  <2>2. \A n \in NodeIds : reg.nodes[n].ids = {} /\ reg.nodes[n].services = {}
    BY DEF Init, EmptyRegistry, Unknown
  <2> QED BY <2>1, <2>2 DEF HalvesAgree, FindService
<1>4. Latest(<< >>, 0) BY GatewayAssumption DEF Latest
<1>5. GatewayOK BY <1>1, <1>2, <1>3, <1>4 DEF Init, GatewayOK
<1>6. BrowsersOK
  <2>1. ui \in [Clients -> [stream : {"new", "open", "closed"}, nodes : SUBSET NodeReport]]
    BY DEF Init
  <2>2. poll \in [Clients -> [Polls -> PollType]] BY IdlePollType DEF Init
  <2> QED BY <1>1, <2>1, <2>2 DEF Init, BrowsersOK
<1> QED BY <1>5, <1>6

LEMMA NextOK == GatewayOK /\ BrowsersOK /\ [Next]_vars => GatewayOK' /\ BrowsersOK'
<1> SUFFICES ASSUME GatewayOK, BrowsersOK, [Next]_vars PROVE GatewayOK' /\ BrowsersOK'
  OBVIOUS
<1>1. CASE Start
  <2>1. /\ up' = TRUE
        /\ rx' = rx /\ reg' = reg /\ log' = log /\ seq' = seq /\ ui' = ui
        /\ poll' = poll /\ troubles' = troubles /\ hist' = hist
    BY <1>1 DEF Start
  <2> QED BY <2>1 DEF GatewayOK, BrowsersOK
<1>2. CASE Stop
  <2>1. /\ up' = FALSE /\ troubles' = troubles + 1
        /\ rx' = rx /\ reg' = reg /\ log' = log /\ seq' = seq /\ ui' = ui
        /\ poll' = poll /\ hist' = hist
    BY <1>2 DEF Stop
  <2>2. GatewayOK' BY <2>1 DEF GatewayOK
  <2>3. BrowsersOK' BY <2>1 DEF BrowsersOK
  <2> QED BY <2>2, <2>3
<1>3. CASE Arrive
  <2>1. PICK payload \in Payloads : rx' = Append(rx, Decode(payload)) BY <1>3 DEF Arrive
  <2>2. /\ hist' = [hist EXCEPT !.arrived = @ + 1]
        /\ up' = up /\ reg' = reg /\ log' = log /\ seq' = seq /\ ui' = ui
        /\ poll' = poll /\ troubles' = troubles
    BY <1>3 DEF Arrive
  <2>3. Decode(payload) \in Messages BY DEF Messages
  <2>4. rx' \in Seq(Messages) BY <2>1, <2>3 DEF GatewayOK
  <2>5. hist' \in [arrived : Nat, sent : Seq(Nat)] BY <2>2 DEF BrowsersOK
  <2> QED BY <2>2, <2>4, <2>5 DEF GatewayOK, BrowsersOK
<1>4. CASE MeshTaskRuns
  <2>1. ui' = ui /\ poll' = poll /\ troubles' = troubles /\ hist' = hist
    BY <1>4 DEF MeshTaskRuns
  <2>2. GatewayOK' BY <1>4, MeshTaskKeeps
  <2> QED BY <2>1, <2>2 DEF BrowsersOK
<1>5. ASSUME NEW c \in Clients, OpenStream(c) \/ CloseStream(c)
      PROVE  GatewayOK' /\ BrowsersOK'
  <2>1. PICK s \in {"open", "closed"} :
          /\ ui' = [ui EXCEPT ![c].stream = s]
          /\ UNCHANGED <<gateway, poll, troubles, hist>>
    BY <1>5 DEF OpenStream, CloseStream
  <2>2. ui' \in [Clients -> [stream : {"new", "open", "closed"}, nodes : SUBSET NodeReport]]
    BY <2>1 DEF BrowsersOK
  <2> QED BY <2>1, <2>2 DEF gateway, GatewayOK, BrowsersOK
<1>6. ASSUME NEW c \in Clients, StartPoll(c) PROVE GatewayOK' /\ BrowsersOK'
  <2>1. UNCHANGED gateway BY <1>6 DEF StartPoll
  <2> QED BY <1>6, <2>1, StartPollKeeps DEF gateway, GatewayOK
<1>7. ASSUME NEW c \in Clients, NEW p \in Polls, PollStep(c, p)
      PROVE  GatewayOK' /\ BrowsersOK'
  <2>1. ASSUME NEW e \in Endpoints, Answer(c, p, e) \/ RequestFails(c, p, e)
        PROVE  GatewayOK' /\ BrowsersOK'
    BY <2>1, RequestKeeps
  <2>2. CASE Resolve(c, p)
    <3>1. UNCHANGED gateway BY <2>2 DEF Resolve
    <3> QED BY <2>2, <3>1, ResolveKeeps DEF gateway, GatewayOK
  <2> QED BY <1>7, <2>1, <2>2 DEF PollStep
<1>8. CASE UNCHANGED vars
  BY <1>8 DEF vars, gateway, GatewayOK, BrowsersOK
<1> QED BY <1>1, <1>2, <1>3, <1>4, <1>5, <1>6, <1>7, <1>8 DEF Next

\* THEOREM TypeCorrect: the gateway and the web UI server keep to their types and
\* the log to its limit (_capture_message, MessagingEndpoint.poll, the poll of
\* server.js).
THEOREM TypeCorrect == Spec => []TypeOK
<1>1. StateInv <=> GatewayOK /\ BrowsersOK BY StateInvParts
<1>2. StateInv => TypeOK BY DEF StateInv
<1>3. Spec => [](GatewayOK /\ BrowsersOK) BY InitOK, NextOK, PTL DEF Spec
<1>4. GatewayOK /\ BrowsersOK => TypeOK BY <1>2, StateInvParts
<1> QED BY <1>3, <1>4, PTL

\* THEOREM NoGap: what the log lost is always the oldest (_capture_message).
THEOREM NoGap == Spec => []LogHasNoGap
<1>1. GatewayOK /\ BrowsersOK => LogHasNoGap BY StateInvParts DEF StateInv
<1> QED BY <1>1, InitOK, NextOK, PTL DEF Spec

\* THEOREM RegistryAgrees: a node is found under every service it announced last,
\* and nodes found are known, whatever payloads arrive (register_advertisement,
\* register_profile behind validate).
THEOREM RegistryAgrees == Spec => []ServicesFindNodes
<1>1. GatewayOK /\ BrowsersOK => ServicesFindNodes BY StateInvParts DEF StateInv
<1> QED BY <1>1, InitOK, NextOK, PTL DEF Spec

-----------------------------------------------------------------------------
(* No message is sent twice.                                               *)

Distinct(s) == \A i, j \in DOMAIN s : s[i] = s[j] => i = j
Apart(s, t) == \A i \in DOMAIN s, j \in DOMAIN t : s[i] # t[j]
UpTo(s, id) == \A i \in DOMAIN s : s[i] <= id

\* No message is in two of the places it can be in: the log, an answer that a poll
\* waits with, and what was sent; nor twice in one of them.
MessagesApart ==
  /\ SentOnce /\ UpTo(hist.sent, seq) /\ Apart(hist.sent, log)
  /\ \A c \in Clients, p \in Polls :
       /\ Distinct(poll[c][p].msgs) /\ UpTo(poll[c][p].msgs, seq)
       /\ Apart(poll[c][p].msgs, log) /\ Apart(poll[c][p].msgs, hist.sent)
       /\ \A d \in Clients, q \in Polls :
            c # d \/ p # q => Apart(poll[c][p].msgs, poll[d][q].msgs)

LEMMA LatestApart ==
  ASSUME seq \in Nat, Latest(log, seq) PROVE Distinct(log) /\ UpTo(log, seq)
<1> DEFINE L == Len(log)
<1>1. L \in Nat /\ DOMAIN log = 1 .. L /\ \A i \in 1 .. L : log[i] = seq - L + i
  BY DEF Latest
<1> HIDE DEF L
<1>2. ASSUME NEW i \in 1 .. L, NEW j \in 1 .. L, log[i] = log[j] PROVE i = j
  <2>1. log[i] = seq - L + i /\ log[j] = seq - L + j BY <1>1
  <2>2. seq - L + i = seq - L + j BY <1>2, <2>1
  <2>3. i \in Int /\ j \in Int /\ seq - L \in Int BY <1>1
  <2> QED BY <2>2, <2>3
<1>3. ASSUME NEW i \in 1 .. L PROVE log[i] <= seq
  <2>1. log[i] = seq - L + i BY <1>1
  <2> QED BY <1>1, <2>1
<1> QED BY <1>1, <1>2, <1>3 DEF Distinct, UpTo

\* Nothing is in an empty sequence.
LEMMA EmptyApart ==
  /\ Distinct(<< >>)
  /\ \A id : UpTo(<< >>, id)
  /\ \A s : Apart(<< >>, s) /\ Apart(s, << >>)
<1>1. DOMAIN << >> = {} OBVIOUS
<1> QED BY <1>1 DEF Distinct, UpTo, Apart

LEMMA ApartInit == Init => MessagesApart
<1> SUFFICES ASSUME Init PROVE MessagesApart OBVIOUS
<1>1. hist.sent = << >> /\ log = << >> /\ SentOnce BY DEF Init, SentOnce
<1>2. \A c \in Clients, p \in Polls : poll[c][p].msgs = << >> BY IdlePollType DEF Init
<1> QED BY <1>1, <1>2, EmptyApart DEF MessagesApart

\* The mesh task captures what nobody has yet.
LEMMA ApartCapture ==
  ASSUME GatewayOK, BrowsersOK, MessagesApart, MeshTaskRuns PROVE MessagesApart'
<1>1. poll' = poll /\ hist' = hist BY DEF MeshTaskRuns
<1>2. PICK k \in Nat : seq' = seq + k BY MeshTaskKeeps
<1>3. Continues(log') BY MeshTaskKeeps
<1>4. seq \in Nat BY DEF GatewayOK
<1>5. ASSUME NEW s \in Seq(Nat), UpTo(s, seq), Apart(s, log)
      PROVE  UpTo(s, seq') /\ Apart(s, log')
  <2>1. \A i \in DOMAIN s : s[i] \in Nat /\ s[i] <= seq BY <1>5 DEF UpTo
  <2>2. UpTo(s, seq')
    <3> SUFFICES ASSUME NEW i \in DOMAIN s PROVE s[i] <= seq' BY DEF UpTo
    <3> QED BY <1>2, <1>4, <2>1
  <2>3. Apart(s, log')
    <3> SUFFICES ASSUME NEW i \in DOMAIN s, NEW j \in DOMAIN log', s[i] = log'[j] PROVE FALSE
      BY DEF Apart
    <3>1. CASE log'[j] > seq BY <1>4, <2>1, <3>1
    <3>2. CASE \E h \in DOMAIN log : log'[j] = log[h] BY <1>5, <3>2 DEF Apart
    <3> QED BY <1>3, <3>1, <3>2 DEF Continues
  <2> QED BY <2>2, <2>3
<1>6. hist.sent \in Seq(Nat) BY DEF BrowsersOK
<1>7. \A c \in Clients, p \in Polls : poll[c][p].msgs \in Seq(Nat)
  BY DEF BrowsersOK, PollType
<1>8. UpTo(hist.sent, seq') /\ Apart(hist.sent, log') BY <1>5, <1>6 DEF MessagesApart
<1>9. \A c \in Clients, p \in Polls :
        UpTo(poll[c][p].msgs, seq') /\ Apart(poll[c][p].msgs, log')
  BY <1>5, <1>7 DEF MessagesApart
<1>10. SentOnce' BY <1>1 DEF MessagesApart, SentOnce
<1> QED BY <1>1, <1>8, <1>9, <1>10 DEF MessagesApart

\* A poll loses what it held, keeps it, or takes the whole log.
LEMMA ApartPoll ==
  ASSUME GatewayOK, BrowsersOK, MessagesApart,
         NEW c \in Clients, NEW p \in Polls, NEW new \in PollType,
         poll' = [poll EXCEPT ![c][p] = new], seq' = seq, hist' = hist,
         \/ log' \in {log, << >>} /\ new.msgs \in {poll[c][p].msgs, << >>}
         \/ log' = << >> /\ new.msgs = log
  PROVE  MessagesApart'
<1>1. \A d \in Clients, q \in Polls :
        poll'[d][q] = IF d = c /\ q = p THEN new ELSE poll[d][q]
  BY DEF BrowsersOK
<1>2. Distinct(log) /\ UpTo(log, seq) BY LatestApart DEF GatewayOK
<1>3. \A s, t : Apart(s, t) <=> Apart(t, s) BY DEF Apart
<1> DEFINE Old(d, q) == poll[d][q].msgs
           New(d, q) == poll'[d][q].msgs
<1>4. /\ SentOnce /\ UpTo(hist.sent, seq) /\ Apart(hist.sent, log)
      /\ \A d \in Clients, q \in Polls :
           /\ Distinct(Old(d, q)) /\ UpTo(Old(d, q), seq)
           /\ Apart(Old(d, q), log) /\ Apart(Old(d, q), hist.sent)
      /\ \A d1, d2 \in Clients, q1, q2 \in Polls :
           d1 # d2 \/ q1 # q2 => Apart(Old(d1, q1), Old(d2, q2))
  BY DEF MessagesApart
<1>5. \A d \in Clients, q \in Polls : New(d, q) = IF d = c /\ q = p THEN new.msgs ELSE Old(d, q)
  BY <1>1
<1> HIDE DEF Old, New
<1>6. SentOnce' BY <1>4 DEF SentOnce
<1>7. Apart(hist.sent, log') BY <1>4, EmptyApart
<1>8. ASSUME NEW d \in Clients, NEW q \in Polls
      PROVE  /\ Distinct(New(d, q)) /\ UpTo(New(d, q), seq)
             /\ Apart(New(d, q), log') /\ Apart(New(d, q), hist.sent)
  <2>1. \/ New(d, q) \in {Old(d, q), << >>} /\ log' \in {log, << >>}
        \/ log' = << >> /\ New(d, q) = log
    <3>1. CASE d = c /\ q = p BY <1>5, <3>1 DEF Old
    <3>2. CASE ~(d = c /\ q = p)
      <4>1. New(d, q) = Old(d, q) BY <1>5, <3>2
      <4> QED BY <4>1
    <3> QED BY <3>1, <3>2
  <2> QED BY <1>2, <1>3, <1>4, <2>1, EmptyApart
<1>9. ASSUME NEW d1 \in Clients, NEW d2 \in Clients, NEW q1 \in Polls, NEW q2 \in Polls,
             d1 # d2 \/ q1 # q2
      PROVE  Apart(New(d1, q1), New(d2, q2))
  <2>1. new.msgs \in {Old(c, p), << >>, log} BY DEF Old
  <2>2. Apart(Old(d1, q1), Old(d2, q2)) BY <1>4, <1>9
  <2>3. CASE d1 = c /\ q1 = p
    <3>1. New(d1, q1) = new.msgs /\ New(d2, q2) = Old(d2, q2) BY <1>5, <1>9, <2>3
    <3> QED BY <1>3, <1>4, <2>1, <2>2, <2>3, <3>1, EmptyApart
  <2>4. CASE d2 = c /\ q2 = p
    <3>1. New(d2, q2) = new.msgs /\ New(d1, q1) = Old(d1, q1) BY <1>5, <1>9, <2>4
    <3> QED BY <1>3, <1>4, <2>1, <2>2, <2>4, <3>1, EmptyApart
  <2>5. CASE ~(d1 = c /\ q1 = p) /\ ~(d2 = c /\ q2 = p)
    <3>1. New(d2, q2) = Old(d2, q2) /\ New(d1, q1) = Old(d1, q1) BY <1>5, <2>5
    <3> QED BY <2>2, <3>1
  <2> QED BY <2>3, <2>4, <2>5
<1> QED BY <1>4, <1>6, <1>7, <1>8, <1>9 DEF MessagesApart, New

\* What a poll held is sent, and the poll starts anew.
LEMMA ApartSent ==
  ASSUME GatewayOK, BrowsersOK, MessagesApart, NEW c \in Clients, NEW p \in Polls,
         Resolve(c, p)
  PROVE  MessagesApart'
<1>1. /\ poll' = [poll EXCEPT ![c][p] = IdlePoll]
      /\ hist'.sent \in {hist.sent, hist.sent \o poll[c][p].msgs}
  BY ResolveKeeps
<1>2. log' = log /\ seq' = seq BY DEF Resolve, gateway
<1> DEFINE Old(d, q) == poll[d][q].msgs
           New(d, q) == poll'[d][q].msgs
<1>3. /\ SentOnce /\ UpTo(hist.sent, seq) /\ Apart(hist.sent, log)
      /\ \A d \in Clients, q \in Polls :
           /\ Distinct(Old(d, q)) /\ UpTo(Old(d, q), seq)
           /\ Apart(Old(d, q), log) /\ Apart(Old(d, q), hist.sent)
      /\ \A d1, d2 \in Clients, q1, q2 \in Polls :
           d1 # d2 \/ q1 # q2 => Apart(Old(d1, q1), Old(d2, q2))
  BY DEF MessagesApart
<1>4. \A d \in Clients, q \in Polls :
        New(d, q) = IF d = c /\ q = p THEN << >> ELSE Old(d, q)
  BY <1>1, IdlePollType DEF BrowsersOK
<1>5. hist.sent \in Seq(Nat) /\ Old(c, p) \in Seq(Nat) BY DEF BrowsersOK, PollType
<1>6. PICK sent : sent = hist.sent OBVIOUS
<1>7. PICK msgs : msgs = Old(c, p) OBVIOUS
<1>8. PICK after : after = hist'.sent OBVIOUS
<1>9. after \in {sent, sent \o msgs} /\ sent \in Seq(Nat) /\ msgs \in Seq(Nat)
  BY <1>1, <1>5, <1>6, <1>7, <1>8
<1>10. Distinct(sent) BY <1>3, <1>6 DEF SentOnce, Distinct
<1>11. Distinct(msgs) /\ Apart(msgs, sent) /\ UpTo(sent, seq) /\ UpTo(msgs, seq)
  BY <1>3, <1>6, <1>7
<1> HIDE DEF Old, New
<1>12. ASSUME after = sent \o msgs
       PROVE  /\ Distinct(after)
              /\ \A i \in DOMAIN after :
                   (\E j \in DOMAIN sent : after[i] = sent[j])
                     \/ \E j \in DOMAIN msgs : after[i] = msgs[j]
  <2> DEFINE m == Len(sent)
             n == Len(msgs)
  <2>1. m \in Nat /\ n \in Nat /\ DOMAIN sent = 1 .. m /\ DOMAIN msgs = 1 .. n BY <1>9
  <2>2. /\ after \in Seq(Nat) /\ Len(after) = m + n
        /\ \A i \in 1 .. m + n : after[i] = IF i <= m THEN sent[i] ELSE msgs[i - m]
    BY <1>9, <1>12, ConcatProperties
  <2> HIDE DEF m, n
  <2>3. DOMAIN after = 1 .. m + n BY <2>2
  <2>4. ASSUME NEW i \in 1 .. m + n
        PROVE  \/ i \in 1 .. m /\ after[i] = sent[i]
               \/ i - m \in 1 .. n /\ after[i] = msgs[i - m]
    BY <2>1, <2>2
  <2>5. ASSUME NEW i \in 1 .. m + n, NEW j \in 1 .. m + n, after[i] = after[j]
        PROVE  i = j
    <3>1. CASE i \in 1 .. m /\ after[i] = sent[i] /\ j \in 1 .. m /\ after[j] = sent[j]
      BY <1>10, <2>1, <2>5, <3>1 DEF Distinct
    <3>2. CASE i \in 1 .. m /\ after[i] = sent[i] /\ j - m \in 1 .. n /\ after[j] = msgs[j - m]
      BY <1>11, <2>1, <2>5, <3>2 DEF Apart
    <3>3. CASE i - m \in 1 .. n /\ after[i] = msgs[i - m] /\ j \in 1 .. m /\ after[j] = sent[j]
      BY <1>11, <2>1, <2>5, <3>3 DEF Apart
    <3>4. CASE i - m \in 1 .. n /\ after[i] = msgs[i - m] /\ j - m \in 1 .. n /\ after[j] = msgs[j - m]
      <4>1. i - m = j - m BY <1>11, <2>1, <2>5, <3>4 DEF Distinct
      <4> QED BY <2>1, <4>1
    <3> QED BY <2>4, <3>1, <3>2, <3>3, <3>4
  <2>6. Distinct(after) BY <2>3, <2>5 DEF Distinct
  <2> QED BY <2>1, <2>3, <2>4, <2>6
<1>13. Distinct(after) BY <1>9, <1>10, <1>12
<1>14. \A i \in DOMAIN after :
         (\E j \in DOMAIN sent : after[i] = sent[j]) \/ \E j \in DOMAIN msgs : after[i] = msgs[j]
  BY <1>9, <1>12
<1>15. ASSUME NEW s, Apart(s, sent), Apart(s, msgs) PROVE Apart(s, after)
  BY <1>14, <1>15 DEF Apart
<1>16. SentOnce' BY <1>8, <1>13 DEF SentOnce, Distinct
<1>17. UpTo(after, seq) BY <1>11, <1>14 DEF UpTo
<1>18. \A s, t : Apart(s, t) <=> Apart(t, s) BY DEF Apart
<1>19. Apart(after, log) BY <1>3, <1>6, <1>7, <1>15, <1>18
<1>20. ASSUME NEW d \in Clients, NEW q \in Polls
       PROVE  /\ Distinct(New(d, q)) /\ UpTo(New(d, q), seq)
              /\ Apart(New(d, q), log) /\ Apart(New(d, q), after)
  <2>1. CASE d = c /\ q = p BY <1>4, <2>1, EmptyApart
  <2>2. CASE ~(d = c /\ q = p)
    <3>1. New(d, q) = Old(d, q) BY <1>4, <2>2
    <3>2. Apart(Old(d, q), sent) /\ Apart(Old(d, q), msgs) BY <1>3, <1>6, <1>7, <2>2
    <3> QED BY <1>3, <1>15, <3>1, <3>2
  <2> QED BY <2>1, <2>2
<1>21. ASSUME NEW d1 \in Clients, NEW d2 \in Clients, NEW q1 \in Polls, NEW q2 \in Polls,
              d1 # d2 \/ q1 # q2
       PROVE  Apart(New(d1, q1), New(d2, q2))
  <2>1. New(d1, q1) \in {Old(d1, q1), << >>} /\ New(d2, q2) \in {Old(d2, q2), << >>} BY <1>4
  <2>2. Apart(Old(d1, q1), Old(d2, q2)) BY <1>3, <1>21
  <2> QED BY <2>1, <2>2, EmptyApart
<1> QED BY <1>2, <1>8, <1>16, <1>17, <1>19, <1>20, <1>21 DEF MessagesApart, New

LEMMA ApartNext ==
  GatewayOK /\ BrowsersOK /\ MessagesApart /\ [Next]_vars => MessagesApart'
<1> SUFFICES ASSUME GatewayOK, BrowsersOK, MessagesApart, [Next]_vars PROVE MessagesApart'
  OBVIOUS
<1>1. ASSUME log' = log, seq' = seq, poll' = poll, hist'.sent = hist.sent PROVE MessagesApart'
  <2>1. SentOnce' BY <1>1 DEF MessagesApart, SentOnce
  <2> QED BY <1>1, <2>1 DEF MessagesApart
<1>2. CASE Start \/ Stop \/ UNCHANGED vars
  BY <1>1, <1>2 DEF Start, Stop, vars, gateway
<1>3. CASE Arrive
  <2>1. hist' = [hist EXCEPT !.arrived = @ + 1] BY <1>3 DEF Arrive
  <2>2. hist'.sent = hist.sent BY <2>1 DEF BrowsersOK
  <2> QED BY <1>1, <1>3, <2>2 DEF Arrive
<1>4. CASE MeshTaskRuns BY <1>4, ApartCapture
<1>5. ASSUME NEW c \in Clients, OpenStream(c) \/ CloseStream(c) PROVE MessagesApart'
  BY <1>1, <1>5 DEF OpenStream, CloseStream, gateway
<1>6. ASSUME NEW c \in Clients, StartPoll(c) PROVE MessagesApart'
  <2>1. PICK p \in Polls, new \in PollType :
          poll' = [poll EXCEPT ![c][p] = new] /\ new.msgs = << >>
    BY <1>6, StartPollKeeps
  <2>2. seq' = seq /\ log' = log /\ hist' = hist BY <1>6 DEF StartPoll, gateway
  <2> QED BY <2>1, <2>2, ApartPoll
<1>7. ASSUME NEW c \in Clients, NEW p \in Polls, PollStep(c, p) PROVE MessagesApart'
  <2>1. ASSUME NEW e \in Endpoints, Answer(c, p, e) \/ RequestFails(c, p, e)
        PROVE  MessagesApart'
    <3>1. /\ seq' = seq /\ hist' = hist
          /\ \E new \in PollType :
               /\ poll' = [poll EXCEPT ![c][p] = new]
               /\ \/ log' \in {log, << >>} /\ new.msgs \in {poll[c][p].msgs, << >>}
                  \/ log' = << >> /\ new.msgs = log
      BY <2>1, RequestKeeps
    <3>2. PICK new \in PollType :
            /\ poll' = [poll EXCEPT ![c][p] = new]
            /\ \/ log' \in {log, << >>} /\ new.msgs \in {poll[c][p].msgs, << >>}
               \/ log' = << >> /\ new.msgs = log
      BY <3>1
    <3> QED BY <3>1, <3>2, ApartPoll
  <2>2. CASE Resolve(c, p) BY <2>2, ApartSent
  <2> QED BY <1>7, <2>1, <2>2 DEF PollStep
<1> QED BY <1>2, <1>3, <1>4, <1>5, <1>6, <1>7 DEF Next

\* THEOREM NothingSentTwice: however browsers poll, polls overlap and requests fail,
\* a message is sent to one browser and once (get_messages, the poll of server.js).
THEOREM NothingSentTwice == Spec => []SentOnce
<1>1. MessagesApart => SentOnce BY DEF MessagesApart
<1> QED BY <1>1, InitOK, NextOK, ApartInit, ApartNext, PTL DEF Spec
=============================================================================
