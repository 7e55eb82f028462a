------------------------------ MODULE Registry ------------------------------
(***************************************************************************)
(* The capability registry of a node (registry.py) as a value, and what    *)
(* MessagingEndpoint.poll does to it for each message it decodes           *)
(* (protocol.py).  Queries and their answers are decoded but not           *)
(* registered.  The entry of a node is changed in place, field by field,   *)
(* and the registry relies on validation for what it takes out of a        *)
(* message.                                                                *)
(***************************************************************************)
EXTENDS Codec

CONSTANTS NodeIds, Services, Hashes

\* What is kept of a node; a node that is not known has no hash.  A service whose
\* entry has no id is listed as NoId.
NoId == -1
Unknown == [known |-> FALSE, hash |-> "none", ids |-> {}, profiled |-> FALSE, services |-> {}]
NodeEntry == [known : BOOLEAN, hash : Hashes \cup {"none"}, ids : SUBSET Services,
              profiled : BOOLEAN, services : SUBSET (Services \cup {NoId})]
RegistryType == [nodes : [NodeIds -> NodeEntry], providers : [Services -> SUBSET NodeIds]]
EmptyRegistry == [nodes |-> [n \in NodeIds |-> Unknown], providers |-> [s \in Services |-> {}]]

AdvertisedIds(m) == {id.number : id \in Range(m.s.array)}
ProfiledIds(m) ==
  {IF "sid" \in DOMAIN s.object THEN s.object.sid.number ELSE NoId : s \in Range(m.s.array)}

\* Services are added to the index, never taken out.
IndexServices(providers, node, ids) ==
  [s \in Services |-> providers[s] \cup (IF s \in ids THEN {node} ELSE {})]

\* An advertisement updates the hash and the ids, and leaves the services of an
\* earlier profile as they are.
RegisterAdvertisement(reg, m) ==
  LET node == m.n.string
      ids == AdvertisedIds(m)
  IN [nodes |-> [reg.nodes EXCEPT ![node] =
                   [@ EXCEPT !.known = TRUE, !.hash = m.h.string, !.ids = ids]],
      providers |-> IndexServices(reg.providers, node, ids)]

\* A service without an id raises KeyError half way: the entry of a known node
\* has the new hash and services by then, a new entry is not yet in the registry.
RegisterProfile(reg, m) ==
  LET node == m.n.string
      ids == ProfiledIds(m)
      begun == [reg.nodes[node] EXCEPT !.hash = m.h.string, !.profiled = TRUE, !.services = ids]
  IN CASE NoId \notin ids ->
            [nodes |-> [reg.nodes EXCEPT ![node] = [begun EXCEPT !.known = TRUE, !.ids = ids]],
             providers |-> IndexServices(reg.providers, node, ids)]
       [] NoId \in ids /\ reg.nodes[node].known -> [reg EXCEPT !.nodes[node] = begun]
       [] OTHER -> reg

\* The part of poll that follows the decoding of a payload.
Register(reg, m) ==
  CASE m.t.string = "a" -> RegisterAdvertisement(reg, m)
    [] m.t.string = "p" -> RegisterProfile(reg, m)
    [] OTHER -> reg

RegisterAll(reg, msgs) ==
  LET after[i \in 0 .. Len(msgs)] ==
        IF i = 0 THEN reg ELSE Register(after[i - 1], msgs[i])
  IN after[Len(msgs)]

\* find_service, without the order of its result.
FindService(reg, s) == {n \in reg.providers[s] : reg.nodes[n].known}
=============================================================================
