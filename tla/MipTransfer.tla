---------------------------- MODULE MipTransfer -----------------------------
(***************************************************************************)
(* ednet_mip: a node installs packages by fetching their files from        *)
(* gateways over the mesh.  The client asks for one file at a time and     *)
(* puts the chunks of the answer in order; a gateway answers one request   *)
(* at a time with chunks and a DONE, or with an ERROR.                     *)
(*                                                                         *)
(* External: mip itself, which downloads some files one after the other,   *)
(* HTTP, and the mesh: it may lose, repeat, reorder and delay messages (a  *)
(* DONE fits one packet and overtakes chunks, which wait in the queue of   *)
(* LighthouseTx, even until after the client has given up).                *)
(***************************************************************************)
EXTENDS Integers, Sequences, FiniteSets, SequencesExt

CONSTANTS
  Clients,     \* nodes that install packages
  Gateways,    \* nodes that run GatewayMIPService
  Chunks,      \* url -> number of chunks of its content
  IdMod,       \* request ids are counted modulo this (2^16)
  Fallback,    \* fallback_to_http
  MaxRequests  \* bound: requests made in one behaviour

Urls == DOMAIN Chunks

ASSUME MipAssumption ==
  /\ Chunks \in [Urls -> Nat]
  /\ IdMod \in Nat \ {0, 1}
  /\ Fallback \in BOOLEAN
  /\ MaxRequests \in Nat

VARIABLES
  client,   \* the locals of install, fetch_to_file and the fetcher of each client
  gateway,  \* the request each gateway works on
  air,      \* external: all messages sent; any may arrive, at any time
  reqs      \* history: the requests made

vars == <<client, gateway, air, reqs>>

Unknown == -1   \* total_chunks = None
Request == [from : Clients, id : 1 .. IdMod - 1, url : Urls, n : 1 .. MaxRequests]
NoRequest == [n |-> 0]
Data == [url : Urls, index : Nat]

\* What a client holds between two fetches.
Fresh(hook, msgId, phase) ==
  [hook |-> hook, msgId |-> msgId, phase |-> phase, req |-> NoRequest, total |-> Unknown,
   next |-> 0, buffered |-> {}, written |-> << >>]

Init ==
  /\ client = [c \in Clients |-> Fresh("original", 0, "idle")]
  /\ gateway = [g \in Gateways |-> [req |-> NoRequest, index |-> 0]]
  /\ air = {}
  /\ reqs = {}

-----------------------------------------------------------------------------
(* The client.                                                             *)

\* install: a new fetcher counts from zero, mip's download function is replaced.
Install(c) ==
  /\ client[c].phase = "idle" /\ Cardinality(reqs) < MaxRequests
  /\ client' = [client EXCEPT ![c] = Fresh("gateway", 0, "between")]
  /\ UNCHANGED <<gateway, air, reqs>>

\* Mutant: the counter does not wrap.
NextCountOn(n) == n + 1
\* _next_message_id: the counter and the id it yields.
NextCount(n) == (n + 1) % IdMod
IdOf(n) == IF n = 0 THEN 1 ELSE n

\* mip downloads a file: fetch_to_file sends the request, to one gateway or to
\* all of them, and opens the file.
Fetch(c) ==
  /\ client[c].phase = "between" /\ Cardinality(reqs) < MaxRequests
  /\ \E url \in Urls, to \in {{g} : g \in Gateways} \cup {Gateways} :
       LET count == NextCount(client[c].msgId)
           req == [from |-> c, id |-> IdOf(count), url |-> url, n |-> Cardinality(reqs) + 1]
       IN /\ client' = [client EXCEPT ![c] = [Fresh("gateway", count, "fetch") EXCEPT !.req = req]]
          /\ air' = air \cup {[kind |-> "request", to |-> g, req |-> req] : g \in to}
          /\ reqs' = reqs \cup {req}
  /\ UNCHANGED gateway

\* An exception in mip's download leaves install, or makes it start again over
\* HTTP; in either case mip's own download function is back at the end.
Fails(c) ==
  client' = [client EXCEPT ![c] =
    Fresh("original", client[c].msgId, IF Fallback THEN "http" ELSE "idle")]

\* Mutant: the client waits for ever.
TimeoutNever(c) == FALSE /\ UNCHANGED vars
\* The deadline passes.
Timeout(c) ==
  /\ client[c].phase = "fetch"
  /\ Fails(c)
  /\ UNCHANGED <<gateway, air, reqs>>

\* mip has all it wants, or the installation over HTTP ends one way or the other.
InstallEnd(c) ==
  /\ client[c].phase \in {"between", "http"}
  /\ client' = [client EXCEPT ![c] = Fresh("original", client[c].msgId, "idle")]
  /\ UNCHANGED <<gateway, air, reqs>>

\* A fetch that has all the chunks it knows of returns True.
Settled(cl) == IF cl.total # Unknown /\ cl.next >= cl.total
                 THEN [cl EXCEPT !.phase = "between"] ELSE cl

\* The chunk that is due is written, and after it those that wait in line.
WriteChunk(cl, m) ==
  LET end == CHOOSE n \in cl.next + 1 .. cl.next + 1 + Cardinality(cl.buffered) :
               /\ \A i \in cl.next + 1 .. n - 1 : \E b \in cl.buffered : b.index = i
               /\ \A b \in cl.buffered : b.index # n
      line == [i \in 1 .. end - cl.next - 1 |->
                 (CHOOSE b \in cl.buffered : b.index = cl.next + i).data]
  IN Settled([cl EXCEPT !.total = m.total, !.next = end,
                        !.written = Append(@, m.data) \o line,
                        !.buffered = {b \in @ : b.index > end}])

\* Mutant: a chunk that comes early is written at once.
TakeChunkEarly(cl, m) ==
  IF m.data.index < cl.next THEN [cl EXCEPT !.total = m.total] ELSE WriteChunk(cl, m)

\* A chunk: an old one is ignored, an early one kept in its place.
TakeChunk(cl, m) ==
  CASE m.data.index < cl.next -> [cl EXCEPT !.total = m.total]
    [] m.data.index = cl.next -> WriteChunk(cl, m)
    [] OTHER -> [cl EXCEPT !.total = m.total,
                   !.buffered = {b \in @ : b.index # m.data.index}
                                  \cup {[index |-> m.data.index, data |-> m.data]}]

\* DONE only tells the number of chunks when no chunk has told it.
TakeDone(cl, m) == Settled(IF cl.total = Unknown THEN [cl EXCEPT !.total = m.total] ELSE cl)

\* Mutant: an answer to another request is taken.
IsAnswerAny(c, m) == m.kind \in {"chunk", "done", "error"}
\* An answer to the request the client waits for, as far as the id tells.
IsAnswer(c, m) == m.kind \in {"chunk", "done", "error"} /\ m.req.id = client[c].req.id

Receive(c) ==
  /\ client[c].phase = "fetch"
  /\ \E m \in air :
       /\ m.to = c /\ IsAnswer(c, m)
       /\ CASE m.kind = "chunk" -> client' = [client EXCEPT ![c] = TakeChunk(@, m)]
            [] m.kind = "done" -> client' = [client EXCEPT ![c] = TakeDone(@, m)]
            [] m.kind = "error" -> Fails(c)
  /\ UNCHANGED <<gateway, air, reqs>>

-----------------------------------------------------------------------------
(* The gateway.                                                            *)

Answer(req, kind, i) ==
  [kind |-> kind, to |-> req.from, req |-> req, total |-> Chunks[req.url],
   data |-> [url |-> req.url, index |-> i]]

\* _handle_once takes a request and fetches the file.
Accept(g) ==
  /\ gateway[g].req = NoRequest
  /\ \E m \in air :
       /\ m.kind = "request" /\ m.to = g
       /\ gateway' = [gateway EXCEPT ![g] = [req |-> m.req, index |-> 0]]
  /\ UNCHANGED <<client, air, reqs>>

SendChunk(g) ==
  LET req == gateway[g].req IN
  /\ req # NoRequest /\ gateway[g].index < Chunks[req.url]
  /\ air' = air \cup {Answer(req, "chunk", gateway[g].index)}
  /\ gateway' = [gateway EXCEPT ![g].index = @ + 1]
  /\ UNCHANGED <<client, reqs>>

SendDone(g) ==
  LET req == gateway[g].req IN
  /\ req # NoRequest /\ gateway[g].index >= Chunks[req.url]
  /\ air' = air \cup {Answer(req, "done", 0)}
  /\ gateway' = [gateway EXCEPT ![g] = [req |-> NoRequest, index |-> 0]]
  /\ UNCHANGED <<client, reqs>>

\* HTTP answers with another status, or something raises on the way, a send
\* included: an ERROR follows, unless sending that raises too.
SendError(g) ==
  LET req == gateway[g].req IN
  /\ req # NoRequest
  /\ air' \in {air, air \cup {Answer(req, "error", 0)}}
  /\ gateway' = [gateway EXCEPT ![g] = [req |-> NoRequest, index |-> 0]]
  /\ UNCHANGED <<client, reqs>>

-----------------------------------------------------------------------------
Next ==
  \/ \E c \in Clients : Install(c) \/ Fetch(c) \/ Timeout(c) \/ InstallEnd(c) \/ Receive(c)
  \/ \E g \in Gateways : Accept(g) \/ SendChunk(g) \/ SendDone(g) \/ SendError(g)

Spec == Init /\ [][Next]_vars

\* The clock advances, and mip ends once it has asked for all it wants.
FairSpec ==
  /\ Spec
  /\ \A c \in Clients : WF_vars(Timeout(c)) /\ WF_vars(InstallEnd(c))

-----------------------------------------------------------------------------
(* Properties.                                                             *)

\* Every variable keeps to its type; request ids are never zero and keep to
\* 16 bits (_next_message_id, fetch_to_file, GatewayMIPService).
TypeOK ==
  /\ client \in [Clients ->
       [hook : {"original", "gateway"}, msgId : 0 .. IdMod - 1,
        phase : {"idle", "between", "fetch", "http"}, req : Request \cup {NoRequest},
        total : Nat \cup {Unknown}, next : Nat, buffered : SUBSET [index : Nat, data : Data],
        written : Seq(Data)]]
  /\ gateway \in [Gateways -> [req : Request \cup {NoRequest}, index : Nat]]
  /\ reqs \subseteq Request

\* Whatever arrives, in whatever order, a file holds chunks 0, 1, 2, ... each
\* once, and mip's own download function is in place whenever install is not at
\* work (fetch_to_file, install).
WrittenInOrder ==
  \A c \in Clients :
    /\ \A i \in DOMAIN client[c].written : client[c].written[i].index = i - 1
    /\ Len(client[c].written) = client[c].next
    /\ client[c].phase \in {"idle", "http"} <=> client[c].hook = "original"

Got(c) == client[c].phase = "between" /\ client[c].req # NoRequest

\* The file the client asked for.
Content(url) == [i \in 1 .. Chunks[url] |-> [url |-> url, index |-> i - 1]]

\* No answer to another request of the client carries the id of its request.
IdIsFresh(c) ==
  \A r \in reqs : r.id = client[c].req.id /\ r.from = c => r = client[c].req

\* Unless an id comes back, a fetch that returns True wrote the very file it asked
\* for, with chunks and DONE reordered, repeated or late, and several gateways
\* answering one request (fetch_to_file).
FetchedRight ==
  \A c \in Clients : Got(c) /\ IdIsFresh(c) =>
    client[c].written = Content(client[c].req.url)

\* A fetch only ends well with all chunks of its file: the client keeps collecting
\* until all declared chunks arrive, or times out (fetch_to_file: "Keep collecting
\* until all declared chunks arrive").
KeepsCollecting ==
  \A c \in Clients : Got(c) => Len(client[c].written) = Chunks[client[c].req.url]

\* Every installation ends: whatever the mesh and the gateways do, the deadline
\* takes the client out of a fetch (fetch_to_file, install).
InstallEnds == \A c \in Clients : client[c].phase # "idle" ~> client[c].phase = "idle"
=============================================================================
