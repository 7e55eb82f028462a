-------------------------- MODULE MipTransferProofs --------------------------
(***************************************************************************)
(* Proofs about MipTransfer, for every set of clients, gateways and files: *)
(* types, that a file is written in order, and that a fetch under a fresh  *)
(* id writes the file it asked for.                                        *)
(***************************************************************************)
EXTENDS MipTransfer, FiniteSetTheorems, SequenceTheorems, NaturalsOrder

Local ==
  [hook : {"original", "gateway"}, msgId : 0 .. IdMod - 1,
   phase : {"idle", "between", "fetch", "http"}, req : Request \cup {NoRequest},
   total : Nat \cup {Unknown}, next : Nat, buffered : SUBSET [index : Nat, data : Data],
   written : Seq(Data)]

\* A client's file: what is written is in order, what is kept is in its place.
FileOK(cl) ==
  /\ cl \in Local
  /\ IsFiniteSet(cl.buffered)
  /\ \A b \in cl.buffered : b.data.index = b.index
  /\ \A i \in 1 .. Len(cl.written) : cl.written[i].index = i - 1
  /\ Len(cl.written) = cl.next

\* All chunks a client has are among D.
From(cl, D) ==
  /\ \A i \in 1 .. Len(cl.written) : cl.written[i] \in D
  /\ \A b \in cl.buffered : b.data \in D

ChunksOf(url) == {d \in Data : d.url = url /\ d.index < Chunks[url]}

Asked(cl) == cl.req # NoRequest

ClientOK(c) ==
  LET cl == client[c]
  IN /\ FileOK(cl)
     /\ cl.phase \in {"idle", "http"} <=> cl.hook = "original"
     /\ cl.phase = "fetch" => Asked(cl)
     /\ Asked(cl) => cl.req \in reqs /\ cl.req.from = c /\ cl.phase \in {"fetch", "between"}
     /\ Asked(cl) /\ cl.phase = "between" => cl.total # Unknown /\ cl.next >= cl.total
     /\ Asked(cl) /\ IdIsFresh(c) =>
          From(cl, ChunksOf(cl.req.url)) /\ cl.total \in {Unknown, Chunks[cl.req.url]}

MessageOK(m) ==
  /\ m.req \in reqs
  /\ m.kind \in {"request", "chunk", "done", "error"}
  /\ m.kind # "request" =>
       /\ m.to = m.req.from /\ m.total = Chunks[m.req.url] /\ m.data \in Data
       /\ m.kind = "chunk" => m.data \in ChunksOf(m.req.url)

ClientsOK == client \in [Clients -> Local] /\ \A c \in Clients : ClientOK(c)
GatewaysOK ==
  /\ gateway \in [Gateways -> [req : Request \cup {NoRequest}, index : Nat]]
  /\ \A g \in Gateways : gateway[g].req # NoRequest => gateway[g].req \in reqs
AirOK == \A m \in air : MessageOK(m)
ReqsOK == reqs \subseteq Request /\ IsFiniteSet(reqs)

MipInv == ClientsOK /\ GatewaysOK /\ AirOK /\ ReqsOK

-----------------------------------------------------------------------------
LEMMA RequestType ==
  ASSUME NEW r \in Request
  PROVE  /\ r.url \in Urls /\ r.from \in Clients /\ Chunks[r.url] \in Nat /\ r # NoRequest
         /\ \A d \in ChunksOf(r.url) : d \in Data
<1>1. r.url \in Urls /\ r.from \in Clients BY DEF Request
<1>2. Chunks[r.url] \in Nat BY <1>1, MipAssumption
<1>3. r # NoRequest
  <2>1. DOMAIN r = {"from", "id", "url", "n"} BY DEF Request
  <2>2. DOMAIN NoRequest = {"n"} BY DEF NoRequest
  <2>3. "id" \in DOMAIN r /\ "id" \notin DOMAIN NoRequest BY <2>1, <2>2
  <2> QED BY <2>3
<1> QED BY <1>1, <1>2, <1>3 DEF ChunksOf

LEMMA FreshOK ==
  ASSUME NEW h \in {"original", "gateway"}, NEW k \in 0 .. IdMod - 1,
         NEW p \in {"idle", "between", "fetch", "http"}
  PROVE  /\ FileOK(Fresh(h, k, p)) /\ Fresh(h, k, p) \in Local /\ ~Asked(Fresh(h, k, p))
         /\ Fresh(h, k, p).hook = h /\ Fresh(h, k, p).phase = p
         /\ \A r \in Request :
              LET cl == [Fresh(h, k, p) EXCEPT !.req = r]
              IN /\ FileOK(cl) /\ cl \in Local /\ cl.req = r /\ cl.hook = h /\ cl.phase = p
                 /\ cl.total = Unknown /\ \A D : From(cl, D)
<1>1. << >> \in Seq(Data) /\ IsFiniteSet({}) /\ {} \in SUBSET [index : Nat, data : Data]
  BY FS_EmptySet
<1>2. Fresh(h, k, p) \in Local /\ Fresh(h, k, p).written = << >> /\ Fresh(h, k, p).buffered = {}
      /\ Fresh(h, k, p).next = 0 /\ Fresh(h, k, p).req = NoRequest
  BY <1>1 DEF Fresh, Local, Unknown
<1>3. ASSUME NEW r \in Request
      PROVE  LET cl == [Fresh(h, k, p) EXCEPT !.req = r]
             IN /\ FileOK(cl) /\ cl \in Local /\ cl.req = r /\ cl.hook = h /\ cl.phase = p
                /\ cl.total = Unknown /\ \A D : From(cl, D)
  <2> DEFINE cl == [Fresh(h, k, p) EXCEPT !.req = r]
  <2>1. /\ cl.written = << >> /\ cl.buffered = {} /\ cl.next = 0 /\ cl.req = r
        /\ cl.hook = h /\ cl.phase = p /\ cl.total = Unknown
    BY DEF Fresh
  <2>2. cl \in Local BY <1>2 DEF Local
  <2> HIDE DEF cl
  <2>3. FileOK(cl) BY <1>1, <2>1, <2>2 DEF FileOK
  <2>4. \A D : From(cl, D) BY <2>1 DEF From
  <2> QED BY <2>1, <2>2, <2>3, <2>4 DEF cl
<1>4. FileOK(Fresh(h, k, p)) BY <1>1, <1>2 DEF FileOK
<1>5. Fresh(h, k, p).hook = h /\ Fresh(h, k, p).phase = p BY DEF Fresh
<1> QED BY <1>2, <1>3, <1>4, <1>5 DEF Asked

-----------------------------------------------------------------------------
(* The chunks a client takes.                                              *)

\* Behind the chunk that is due there is a first place where none is kept.
LEMMA FirstGap ==
  ASSUME NEW B, IsFiniteSet(B), NEW k \in Nat
  PROVE  \E n \in k + 1 .. k + 1 + Cardinality(B) :
           /\ \A i \in k + 1 .. n - 1 : \E b \in B : b.index = i
           /\ \A b \in B : b.index # n
<1> DEFINE N == Cardinality(B)
<1> DEFINE I == {b.index : b \in B}
<1> DEFINE J == k + 1 .. k + 1 + N
<1>1. N \in Nat BY FS_CardinalityType
<1>2. IsFiniteSet(I) /\ Cardinality(I) <= N /\ Cardinality(I) \in Nat
  <2> DEFINE f == [b \in B |-> b.index]
  <2>1. f \in Surjection(B, I) BY DEF Surjection
  <2>2. IsFiniteSet(I) /\ Cardinality(I) <= Cardinality(B) BY <2>1, FS_Surjection
  <2> QED BY <2>2, FS_CardinalityType
<1>3. IsFiniteSet(J) /\ Cardinality(J) = N + 1
  <2> HIDE DEF N
  <2>1. k + 1 \in Int /\ k + 1 + N \in Int BY <1>1
  <2>2. Cardinality(J) = IF k + 1 > k + 1 + N THEN 0 ELSE (k + 1 + N) - (k + 1) + 1
    BY <2>1, FS_Interval
  <2>3. IsFiniteSet(J) BY <2>1, FS_Interval
  <2> QED BY <1>1, <2>2, <2>3
<1> DEFINE T == {n \in J : n \notin I}
<1>4. T # {}
  <2> SUFFICES ASSUME J \subseteq I PROVE FALSE
    OBVIOUS
  <2>1. Cardinality(J) <= Cardinality(I) BY <1>2, FS_Subset
  <2> HIDE DEF I, J, N
  <2> QED BY <1>1, <1>2, <1>3, <2>1
<1>5. T \subseteq Nat BY <1>1
<1> HIDE DEF T
<1>6. PICK n \in T : \A m \in T : n <= m BY <1>4, <1>5, LeastElement
<1>7. n \in J /\ n \notin I BY <1>6 DEF T
<1>8. ASSUME NEW i \in k + 1 .. n - 1 PROVE i \in I
  <2>1. i \in J /\ ~(n <= i) BY <1>1, <1>7, <1>8
  <2>2. i \notin T BY <1>6, <2>1
  <2> QED BY <2>1, <2>2 DEF T
<1> QED BY <1>7, <1>8

LEMMA SettledOK ==
  ASSUME NEW cl, FileOK(cl), cl.phase = "fetch"
  PROVE  LET new == Settled(cl)
         IN /\ FileOK(new) /\ new.req = cl.req /\ new.hook = cl.hook /\ new.total = cl.total
            /\ new.phase \in {"fetch", "between"}
            /\ new.phase = "between" => new.total # Unknown /\ new.next >= new.total
            /\ \A D : From(cl, D) => From(new, D)
<1>1. CASE cl.total # Unknown /\ cl.next >= cl.total
  <2> DEFINE new == [cl EXCEPT !.phase = "between"]
  <2>1. Settled(cl) = new BY <1>1 DEF Settled
  <2>2. /\ new \in Local /\ new.req = cl.req /\ new.hook = cl.hook /\ new.total = cl.total
        /\ new.phase = "between" /\ new.next = cl.next /\ new.written = cl.written
        /\ new.buffered = cl.buffered
    BY DEF FileOK, Local
  <2> HIDE DEF new
  <2>3. FileOK(new) BY <2>2 DEF FileOK
  <2>4. \A D : From(cl, D) => From(new, D) BY <2>2 DEF From
  <2> QED BY <1>1, <2>1, <2>2, <2>3, <2>4
<1>2. CASE ~(cl.total # Unknown /\ cl.next >= cl.total)
  <2>1. Settled(cl) = cl BY <1>2 DEF Settled
  <2> QED BY <2>1
<1> QED BY <1>1, <1>2

LEMMA WriteOK ==
  ASSUME NEW cl, FileOK(cl), cl.phase = "fetch",
         NEW m, m.data \in Data, m.total \in Nat, m.data.index = cl.next
  PROVE  LET new == WriteChunk(cl, m)
         IN /\ FileOK(new) /\ new.req = cl.req /\ new.hook = cl.hook /\ new.total = m.total
            /\ new.phase \in {"fetch", "between"}
            /\ new.phase = "between" => new.total # Unknown /\ new.next >= new.total
            /\ \A D : From(cl, D) /\ m.data \in D => From(new, D)
<1> DEFINE B == cl.buffered
<1> DEFINE k == cl.next
<1> DEFINE inRow(n) == /\ \A i \in k + 1 .. n - 1 : \E b \in B : b.index = i
                       /\ \A b \in B : b.index # n
<1> DEFINE end == CHOOSE n \in k + 1 .. k + 1 + Cardinality(B) : inRow(n)
<1> DEFINE line == [i \in 1 .. end - k - 1 |-> (CHOOSE b \in B : b.index = k + i).data]
<1> DEFINE all == Append(cl.written, m.data) \o line
<1> DEFINE left == {b \in B : b.index > end}
<1> DEFINE new == [cl EXCEPT !.total = m.total, !.next = end, !.written = all, !.buffered = left]
<1>1. /\ cl \in Local /\ IsFiniteSet(B) /\ B \subseteq [index : Nat, data : Data] /\ k \in Nat
      /\ cl.written \in Seq(Data) /\ Len(cl.written) = k
      /\ \A b \in B : b.data.index = b.index /\ b.data \in Data /\ b.index \in Nat
      /\ \A i \in 1 .. k : cl.written[i].index = i - 1
  BY DEF FileOK, Local
<1>2. Cardinality(B) \in Nat BY <1>1, FS_CardinalityType
<1>3. end \in Nat /\ end >= k + 1 /\ inRow(end)
  <2>1. \E n \in k + 1 .. k + 1 + Cardinality(B) : inRow(n) BY <1>1, FirstGap
  <2> HIDE DEF inRow, k, B
  <2>2. end \in k + 1 .. k + 1 + Cardinality(B) /\ inRow(end) BY <2>1
  <2> HIDE DEF end
  <2> QED BY <1>1, <1>2, <2>2
<1> HIDE DEF end
<1> DEFINE rest == end - k - 1
<1>a. k \in Nat /\ end \in Nat /\ rest \in Nat /\ end = k + 1 + rest
  <2> HIDE DEF k
  <2> QED BY <1>1, <1>3
<1>4. ASSUME NEW i \in 1 .. end - k - 1
      PROVE  \E b \in B : b.index = k + i /\ line[i] = b.data
  <2>1. k + i \in k + 1 .. end - 1 BY <1>1, <1>3
  <2>2. \E b \in B : b.index = k + i BY <1>3, <2>1
  <2> QED BY <2>2
<1>5. line \in Seq(Data) /\ Len(line) = end - k - 1
  <2>1. \A i \in 1 .. end - k - 1 : line[i] \in Data BY <1>1, <1>4
  <2>2. line \in [1 .. rest -> Data] BY <2>1
  <2> HIDE DEF line, rest
  <2>3. line \in Seq(Data) /\ Len(line) = rest BY <1>a, <2>2
  <2> QED BY <2>3 DEF rest
<1> HIDE DEF line
<1>6. /\ all \in Seq(Data) /\ Len(all) = end
      /\ \A i \in 1 .. k : all[i] = cl.written[i]
      /\ all[k + 1] = m.data
      /\ \A i \in 1 .. end - k - 1 : all[k + 1 + i] = line[i]
  <2> DEFINE first == Append(cl.written, m.data)
  <2> HIDE DEF k
  <2>1. /\ first \in Seq(Data) /\ Len(first) = k + 1 /\ first[k + 1] = m.data
        /\ \A i \in 1 .. k : first[i] = cl.written[i]
    BY <1>1
  <2> HIDE DEF first
  <2>2. all = first \o line BY DEF first
  <2> HIDE DEF all
  <2>a. Len(line) = rest /\ Len(first) = k + 1 BY <1>5, <2>1
  <2> HIDE DEF rest
  <2>3. /\ all \in Seq(Data) /\ Len(all) = Len(first) + Len(line)
        /\ \A i \in 1 .. Len(first) : all[i] = first[i]
        /\ \A i \in Len(first) + 1 .. Len(first) + Len(line) : all[i] = line[i - Len(first)]
    <3>1. /\ all \in Seq(Data) /\ Len(all) = Len(first) + Len(line)
          /\ \A i \in 1 .. Len(first) + Len(line) :
               all[i] = IF i <= Len(first) THEN first[i] ELSE line[i - Len(first)]
      BY <1>5, <2>1, <2>2, ConcatProperties
    <3>2. Len(first) \in Nat /\ Len(line) \in Nat BY <1>a, <2>a
    <3> QED BY <3>1, <3>2
  <2>4. Len(all) = end BY <1>a, <2>3, <2>a
  <2>5. \A i \in 1 .. k + 1 : all[i] = first[i] BY <2>3, <2>a
  <2>6. ASSUME NEW i \in 1 .. rest PROVE all[k + 1 + i] = line[i]
    <3>1. PICK j \in Int : j = k + 1 + i BY <1>a
    <3>2. j \in Len(first) + 1 .. Len(first) + Len(line) /\ j - Len(first) = i
      BY <1>a, <2>a, <3>1
    <3>3. all[j] = line[j - Len(first)] BY <2>3, <3>2
    <3>4. all[j] = line[i] BY <3>2, <3>3
    <3> QED BY <3>1, <3>4
  <2>7. \A i \in 1 .. k : i \in 1 .. k + 1 BY <1>a
  <2>8. k + 1 \in 1 .. k + 1 BY <1>a
  <2> QED BY <2>1, <2>3, <2>4, <2>5, <2>6, <2>7, <2>8 DEF rest
<1> HIDE DEF all
\* What stands at each place of the file.
<1>7. ASSUME NEW i \in 1 .. end
      PROVE  \/ i \in 1 .. k /\ all[i] = cl.written[i]
             \/ i = k + 1 /\ all[i] = m.data
             \/ \E b \in B : b.index = i - 1 /\ all[i] = b.data
  <2>1. CASE i \in 1 .. k BY <1>6, <2>1
  <2>2. CASE i = k + 1 BY <1>6, <2>2
  <2>3. CASE ~(i \in 1 .. k) /\ i # k + 1
    <3> DEFINE j == i - (k + 1)
    <3>1. j \in 1 .. end - k - 1 /\ i = k + 1 + j /\ k + j = i - 1
      <4> HIDE DEF k
      <4> QED BY <1>a, <2>3
    <3> HIDE DEF j
    <3>2. all[i] = line[j] BY <1>6, <3>1
    <3>3. PICK b \in B : b.index = k + j /\ line[j] = b.data BY <1>4, <3>1
    <3> QED BY <3>1, <3>2, <3>3
  <2> QED BY <2>1, <2>2, <2>3
<1>8. ASSUME NEW i \in 1 .. end PROVE all[i].index = i - 1
  <2>1. CASE i \in 1 .. k /\ all[i] = cl.written[i] BY <1>1, <2>1
  <2>2. CASE i = k + 1 /\ all[i] = m.data BY <1>1, <2>2
  <2>3. CASE \E b \in B : b.index = i - 1 /\ all[i] = b.data BY <1>1, <2>3
  <2> QED BY <1>7, <2>1, <2>2, <2>3
<1>9. left \subseteq B /\ IsFiniteSet(left) BY <1>1, FS_Subset
<1> HIDE DEF left
<1>10. /\ new \in Local /\ new.req = cl.req /\ new.hook = cl.hook /\ new.total = m.total
       /\ new.phase = "fetch" /\ new.next = end /\ new.written = all /\ new.buffered = left
  <2>1. left \in SUBSET [index : Nat, data : Data] BY <1>1, <1>9
  <2> HIDE DEF k, B
  <2> QED BY <1>1, <1>3, <1>6, <2>1 DEF Local
<1>11. WriteChunk(cl, m) = Settled(new)
  BY DEF WriteChunk, all, left, line, end
<1> HIDE DEF new
<1>12. FileOK(new) BY <1>1, <1>6, <1>8, <1>9, <1>10 DEF FileOK
<1>13. ASSUME NEW D, From(cl, D), m.data \in D PROVE From(new, D)
  <2>1. ASSUME NEW i \in 1 .. end PROVE all[i] \in D
    <3>1. CASE i \in 1 .. k /\ all[i] = cl.written[i] BY <1>1, <1>13, <3>1 DEF From
    <3>2. CASE i = k + 1 /\ all[i] = m.data BY <1>13, <3>2
    <3>3. CASE \E b \in B : b.index = i - 1 /\ all[i] = b.data BY <1>13, <3>3 DEF From
    <3> QED BY <1>7, <3>1, <3>2, <3>3
  <2>2. \A b \in left : b.data \in D BY <1>9, <1>13 DEF From
  <2> QED BY <1>6, <1>10, <2>1, <2>2 DEF From
<1>14. /\ FileOK(Settled(new)) /\ Settled(new).req = new.req /\ Settled(new).hook = new.hook
       /\ Settled(new).total = new.total /\ Settled(new).phase \in {"fetch", "between"}
       /\ Settled(new).phase = "between" =>
            Settled(new).total # Unknown /\ Settled(new).next >= Settled(new).total
       /\ \A D : From(new, D) => From(Settled(new), D)
  BY <1>10, <1>12, SettledOK
<1> QED BY <1>10, <1>11, <1>13, <1>14

LEMMA TakeChunkOK ==
  ASSUME NEW cl, FileOK(cl), cl.phase = "fetch",
         NEW m, m.data \in Data, m.total \in Nat
  PROVE  LET new == TakeChunk(cl, m)
         IN /\ FileOK(new) /\ new.req = cl.req /\ new.hook = cl.hook /\ new.total = m.total
            /\ new.phase \in {"fetch", "between"}
            /\ new.phase = "between" => new.total # Unknown /\ new.next >= new.total
            /\ \A D : From(cl, D) /\ m.data \in D => From(new, D)
<1>0. cl \in Local /\ m.data.index \in Nat /\ cl.next \in Nat BY DEF FileOK, Local, Data
<1>1. CASE m.data.index < cl.next
  <2> DEFINE new == [cl EXCEPT !.total = m.total]
  <2>1. TakeChunk(cl, m) = new BY <1>0, <1>1 DEF TakeChunk
  <2>2. /\ new \in Local /\ new.req = cl.req /\ new.hook = cl.hook /\ new.total = m.total
        /\ new.phase = "fetch" /\ new.next = cl.next /\ new.written = cl.written
        /\ new.buffered = cl.buffered
    BY <1>0 DEF Local
  <2> HIDE DEF new
  <2>3. FileOK(new) BY <2>2 DEF FileOK
  <2>4. \A D : From(cl, D) => From(new, D) BY <2>2 DEF From
  <2> QED BY <2>1, <2>2, <2>3, <2>4
<1>2. CASE m.data.index = cl.next
  <2>1. TakeChunk(cl, m) = WriteChunk(cl, m) BY <1>0, <1>2 DEF TakeChunk
  <2> QED BY <1>2, <2>1, WriteOK
<1>3. CASE m.data.index > cl.next
  <2> DEFINE B == {b \in cl.buffered : b.index # m.data.index}
                    \cup {[index |-> m.data.index, data |-> m.data]}
  <2> DEFINE new == [cl EXCEPT !.total = m.total, !.buffered = B]
  <2>1. TakeChunk(cl, m) = new BY <1>0, <1>3 DEF TakeChunk
  <2>2. IsFiniteSet(B)
    <3> DEFINE A == {b \in cl.buffered : b.index # m.data.index}
    <3>1. IsFiniteSet(A) BY FS_Subset DEF FileOK
    <3> HIDE DEF A
    <3>2. IsFiniteSet(A \cup {[index |-> m.data.index, data |-> m.data]})
      BY <3>1, FS_AddElement
    <3> QED BY <3>2 DEF A
  <2>3. B \in SUBSET [index : Nat, data : Data] BY <1>0 DEF Local
  <2>4. \A b \in B : b \in cl.buffered \/ (b.data = m.data /\ b.index = m.data.index)
    OBVIOUS
  <2> HIDE DEF B
  <2>5. /\ new \in Local /\ new.req = cl.req /\ new.hook = cl.hook /\ new.total = m.total
        /\ new.phase = "fetch" /\ new.next = cl.next /\ new.written = cl.written
        /\ new.buffered = B
    BY <1>0, <2>3 DEF Local
  <2> HIDE DEF new
  <2>6. FileOK(new) BY <2>2, <2>4, <2>5 DEF FileOK
  <2>7. \A D : From(cl, D) /\ m.data \in D => From(new, D) BY <2>4, <2>5 DEF From
  <2> QED BY <2>1, <2>5, <2>6, <2>7
<1> QED BY <1>0, <1>1, <1>2, <1>3

LEMMA TakeDoneOK ==
  ASSUME NEW cl, FileOK(cl), cl.phase = "fetch", NEW m, m.total \in Nat
  PROVE  LET new == TakeDone(cl, m)
         IN /\ FileOK(new) /\ new.req = cl.req /\ new.hook = cl.hook
            /\ new.total \in {cl.total, m.total}
            /\ cl.total = Unknown => new.total = m.total
            /\ new.phase \in {"fetch", "between"}
            /\ new.phase = "between" => new.total # Unknown /\ new.next >= new.total
            /\ \A D : From(cl, D) => From(new, D)
<1> DEFINE told == IF cl.total = Unknown THEN [cl EXCEPT !.total = m.total] ELSE cl
<1>1. /\ FileOK(told) /\ told.req = cl.req /\ told.hook = cl.hook /\ told.phase = "fetch"
      /\ told.total \in {cl.total, m.total} /\ (cl.total = Unknown => told.total = m.total)
      /\ \A D : From(cl, D) => From(told, D)
  <2>1. CASE cl.total = Unknown
    <3> DEFINE new == [cl EXCEPT !.total = m.total]
    <3>1. /\ new \in Local /\ new.req = cl.req /\ new.hook = cl.hook /\ new.total = m.total
          /\ new.phase = "fetch" /\ new.next = cl.next /\ new.written = cl.written
          /\ new.buffered = cl.buffered
      BY DEF Local, FileOK
    <3>2. told = new BY <2>1
    <3> HIDE DEF new, told
    <3>3. FileOK(new) BY <3>1 DEF FileOK
    <3>4. \A D : From(cl, D) => From(new, D) BY <3>1 DEF From
    <3> QED BY <3>1, <3>2, <3>3, <3>4
  <2>2. CASE cl.total # Unknown
    <3>1. told = cl BY <2>2
    <3> QED BY <2>2, <3>1
  <2> QED BY <2>1, <2>2
<1>2. TakeDone(cl, m) = Settled(told) BY DEF TakeDone
<1> HIDE DEF told
<1> QED BY <1>1, <1>2, SettledOK

-----------------------------------------------------------------------------
(* The steps.                                                              *)

\* One client changes; an id that is fresh after the step was fresh before it.
LEMMA OneClient ==
  ASSUME ClientsOK, NEW c \in Clients, NEW new \in Local, reqs \subseteq reqs',
         client' = [client EXCEPT ![c] = new], ClientOK(c)'
  PROVE  ClientsOK'
<1>1. client' \in [Clients -> Local] BY DEF ClientsOK
<1>2. ASSUME NEW d \in Clients, d # c PROVE ClientOK(d)'
  <2>1. client'[d] = client[d] BY <1>2 DEF ClientsOK
  <2>2. ClientOK(d) BY DEF ClientsOK
  <2>3. IdIsFresh(d)' => IdIsFresh(d) BY <2>1 DEF IdIsFresh
  <2> QED BY <2>1, <2>2, <2>3 DEF ClientOK
<1> QED BY <1>1, <1>2 DEF ClientsOK

\* Install, a fetch that fails, and the end of an installation.
LEMMA FreshPreserves ==
  ASSUME MipInv, NEW c \in Clients, NEW h \in {"original", "gateway"},
         NEW k \in 0 .. IdMod - 1, NEW p \in {"idle", "between", "http"},
         p \in {"idle", "http"} <=> h = "original",
         client' = [client EXCEPT ![c] = Fresh(h, k, p)], UNCHANGED <<gateway, air, reqs>>
  PROVE  MipInv'
<1> DEFINE new == Fresh(h, k, p)
<1>1. FileOK(new) /\ new \in Local /\ ~Asked(new) /\ new.hook = h /\ new.phase = p
  BY FreshOK
<1> HIDE DEF new
<1>2. client'[c] = new BY DEF MipInv, ClientsOK, new
<1>3. ClientOK(c)' BY <1>1, <1>2 DEF ClientOK
<1>4. ClientsOK' BY <1>1, <1>3, OneClient DEF MipInv, new
<1> QED BY <1>4 DEF MipInv, GatewaysOK, AirOK, ReqsOK, MessageOK

LEMMA MsgIdType ==
  ASSUME MipInv, NEW c \in Clients
  PROVE  client[c] \in Local /\ client[c].msgId \in 0 .. IdMod - 1
  BY DEF MipInv, ClientsOK, Local

LEMMA EndsPreserve ==
  ASSUME MipInv, NEW c \in Clients, Install(c) \/ Timeout(c) \/ InstallEnd(c)
  PROVE  MipInv'
<1>1. client[c].msgId \in 0 .. IdMod - 1 /\ 0 \in 0 .. IdMod - 1
  BY MsgIdType, MipAssumption
<1>2. CASE Install(c) BY <1>1, <1>2, FreshPreserves DEF Install
<1>3. CASE Timeout(c)
  <2>1. PICK p \in {"http", "idle"} :
          client' = [client EXCEPT ![c] = Fresh("original", client[c].msgId, p)]
    BY <1>3 DEF Timeout, Fails
  <2> QED BY <1>1, <1>3, <2>1, FreshPreserves DEF Timeout
<1>4. CASE InstallEnd(c) BY <1>1, <1>4, FreshPreserves DEF InstallEnd
<1> QED BY <1>2, <1>3, <1>4

LEMMA IdType ==
  ASSUME NEW n \in 0 .. IdMod - 1
  PROVE  NextCount(n) \in 0 .. IdMod - 1 /\ IdOf(NextCount(n)) \in 1 .. IdMod - 1
<1>1. IdMod \in Nat /\ IdMod > 1 BY MipAssumption
<1>2. (n + 1) % IdMod \in 0 .. IdMod - 1 BY <1>1
<1> QED BY <1>1, <1>2 DEF NextCount, IdOf

LEMMA FetchPreserves ==
  ASSUME MipInv, NEW c \in Clients, Fetch(c)
  PROVE  MipInv'
<1>0. ClientsOK /\ GatewaysOK /\ AirOK /\ ReqsOK BY DEF MipInv
<1>1. PICK url \in Urls, to \in {{g} : g \in Gateways} \cup {Gateways} :
        LET count == NextCount(client[c].msgId)
            req == [from |-> c, id |-> IdOf(count), url |-> url, n |-> Cardinality(reqs) + 1]
        IN /\ client' = [client EXCEPT ![c] = [Fresh("gateway", count, "fetch") EXCEPT !.req = req]]
           /\ air' = air \cup {[kind |-> "request", to |-> g, req |-> req] : g \in to}
           /\ reqs' = reqs \cup {req}
  BY DEF Fetch
<1> DEFINE count == NextCount(client[c].msgId)
<1> DEFINE req == [from |-> c, id |-> IdOf(count), url |-> url, n |-> Cardinality(reqs) + 1]
<1> DEFINE new == [Fresh("gateway", count, "fetch") EXCEPT !.req = req]
<1>2. count \in 0 .. IdMod - 1 /\ IdOf(count) \in 1 .. IdMod - 1 BY MsgIdType, IdType
<1>3. Cardinality(reqs) + 1 \in 1 .. MaxRequests
  <2>1. Cardinality(reqs) \in Nat BY <1>0, FS_CardinalityType DEF ReqsOK
  <2>2. Cardinality(reqs) < MaxRequests BY DEF Fetch
  <2> QED BY <2>1, <2>2, MipAssumption
<1> HIDE DEF count
<1>4. req \in Request /\ req.from = c BY <1>2, <1>3 DEF Request
<1>5. /\ client' = [client EXCEPT ![c] = new] /\ reqs' = reqs \cup {req}
      /\ air' = air \cup {[kind |-> "request", to |-> g, req |-> req] : g \in to}
      /\ gateway' = gateway
  BY <1>1 DEF Fetch, count
<1> HIDE DEF req
<1>6. FileOK(new) /\ new \in Local /\ new.req = req /\ new.hook = "gateway" /\ new.phase = "fetch"
      /\ new.total = Unknown /\ \A D : From(new, D)
  BY <1>2, <1>4, FreshOK
<1> HIDE DEF new
<1>7. req # NoRequest BY <1>4, RequestType
<1>8. client'[c] = new BY <1>0, <1>5 DEF ClientsOK
<1>9. ClientOK(c)'
  <2>1. Asked(new) /\ new.req \in reqs' BY <1>5, <1>6, <1>7 DEF Asked
  <2> QED BY <1>4, <1>6, <1>8, <2>1 DEF ClientOK
<1>10. ClientsOK' BY <1>0, <1>5, <1>6, <1>9, OneClient
<1>11. AirOK'
  <2> SUFFICES ASSUME NEW m \in air' PROVE MessageOK(m)'
    BY DEF AirOK
  <2>1. CASE m \in air BY <1>0, <1>5, <2>1 DEF AirOK, MessageOK
  <2>2. CASE m \notin air
    <3>1. PICK g \in to : m = [kind |-> "request", to |-> g, req |-> req] BY <1>5, <2>2
    <3>2. m.kind = "request" /\ m.req = req BY <3>1
    <3> QED BY <1>5, <3>2 DEF MessageOK
  <2> QED BY <2>1, <2>2
<1>12. GatewaysOK' BY <1>0, <1>5 DEF GatewaysOK
<1>13. ReqsOK' BY <1>0, <1>4, <1>5, FS_AddElement DEF ReqsOK
<1> QED BY <1>10, <1>11, <1>12, <1>13 DEF MipInv

\* Whatever answer arrives: the client keeps its file in order, and under a fresh
\* id only takes chunks of the file it asked for.
LEMMA ReceivePreserves ==
  ASSUME MipInv, NEW c \in Clients, Receive(c)
  PROVE  MipInv'
<1>0. ClientsOK /\ GatewaysOK /\ AirOK /\ ReqsOK /\ UNCHANGED <<gateway, air, reqs>>
      /\ client[c].phase = "fetch"
  BY DEF MipInv, Receive
<1>1. PICK m \in air :
        /\ m.to = c /\ IsAnswer(c, m)
        /\ CASE m.kind = "chunk" -> client' = [client EXCEPT ![c] = TakeChunk(@, m)]
             [] m.kind = "done" -> client' = [client EXCEPT ![c] = TakeDone(@, m)]
             [] m.kind = "error" -> Fails(c)
  BY DEF Receive
<1> DEFINE cl == client[c]
<1>2. m.kind \in {"chunk", "done", "error"} /\ m.req.id = cl.req.id BY <1>1 DEF IsAnswer
<1>3. /\ m.req \in reqs /\ m.req.from = c /\ m.total = Chunks[m.req.url] /\ m.data \in Data
      /\ m.kind = "chunk" => m.data \in ChunksOf(m.req.url)
  BY <1>0, <1>1, <1>2 DEF AirOK, MessageOK
<1>4. m.req \in Request /\ m.total \in Nat /\ m.total # Unknown
  <2>1. m.req \in Request BY <1>0, <1>3 DEF ReqsOK
  <2>2. m.total \in Nat BY <1>3, <2>1, RequestType
  <2> QED BY <2>1, <2>2 DEF Unknown
<1>5. ClientOK(c) /\ cl \in Local /\ FileOK(cl) /\ cl.phase = "fetch" /\ Asked(cl) /\ cl.hook = "gateway"
      /\ cl.req \in reqs /\ cl.req.from = c
  <2>1. ClientOK(c) /\ cl.phase = "fetch" /\ cl \in Local BY <1>0 DEF ClientsOK
  <2>2. cl.hook \in {"original", "gateway"} BY <2>1 DEF Local
  <2> QED BY <2>1, <2>2 DEF ClientOK
<1>6. IdIsFresh(c) => m.req = cl.req BY <1>2, <1>3 DEF IdIsFresh
<1>7. CASE m.kind = "error"
  <2>1. PICK p \in {"http", "idle"} :
          client' = [client EXCEPT ![c] = Fresh("original", client[c].msgId, p)]
    BY <1>1, <1>7 DEF Fails
  <2> QED BY <1>0, <2>1, MsgIdType, FreshPreserves
<1>8. CASE m.kind \in {"chunk", "done"}
  <2>1. PICK new :
          /\ client' = [client EXCEPT ![c] = new]
          /\ FileOK(new) /\ new.req = cl.req /\ new.hook = cl.hook
          /\ new.phase \in {"fetch", "between"}
          /\ new.phase = "between" => new.total # Unknown /\ new.next >= new.total
          /\ new.total \in {cl.total, m.total}
          /\ IdIsFresh(c) => From(new, ChunksOf(cl.req.url))
    <3>0. IdIsFresh(c) => From(cl, ChunksOf(cl.req.url)) BY <1>5 DEF ClientOK
    <3>1. CASE m.kind = "chunk"
      <4> DEFINE new == TakeChunk(cl, m)
      <4>1. client' = [client EXCEPT ![c] = new] BY <1>0, <1>1, <3>1 DEF ClientsOK
      <4>2. /\ FileOK(new) /\ new.req = cl.req /\ new.hook = cl.hook /\ new.total = m.total
            /\ new.phase \in {"fetch", "between"}
            /\ new.phase = "between" => new.total # Unknown /\ new.next >= new.total
            /\ \A D : From(cl, D) /\ m.data \in D => From(new, D)
        BY <1>3, <1>4, <1>5, TakeChunkOK
      <4> HIDE DEF new, cl
      <4>3. IdIsFresh(c) => From(new, ChunksOf(cl.req.url)) BY <1>3, <1>6, <3>0, <3>1, <4>2
      <4> QED BY <4>1, <4>2, <4>3
    <3>2. CASE m.kind = "done"
      <4> DEFINE new == TakeDone(cl, m)
      <4>1. client' = [client EXCEPT ![c] = new] BY <1>0, <1>1, <3>2 DEF ClientsOK
      <4>2. /\ FileOK(new) /\ new.req = cl.req /\ new.hook = cl.hook /\ new.total \in {cl.total, m.total}
            /\ new.phase \in {"fetch", "between"}
            /\ new.phase = "between" => new.total # Unknown /\ new.next >= new.total
            /\ \A D : From(cl, D) => From(new, D)
        BY <1>4, <1>5, TakeDoneOK
      <4> HIDE DEF new, cl
      <4>3. IdIsFresh(c) => From(new, ChunksOf(cl.req.url)) BY <3>0, <4>2
      <4> QED BY <4>1, <4>2, <4>3
    <3> QED BY <1>8, <3>1, <3>2
  <2>2. client'[c] = new BY <1>0, <2>1 DEF ClientsOK
  <2>3. IdIsFresh(c)' => IdIsFresh(c) BY <1>0, <2>1, <2>2 DEF IdIsFresh
  <2>4. IdIsFresh(c) => new.total \in {Unknown, Chunks[cl.req.url]}
    <3>1. IdIsFresh(c) => cl.total \in {Unknown, Chunks[cl.req.url]} BY <1>5 DEF ClientOK
    <3>2. IdIsFresh(c) => m.total = Chunks[cl.req.url] BY <1>3, <1>6
    <3> QED BY <2>1, <3>1, <3>2
  <2>5. new \in Local BY <2>1 DEF FileOK
  <2>6. Asked(new) BY <1>5, <2>1 DEF Asked
  <2> HIDE DEF cl
  <2>7. ClientOK(c)'
    BY <1>0, <1>5, <2>1, <2>2, <2>3, <2>4, <2>6 DEF ClientOK
  <2>8. ClientsOK' BY <1>0, <2>1, <2>5, <2>7, OneClient
  <2> QED BY <1>0, <2>8 DEF MipInv, GatewaysOK, AirOK, ReqsOK, MessageOK
<1> QED BY <1>2, <1>7, <1>8

LEMMA AnswerOK ==
  ASSUME MipInv, NEW req \in reqs, NEW i \in Nat, NEW kind \in {"chunk", "done", "error"},
         kind = "chunk" => i < Chunks[req.url]
  PROVE  MessageOK(Answer(req, kind, i))
<1>1. req \in Request BY DEF MipInv, ReqsOK
<1>2. req.url \in Urls BY <1>1, RequestType
<1> DEFINE d == [url |-> req.url, index |-> i]
<1>3. d \in Data /\ d.url = req.url /\ d.index = i BY <1>2 DEF Data
<1>4. kind = "chunk" => d \in ChunksOf(req.url) BY <1>3 DEF ChunksOf
<1>5. Answer(req, kind, i) = [kind |-> kind, to |-> req.from, req |-> req, total |-> Chunks[req.url], data |-> d]
  BY DEF Answer
<1> HIDE DEF d
<1>6. /\ Answer(req, kind, i).kind = kind /\ Answer(req, kind, i).to = req.from
      /\ Answer(req, kind, i).req = req /\ Answer(req, kind, i).total = Chunks[req.url]
      /\ Answer(req, kind, i).data = d
  BY <1>5
<1> QED BY <1>3, <1>4, <1>6 DEF MessageOK

LEMMA GatewayPreserves ==
  ASSUME MipInv, NEW g \in Gateways, Accept(g) \/ SendChunk(g) \/ SendDone(g) \/ SendError(g)
  PROVE  MipInv'
<1>0. ClientsOK /\ GatewaysOK /\ AirOK /\ ReqsOK /\ UNCHANGED <<client, reqs>>
  BY DEF MipInv, Accept, SendChunk, SendDone, SendError
<1>1. ClientsOK' BY <1>0 DEF ClientsOK, ClientOK, IdIsFresh
<1>2. ReqsOK' BY <1>0 DEF ReqsOK
<1>3. gateway \in [Gateways -> [req : Request \cup {NoRequest}, index : Nat]]
      /\ (gateway[g].req # NoRequest => gateway[g].req \in reqs) /\ gateway[g].index \in Nat
  BY <1>0 DEF GatewaysOK
<1>4. CASE Accept(g)
  <2>1. PICK m \in air :
          m.kind = "request" /\ gateway' = [gateway EXCEPT ![g] = [req |-> m.req, index |-> 0]]
    BY <1>4 DEF Accept
  <2>2. m.req \in reqs /\ m.req \in Request BY <1>0, <2>1 DEF AirOK, MessageOK, ReqsOK
  <2>3. GatewaysOK' BY <1>0, <2>1, <2>2 DEF GatewaysOK
  <2>4. AirOK' BY <1>0, <1>4 DEF Accept, AirOK, MessageOK
  <2> QED BY <1>1, <1>2, <2>3, <2>4 DEF MipInv
<1>5. CASE SendChunk(g) \/ SendDone(g) \/ SendError(g)
  <2> DEFINE req == gateway[g].req
  <2>1. req \in reqs BY <1>3, <1>5 DEF SendChunk, SendDone, SendError
  <2>2. PICK a : MessageOK(a) /\ air' \in {air, air \cup {a}}
    <3>1. CASE SendChunk(g)
      <4>1. gateway[g].index < Chunks[req.url] /\ air' = air \cup {Answer(req, "chunk", gateway[g].index)}
        BY <3>1 DEF SendChunk
      <4>2. MessageOK(Answer(req, "chunk", gateway[g].index)) BY <1>3, <2>1, <4>1, AnswerOK
      <4> QED BY <4>1, <4>2
    <3>2. CASE SendDone(g)
      <4>1. MessageOK(Answer(req, "done", 0)) BY <2>1, AnswerOK
      <4> QED BY <3>2, <4>1 DEF SendDone
    <3>3. CASE SendError(g)
      <4>1. MessageOK(Answer(req, "error", 0)) BY <2>1, AnswerOK
      <4> QED BY <3>3, <4>1 DEF SendError
    <3> QED BY <1>5, <3>1, <3>2, <3>3
  <2>3. AirOK'
    <3>1. \A m \in air' : MessageOK(m) BY <1>0, <2>2 DEF AirOK
    <3> QED BY <1>0, <3>1 DEF AirOK, MessageOK
  <2>4. GatewaysOK'
    <3>1. CASE SendChunk(g) BY <1>0, <1>3, <3>1 DEF SendChunk, GatewaysOK
    <3>2. CASE SendDone(g) \/ SendError(g)
      <4>1. gateway' = [gateway EXCEPT ![g] = [req |-> NoRequest, index |-> 0]]
        BY <3>2 DEF SendDone, SendError
      <4> QED BY <1>0, <4>1 DEF GatewaysOK
    <3> QED BY <1>5, <3>1, <3>2
  <2> QED BY <1>1, <1>2, <2>3, <2>4 DEF MipInv
<1> QED BY <1>4, <1>5

LEMMA InitHolds == Init => MipInv
<1> SUFFICES ASSUME Init PROVE MipInv
  OBVIOUS
<1>1. 0 \in 0 .. IdMod - 1 BY MipAssumption
<1>2. ASSUME NEW c \in Clients PROVE ClientOK(c) /\ client[c] \in Local
  <2>1. client[c] = Fresh("original", 0, "idle") BY DEF Init
  <2>2. /\ FileOK(client[c]) /\ client[c] \in Local /\ ~Asked(client[c])
        /\ client[c].hook = "original" /\ client[c].phase = "idle"
    BY <1>1, <2>1, FreshOK
  <2> QED BY <2>2 DEF ClientOK
<1>3. ClientsOK BY <1>2 DEF ClientsOK, Init
<1>4. GatewaysOK BY DEF GatewaysOK, Init
<1>5. AirOK /\ ReqsOK BY FS_EmptySet DEF AirOK, ReqsOK, Init
<1> QED BY <1>3, <1>4, <1>5 DEF MipInv

LEMMA StepPreserves == MipInv /\ [Next]_vars => MipInv'
<1> SUFFICES ASSUME MipInv, [Next]_vars PROVE MipInv'
  OBVIOUS
<1>1. ASSUME NEW c \in Clients, Install(c) \/ Fetch(c) \/ Timeout(c) \/ InstallEnd(c) \/ Receive(c)
      PROVE  MipInv'
  BY <1>1, EndsPreserve, FetchPreserves, ReceivePreserves
<1>2. ASSUME NEW g \in Gateways, Accept(g) \/ SendChunk(g) \/ SendDone(g) \/ SendError(g)
      PROVE  MipInv'
  BY <1>2, GatewayPreserves
<1>3. CASE UNCHANGED vars
  BY <1>3 DEF vars, MipInv, ClientsOK, ClientOK, IdIsFresh, GatewaysOK, AirOK, MessageOK, ReqsOK
<1> QED BY <1>1, <1>2, <1>3 DEF Next

LEMMA Invariance == Spec => []MipInv
<1> QED BY InitHolds, StepPreserves, PTL DEF Spec

-----------------------------------------------------------------------------
\* Clients, gateways and requests keep to their types; a request id is never zero
\* and wraps within its width (_next_message_id, fetch_to_file).
THEOREM TypeCorrect == Spec => []TypeOK
<1>1. MipInv => TypeOK BY DEF MipInv, ClientsOK, GatewaysOK, ReqsOK, TypeOK, Local
<1> QED BY Invariance, <1>1, PTL

\* Whatever arrives in whatever order, from however many gateways, a file holds
\* its chunks from the first one on, each once, and mip's download function is
\* replaced only while install is at work (fetch_to_file, install).
THEOREM InOrder == Spec => []WrittenInOrder
<1>1. MipInv => WrittenInOrder
  <2> SUFFICES ASSUME MipInv, NEW c \in Clients
               PROVE  /\ \A i \in DOMAIN client[c].written : client[c].written[i].index = i - 1
                      /\ Len(client[c].written) = client[c].next
                      /\ client[c].phase \in {"idle", "http"} <=> client[c].hook = "original"
    BY DEF WrittenInOrder
  <2>1. ClientOK(c) /\ client[c] \in Local BY DEF MipInv, ClientsOK
  <2>2. client[c].written \in Seq(Data) BY <2>1 DEF Local
  <2>3. DOMAIN client[c].written = 1 .. Len(client[c].written) BY <2>2
  <2> QED BY <2>1, <2>3 DEF ClientOK, FileOK
<1> QED BY Invariance, <1>1, PTL

\* A fetch that returns True under a fresh id wrote the very file it asked for
\* (fetch_to_file).
THEOREM FetchIsRight == Spec => []FetchedRight
<1>1. MipInv => FetchedRight
  <2> SUFFICES ASSUME MipInv, NEW c \in Clients, Got(c), IdIsFresh(c)
               PROVE  client[c].written = Content(client[c].req.url)
    BY DEF FetchedRight
  <2> DEFINE cl == client[c]
  <2> DEFINE url == cl.req.url
  <2>1. ClientOK(c) /\ cl \in Local /\ cl.phase = "between" /\ Asked(cl) BY DEF MipInv, ClientsOK, Got, Asked
  <2>2. FileOK(cl) /\ cl.req \in Request /\ cl.total # Unknown /\ cl.next >= cl.total
        /\ From(cl, ChunksOf(url)) /\ cl.total \in {Unknown, Chunks[url]}
    BY <2>1 DEF ClientOK, MipInv, ReqsOK
  <2>3. cl.total = Chunks[url] /\ Chunks[url] \in Nat BY <2>2, RequestType
  <2>4. cl.written \in Seq(Data) /\ cl.next \in Nat /\ Len(cl.written) = cl.next
    BY <2>1, <2>2 DEF Local, FileOK
  <2> HIDE DEF cl, url
  <2>5. ASSUME NEW i \in 1 .. Len(cl.written)
        PROVE  cl.written[i] = [url |-> url, index |-> i - 1] /\ i - 1 < Chunks[url]
    <3>1. cl.written[i] \in ChunksOf(url) /\ cl.written[i].index = i - 1 BY <2>2 DEF From, FileOK
    <3>2. cl.written[i] \in Data /\ cl.written[i].url = url /\ cl.written[i].index < Chunks[url]
      BY <3>1 DEF ChunksOf
    <3> QED BY <3>1, <3>2 DEF Data
  <2>6. Len(cl.written) = Chunks[url]
    <3> DEFINE L == Len(cl.written)
    <3> DEFINE N == Chunks[url]
    <3>1. L \in Nat /\ N \in Nat /\ L >= N BY <2>2, <2>3, <2>4
    <3>2. L # 0 => L - 1 < N
      <4>1. L # 0 => L \in 1 .. L BY <3>1
      <4> QED BY <2>5, <4>1
    <3> HIDE DEF L, N
    <3>3. L = N BY <3>1, <3>2
    <3> QED BY <3>3 DEF L, N
  <2>7. cl.written = [i \in 1 .. Chunks[url] |-> [url |-> url, index |-> i - 1]]
    <3> DEFINE C == [i \in 1 .. Chunks[url] |-> [url |-> url, index |-> i - 1]]
    <3>1. cl.written = [i \in 1 .. Len(cl.written) |-> cl.written[i]] BY <2>4
    <3>2. [i \in 1 .. Len(cl.written) |-> cl.written[i]] = C BY <2>5, <2>6
    <3> QED BY <3>1, <3>2
  <2> QED BY <2>7 DEF Content, cl, url
<1> QED BY Invariance, <1>1, PTL
=============================================================================
