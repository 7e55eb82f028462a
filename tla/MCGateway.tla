----------------------------- MODULE MCGateway -----------------------------
(* What one node sends, and payloads of others that the codec refuses.      *)
EXTENDS Gateway

Service(id) == Obj([sid |-> id])
Nameless == Obj([x |-> Num(1)])

\* An advertisement that announces less than the profile, a query, and what the
\* encoders refuse: no service, too many, ids and names out of range.
Sends ==
  {EncodeAdvertise("n1", "h2", <<Num(1)>>), EncodeAdvertise("n1", "h2", << >>),
   EncodeAdvertise("n1", "h2", <<Num(1), Num(1), Num(2)>>), EncodeAdvertise("", "h2", <<Num(1)>>),
   EncodeProfile("n1", "h1", <<Service(Num(1)), Service(Num(2))>>),
   EncodeProfile("n1", "h1", <<Service(Num(65536))>>), EncodeQuery("n1", Num(-1)),
   EncodeQueryResult("n1", Num(1), <<Str("")>>), EncodeGetProfile("n1", "")}

Foreign ==
  {NotJson, Str("a"), Obj([v |-> Num(1)]), Obj([v |-> Num(2), t |-> Str("a"), n |-> Str("n1")]),
   Obj(Header("x", "n1")), Obj(Header("i", "n1")), Obj(Header("g", "n1")),
   Obj(Header("p", "n1") @@ [h |-> Str("h1"), s |-> Arr(<<Num(1)>>)]),
   Obj(Header("p", "n1") @@ [h |-> Str("h1"), s |-> Arr(<<Service(Num(2)), Nameless>>)])}

MCPayloads == (Sends \ {NotSent}) \cup Foreign
=============================================================================
