----------------------------- MODULE MCIrEngine -----------------------------
(* Workflows for model checking IrEngine.  Every text of one or two rules   *)
(* from small sets is compiled; a few are run, and so are graphs by hand    *)
(* that use the nodes the compiler never makes.                             *)
EXTENDS IrEngine

Text(body) == [text |-> body]
ByHand(body) == [graph |-> body]
Id(words) == [words |-> words, dashed |-> FALSE]

\* The lines of a rule: some without ON, START, or with an END before STOP.
RuleText(id, until, rest) ==
  <<Line("RULE", <<id>>), Line("ON", <<"go", "now">>), Line("START", <<"a">>)>> \o until \o rest
Untils == << << >>, <<Line("UNTIL", <<"ON", "done", "now">>)>>,
             <<Line("UNTIL", <<"ON", "done">>), Line("UNTIL", <<"TIMEOUT", 2>>)>>,
             <<Line("UNTIL", <<"ON", "Bad">>)>>, <<Line("UNTIL", <<"TIMEOUT", 0>>)>> >>
Rests == << << >>, <<Line("STOP", <<"b">>), Line("STOP", <<"c">>)>>, <<Line("START", <<"b", BadArg>>)>>,
            <<Line("TIMEOUT", <<"c">>), Line("END", << >>)>>, <<Line("END", << >>), Line("STOP", <<"b">>)>> >>
RuleIds == <<Id(<<"r">>), Id(<<"r", "wait">>), Id(<<"r", "b">>), [words |-> <<"r", "b">>, dashed |-> TRUE]>>

\* The k-th rule, of all combinations of an id, an UNTIL and a rest.
RuleTexts ==
  [k \in 1 .. 100 |->
     RuleText(RuleIds[(k - 1) \div 25 + 1], Untils[(((k - 1) \div 5) % 5) + 1], Rests[((k - 1) % 5) + 1])]
OneRule == [k \in 1 .. 100 |-> Text(<<Line("VERSION", <<"1">>)>> \o RuleTexts[k])]
TwoRulesOf == [k \in 1 .. 1000 |-> Text(RuleTexts[(k - 1) \div 100 + 1] \o RuleTexts[((k - 1) % 100) + 1])]
NotARule ==
  <<Text(<<Line("VERSION", <<"2">>)>> \o RuleTexts[1]),
    Text(<<Line("RULE", <<Id(<<"r">>)>>), Line("ON", <<"go">>)>>),
    Text(<<Line("ACTOR", <<"robot">>)>>), Text(<<Line("ON", <<"go">>)>>)>>

\* Run: two rules that share an event.
TwoRules ==
  Text(<<Line("RULE", <<Id(<<"r">>)>>), Line("ON", <<"go">>), Line("START", <<"a">>),
         Line("UNTIL", <<"ON", "done">>), Line("UNTIL", <<"TIMEOUT", 2>>),
         Line("RULE", <<Id(<<"s">>)>>), Line("ON", <<"go">>), Line("START", <<"b">>),
         Line("UNTIL", <<"ON", "go">>), Line("END", << >>)>>)

\* Run: rules given as data, with two timeouts of different priority.
Prioritised ==
  [rules |->
     [NoText EXCEPT !.rules =
     <<[NewRule(Id(<<"r">>)) EXCEPT
          !.on = <<"go">>, !.start = <<"a">>,
          !.until = <<TimeoutCond(1, 0), TimeoutCond(2, 5), OnCond("go", 0), OnCond("go", 1)>>]>>]]

\* Run: the second branch waits for what the first one has published.
Forked ==
  LET n(w) == <<w>>
      ok(w) == <<Transition("ok", n(w))>>
  IN ByHand(Graph(n("start"), << >>,
       <<WaitEventNode(n("start"), <<"go">>, ok("fork")),
         ParallelNode(n("fork"), <<n("tell"), n("wait")>>, n("last")),
         EmitNode(n("tell"), "done", ok("end")),
         WaitMultiNode(n("wait"), <<EventOption("done", n("end"), 0), TimeoutOption(1, n("end"), 0)>>),
         ActionNode(n("last"), "a", <<Transition("ok", n("end")), Transition("default", n("start"))>>),
         EndNode(n("end"))>>))

\* Compiled only: graphs that validation refuses, and a wait for nothing.
WithNode(node) == ByHand(Graph(<<"x">>, <<<<"x">>>>, <<node, EndNode(<<"e">>)>>))
HandGraphs ==
  <<WithNode(WaitMultiNode(<<"x">>, << >>)), WithNode(EndNode(<<"e">>)),
   WithNode(WaitMultiNode(<<"x">>, <<TimeoutOption(1, <<"y">>, 0)>>)),
   WithNode(ParallelNode(<<"x">>, <<<<"e">>>>, <<"y">>)), WithNode(EmitNode(<<"x">>, "Bad", << >>))>>
NoNames == WithNode(WaitEventNode(<<"x">>, << >>, << >>))
NoTarget == WithNode(WaitMultiNode(<<"x">>, <<TimeoutOption(1, <<"y">>, 0)>>))

\* Run twice: what waits across a stop goes on when the engine runs again.
Again ==
  ByHand(Graph(<<"x">>, << >>,
    <<WaitEventNode(<<"x">>, <<"go", "done">>, <<Transition("ok", <<"y">>)>>),
      ActionNode(<<"y">>, "a", <<Transition("ok", <<"e">>)>>), EndNode(<<"e">>)>>))

ToRun == <<TwoRules, Prioritised, Forked, Again, NoNames, NoTarget>>
MCSources == ToRun \o HandGraphs \o NotARule \o OneRule \o TwoRulesOf
MCCalls ==
  [i \in DOMAIN MCSources |->
     [runs |-> CASE i > Len(ToRun) -> 0 [] i = 4 -> 2 [] OTHER -> 1,
      publish |-> CASE i > Len(ToRun) -> 0 [] i \in {1, 4} -> 2 [] OTHER -> 3]]
=============================================================================
