------------------------------ MODULE DslToIr ------------------------------
(***************************************************************************)
(* From a workflow's text to its graph: the line parser of                 *)
(* dsl_implementation_example.py and the compiler dsl_to_ir.py.            *)
(*                                                                         *)
(* A line is its keyword and the words after it; an id in a line is the    *)
(* sequence of its words and whether they are joined with "-" or "_".  All *)
(* errors are ValueErrors and are not told apart.                          *)
(***************************************************************************)
EXTENDS ExecutionIr, TLC

Line(keyword, payload) == [keyword |-> keyword, payload |-> payload]
Blank == ""
BadArg == "not key=value"

NewRule(id) == [id |-> id, on |-> << >>, start |-> << >>, until |-> << >>,
                stop |-> << >>, timeout |-> << >>]
OnCond(event, priority) == [kind |-> "on", event |-> event, priority |-> priority]
TimeoutCond(ms, priority) == [kind |-> "timeout", ms |-> ms, priority |-> priority]

\* What split makes of a text, and the lists and numbers of rules given as data.
TypedText(text) == IsList(text) /\ \A i \in DOMAIN text : IsList(text[i].payload)
TypedRule(rule) ==
  /\ IsList(rule.on) /\ IsList(rule.start) /\ IsList(rule.stop) /\ IsList(rule.timeout)
  /\ IsList(rule.until) /\ \A i \in DOMAIN rule.until : rule.until[i].priority \in Int
TypedRules(dsl) == IsList(dsl.rules) /\ \A i \in DOMAIN dsl.rules : TypedRule(dsl.rules[i])

-----------------------------------------------------------------------------
(* parse_dsl                                                               *)

NoText == [failed |-> FALSE, version |-> "1", rules |-> << >>, inRule |-> FALSE]
Failed == [NoText EXCEPT !.failed = TRUE]

\* A change of current_rule, which is the last rule until END closes it.
SetRule(root, rule) == [root EXCEPT !.rules = Append(Front(@), rule)]

\* START, STOP and TIMEOUT append an action; its arguments must be key=value.
AppendAction(root, block, payload) ==
  IF payload = << >> \/ BadArg \in Range(Tail(payload)) THEN Failed
  ELSE SetRule(root, [Last(root.rules) EXCEPT ![block] = Append(@, Head(payload))])

ParseUntil(root, payload) ==
  LET rule == Last(root.rules)
  IN CASE Len(payload) >= 2 /\ Head(payload) = "ON" ->
            SetRule(root, [rule EXCEPT !.until = Append(@, OnCond(payload[2], 0))])
       [] Len(payload) = 2 /\ Head(payload) = "TIMEOUT" ->
            SetRule(root, [rule EXCEPT !.until = Append(@, TimeoutCond(payload[2], 0))])
       [] OTHER -> Failed

\* The lines allowed before a rule, and those that need one.
ParseHeader(root, line) ==
  CASE line.keyword = "END" -> [root EXCEPT !.inRule = FALSE]
    [] line.keyword = "RULE" /\ line.payload # << >> ->
         [root EXCEPT !.rules = Append(@, NewRule(Head(line.payload))), !.inRule = TRUE]
    [] line.keyword = "VERSION" /\ line.payload # << >> ->
         [root EXCEPT !.version = Head(line.payload)]
    [] line.keyword = "ACTOR" /\ line.payload # << >> -> root
    [] OTHER -> Failed

ParseInRule(root, line) ==
  CASE line.keyword = "ON" /\ line.payload # << >> ->
         SetRule(root, [Last(root.rules) EXCEPT !.on = line.payload])
    [] line.keyword = "START"   -> AppendAction(root, "start", line.payload)
    [] line.keyword = "STOP"    -> AppendAction(root, "stop", line.payload)
    [] line.keyword = "TIMEOUT" -> AppendAction(root, "timeout", line.payload)
    [] line.keyword = "UNTIL"   -> ParseUntil(root, line.payload)
    [] OTHER -> Failed

ParseLine(root, line) ==
  CASE root.failed -> root
    [] ~root.failed /\ line.keyword \in {"VERSION", "ACTOR", "RULE", "END"} -> ParseHeader(root, line)
    [] OTHER -> IF root.inRule THEN ParseInRule(root, line) ELSE Failed

ParseDsl(text) ==
  LET root[k \in 0 .. Len(text)] == IF k = 0 THEN NoText ELSE ParseLine(root[k - 1], text[k])
      parsed == root[Len(text)]
  IN IF parsed.rules = << >> THEN Failed ELSE parsed

-----------------------------------------------------------------------------
(* compile_dsl_to_ir                                                       *)

\* "-" and "_" both become "_", so only the words are left.
Prefix(rule) == rule.id.words

\* The ids of a chain of n actions; the first one of the stop and timeout chains
\* has no number.
StartIds(prefix, n) == [i \in 1 .. n |-> prefix \o <<"start", "action", ToString(i - 1)>>]
ChainIds(prefix, name, n) ==
  [i \in 1 .. n |-> prefix \o (IF i = 1 THEN <<name>> ELSE <<name, ToString(i - 1)>>)]

OrDefault(actions) == IF actions = << >> THEN <<"stepper.stop">> ELSE actions

\* _compile_until; a rule without conditions stops after ten seconds.
DefaultMs == 10000
CompileUntil(prefix, conds) ==
  IF conds = << >> THEN <<TimeoutOption(DefaultMs, prefix \o <<"timeout">>, 1)>>
  ELSE [i \in DOMAIN conds |->
          IF conds[i].kind = "on"
            THEN EventOption(conds[i].event, prefix \o <<"stop">>, conds[i].priority)
            ELSE TimeoutOption(conds[i].ms, prefix \o <<"timeout">>, conds[i].priority)]

\* A chain of actions, each one followed by the next, the last one by exit.
Chain(ids, actions, exit) ==
  [i \in DOMAIN actions |->
     ActionNode(ids[i], actions[i], <<Transition("ok", Append(ids, exit)[i + 1])>>)]

CompileRule(rule) ==
  LET p == Prefix(rule)
      stop == OrDefault(rule.stop)
      timeout == OrDefault(rule.timeout)
      done == p \o <<"done">>
      start == StartIds(p, Len(rule.start))
  IN <<WaitEventNode(p \o <<"wait", "start">>, rule.on, <<Transition("ok", start[1])>>)>>
     \o Chain(start, rule.start, p \o <<"wait", "stop">>)
     \o <<WaitMultiNode(p \o <<"wait", "stop">>, CompileUntil(p, rule.until))>>
     \o Chain(ChainIds(p, "stop", Len(stop)), stop, done)
     \o Chain(ChainIds(p, "timeout", Len(timeout)), timeout, done)
     \o <<EndNode(done)>>

\* What compile_rule and the helpers it calls refuse of a rule.
RuleCompiles(rule) ==
  /\ rule.id.words # << >>
  /\ rule.on # << >> /\ rule.start # << >>
  /\ Blank \notin Range(rule.start) \cup Range(rule.stop) \cup Range(rule.timeout)
  /\ \A c \in Range(rule.until) : c.kind \in {"on", "timeout"}

CompileDslToIr(dsl) ==
  IF /\ ~dsl.failed
     /\ dsl.version \in {"1", "1.0", "1.0.0"}
     /\ dsl.rules # << >>
     /\ \A rule \in Range(dsl.rules) : RuleCompiles(rule)
    THEN LET entries == [i \in DOMAIN dsl.rules |-> Prefix(dsl.rules[i]) \o <<"wait", "start">>]
             nodes == FlattenSeq([i \in DOMAIN dsl.rules |-> CompileRule(dsl.rules[i])])
         IN ValidateExecutionIr(Graph(entries[1], entries, nodes))
    ELSE Rejected
=============================================================================
