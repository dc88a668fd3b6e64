--------------------------- MODULE MCInterpreter ---------------------------
(***************************************************************************)
(* Statements for programs of a few lines.                                 *)
(***************************************************************************)
EXTENDS Meaning

MCFor(v, from, to, step) == [op |-> "for", var |-> v, from |-> from, to |-> to, step |-> step]
MCNext(v)   == [op |-> "next", var |-> v]
MCGoto(n)   == [op |-> "goto", target |-> n]
MCGosub(n)  == [op |-> "gosub", target |-> n]
MCOn(ns, g) == [op |-> "on", targets |-> ns, gosub |-> g]
MCIf(s)     == [op |-> "if", then |-> s]
MCPlain(o)  == [op |-> o]

MCLine(n, s) == [number |-> n, stmt |-> s]

(* Three lines: a program seldom starts with NEXT or RETURN, or ends with  *)
(* FOR.                                                                    *)
FlowBack == {MCNext("I"), MCPlain("return")}
FlowFor  == {MCFor("I", 1, 2, 1), MCFor("J", 1, 0, 1)}
FlowJump == {MCIf(MCGoto(0)), MCGosub(2)}
FlowRun  == {MCIf(MCPlain("run")), NoText}
FlowCommands == {MCPlain("run"), MCPlain("load"), MCPlain("clr"), MCPlain("dos")}
FlowTyped ==
  [number : {0, 1}, stmt : FlowFor \cup FlowJump \cup FlowRun] \cup [number : {1}, stmt : FlowBack]
    \cup [number : {2}, stmt : FlowBack \cup FlowJump \cup {NoText}]
FlowFiles ==
  {<<MCLine(2, MCNext("I")), MCLine(2, MCPlain("return")), MCLine(1, MCGosub(2)), MCLine(2, NoText),
     MCLine(0, MCNext("I"))>>}
(* Four lines with loops on two variables, in any order.                   *)
LoopStmts == {MCFor("I", 1, 2, 1), MCFor("J", 2, 1, -1), MCNext("I"), MCNext("J"), MCNext("none")}
LoopPrograms == {[i \in 1..4 |-> MCLine(i, p[i])] : p \in [1..4 -> LoopStmts]}

(* Assignments, written from trees.                                        *)
MCLet(target, tree) ==
  [op |-> "let", into |-> <<target>>, tree |-> tree,
   text |-> Written(target, 8) \o <<"=">> \o Written(tree, 1)]
MCText(str) == [op |-> "let", text |-> Chars(str)]
MCRead(targets) ==
  [op |-> "read", into |-> targets,
   text |-> Chars("READ ") \o FoldLeft(LAMBDA cs, t : cs \o Written(t, 8) \o <<",">>, <<>>, targets)]
MCSpoilt(targets) ==
  [op |-> "read", into |-> <<Nowhere>>, text |-> Append(MCRead(targets).text, "?")]
MCData(str) == [op |-> "data", text |-> Chars(str)]

I == Variable("I")
J == Variable("J")
Pairs == <<"OR", "AND", "=", "<=", "+", "-", "*", "/", "MOD">>
Singles == <<"NOT", "neg", "ABS">>
(* Programs that compute what tree makes of each of some operators.        *)
LetProgram(ops, tree(_)) ==
  <<MCLine(1, MCText("I=6")), MCLine(2, MCText("J = 3"))>> \o
  [k \in DOMAIN ops |-> MCLine(k + 2, MCLet(Variable("X"), tree(ops[k])))]
LetPrograms ==
  {LetProgram(Pairs, LAMBDA p : Node(o, <<Node(p, <<NumberOf(12), I>>), J>>)) : o \in ToSet(Pairs)}
    \cup {LetProgram(Pairs, LAMBDA p : Node(o, <<NumberOf(12), Node(p, <<I, J>>)>>)) : o \in ToSet(Pairs)}
    \cup {LetProgram(Pairs, LAMBDA p : Node(p, <<Node(o, <<J>>), I>>)) : o \in ToSet(Singles)}
    \cup {LetProgram(Pairs, LAMBDA p : Node(p, <<J, Node(o, <<I>>)>>)) : o \in ToSet(Singles)}
    \cup {LetProgram(Pairs \o <<"<>", "<", ">", ">=", "%">>, LAMBDA p : Node(o, <<Node(p, <<J, I>>)>>)) :
             o \in ToSet(Singles)}
    \cup {LetProgram(Singles, LAMBDA p : Node(o, <<Node(p, <<J>>)>>)) : o \in ToSet(Singles)}

A(i, j) == Element("A", <<i, j>>)
MemoryPrograms ==
  {<<MCLine(1, MCText("DIM AREA(2, 3)")), MCLine(2, MCLet(A(NumberOf(1), NumberOf(0)), NumberOf(5))),
     MCLine(3, MCLet(A(NumberOf(0), NumberOf(2)), Node("+", <<A(NumberOf(1), NumberOf(0)), NumberOf(2)>>))),
     MCLine(4, MCLet(A(NumberOf(1), Variable("TOTAL")), NumberOf(4))),
     MCLine(5, MCLet(Variable("TOTAL"), Node("*", <<A(I, Node("-", <<NumberOf(2), I>>)), NumberOf(3)>>))),
     MCLine(6, MCLet(A(NumberOf(1), Variable("TOTAL")), NumberOf(1)))>>,
   <<MCLine(1, MCText("DIM S$(9)")), MCLine(2, MCText("DIM V(3)")),
     MCLine(3, MCData("DATA 1, \"AB\", -7 2, 5")),
     MCLine(4, MCRead(<<I, StringOf("S"), Element("V", <<I>>)>>)),
     MCLine(5, MCLet(Variable("SUM"), Node("-", <<Length("S"), Element("V", <<Length("S")>>)>>))),
     MCLine(6, MCLet(StringOf("S"), [op |-> "text", args |-> <<>>, of |-> Chars("OUT OF")])),
     MCLine(7, MCRead(<<Element("V", <<Node("-", <<Length("S"), NumberOf(4)>>)>>), StringOf("S")>>))>>,
   <<MCLine(1, MCText("DIM V(101)")), MCLine(2, MCPlain("other"))>>,
   <<MCLine(1, MCText("DIM V(2)")), MCLine(2, MCText("DIM V(3)"))>>,
   <<MCLine(1, MCData("DATA 1, 2")), MCLine(2, MCSpoilt(<<I, J>>))>>,
   <<MCLine(1, MCLet(StringOf("S"), [op |-> "text", args |-> <<>>, of |-> Chars("A")])), MCLine(2, MCText("I=I?1"))>>}

(* Every other statement.                                                  *)
OtherPrograms ==
  {<<MCLine(1, MCData("DATA 1,2")), MCLine(2, MCRead(<<I, J>>)), MCLine(3, MCPlain("restore")),
     MCLine(4, MCIf(MCGoto(2)))>>,
   <<MCLine(1, MCRead(<<I, J>>)), MCLine(2, MCIf(MCGoto(1))), MCLine(3, MCData("DATA 1,0,2,\"A\""))>>,
   <<MCLine(1, MCGosub(3)), MCLine(2, MCGoto(1)), MCLine(3, MCIf(MCPlain("end"))), MCLine(4, MCPlain("return"))>>,
   <<MCLine(1, MCOn({2, 3}, TRUE)), MCLine(2, MCOn({1, 4}, FALSE)), MCLine(3, MCPlain("return"))>>,
   <<MCLine(1, MCFor("I", 1, 2, 1)), MCLine(2, MCIf(MCPlain("pause"))), MCLine(3, MCIf(MCPlain("load"))),
     MCLine(4, MCNext("I"))>>,
   <<MCLine(1, [op |-> "input", var |-> "I"]), MCLine(2, MCText("J=1-I")), MCLine(3, MCIf(MCGoto(1))),
     MCLine(4, MCPlain("bad"))>>,
   <<MCLine(1, MCFor("I", 1, 0, 0)), MCLine(2, MCIf(MCPlain("clr"))), MCLine(3, MCNext("I"))>>,
   <<MCLine(1, MCIf(MCPlain("dos"))), MCLine(2, MCIf(MCPlain("edit"))), MCLine(3, MCPlain("format")),
     MCLine(4, MCIf(MCPlain("quit"))), MCLine(5, MCGoto(1))>>}
LoopAutorun == LoopPrograms \cup OtherPrograms \cup LetPrograms \cup MemoryPrograms
LoopFiles == {<<MCLine(1, MCPlain("other")), MCLine(3, MCGoto(1)), MCLine(2, MCPlain("other"))>>, <<>>}
LoopTyped == {MCLine(0, NoText), MCLine(0, MCPlain("other"))}
LoopCommands == {MCPlain("run"), MCPlain("load"), MCPlain("clr"), MCPlain("pause"), MCNext("none")}
=============================================================================
