------------------------------ MODULE Meaning ------------------------------
(***************************************************************************)
(* What BASIC's expressions mean, told from the expression as a tree: the  *)
(* operators' usual precedence, grouping to the left, and arrays whose     *)
(* elements do not touch one another.                                      *)
(*                                                                         *)
(* A tree is a record of                                                   *)
(*   op    an operator, "NOT", "neg", "ABS", "LEN", "number", "text",      *)
(*         "variable", "element" or "string"                               *)
(*   args  a sequence of trees: the operands or the subscripts             *)
(*   of    a number, or characters: a name or a text                       *)
(* A statement that has "into"    also has the trees it was written from.  *)
(***************************************************************************)
EXTENDS Listing

Chars(str) == [i \in 1..Len(str) |-> SubSeq(str, i, i)]

Node(op, args)       == [op |-> op, args |-> args, of |-> 0]
NumberOf(n)          == [op |-> "number", args |-> <<>>, of |-> n]
Variable(name)       == [op |-> "variable", args |-> <<>>, of |-> Chars(name)]
Element(name, args)  == [op |-> "element", args |-> args, of |-> Chars(name)]
StringOf(name)       == [op |-> "string", args |-> <<>>, of |-> Chars(name)]
Length(name)         == [op |-> "LEN", args |-> <<>>, of |-> Chars(name)]

----------------------------------------------------------------------------
(* A tree as a person writes it, with the parentheses it needs.            *)

Rank(op) ==
  CASE op = "OR" -> 1
    [] op = "AND" -> 2
    [] op = "NOT" -> 3
    [] op \in {"=", "<>", "<", ">", "<=", ">="} -> 4
    [] op \in {"+", "-"} -> 5
    [] op \in {"*", "/", "%", "MOD"} -> 6
    [] op = "neg" -> 7
    [] OTHER -> 8

(* Words stand apart.                                                      *)
Sign(op) == IF op \in {"OR", "AND", "NOT", "MOD"} THEN <<" ">> \o Chars(op) \o <<" ">> ELSE Chars(op)

RECURSIVE Written(_, _)
Written(t, rank) ==
  LET r    == Rank(t.op)
      list == FoldLeft(LAMBDA cs, a : cs \o (IF cs = <<>> THEN <<>> ELSE <<",", " ">>) \o Written(a, 1),
                       <<>>, t.args)
      bare == CASE t.op = "number"   -> format_u64(t.of)
                [] t.op = "variable" -> t.of
                [] t.op = "string"   -> t.of \o <<"$">>
                [] t.op = "text"     -> <<"\"">> \o t.of \o <<"\"">>
                [] t.op = "element"  -> t.of \o <<"(">> \o list \o <<")">>
                [] t.op = "LEN"      -> Chars("LEN(") \o t.of \o Chars("$)")
                [] t.op = "ABS"      -> Chars("ABS (") \o list \o <<")">>
                [] t.op = "neg"      -> <<"-">> \o Written(t.args[1], 8)
                [] t.op = "NOT"      -> Sign("NOT") \o Written(t.args[1], 4)
                [] OTHER -> Written(t.args[1], IF r = 4 THEN 5 ELSE r) \o Sign(t.op) \o Written(t.args[2], r + 1)
  IN  IF r < rank THEN <<"(">> \o bare \o <<")">> ELSE bare

----------------------------------------------------------------------------
(* A program's memory as its writer sees it: no element is another.        *)

Places(a) == (0 .. a.dim1 - 1) \X (IF a.dim2 > 0 THEN 0 .. a.dim2 - 1 ELSE {0})

Memory(m) ==
  [vars |-> m.vars, named |-> m.named, strings |-> m.strings,
   arrays |-> [name \in DOMAIN m.arrays |->
                 [p \in Places(m.arrays[name]) |-> array_get(m, name, p[1], p[2])]]]

(* A meaning: a value; an error; or open, where numbers are left out.      *)
Known(val) == [is |-> "value", val |-> val]
Wrong == [is |-> "error", val |-> 0]
Open == [is |-> "open", val |-> 0]

Size(n) == IF n < 0 THEN -n ELSE n

Divided(a, b) ==
  IF b = 0 THEN Wrong
  ELSE IF \E q \in -Size(a) .. Size(a) : q * b = a THEN Known(CHOOSE q \in -Size(a) .. Size(a) : q * b = a)
  ELSE Open

Remainder(a, b) ==
  IF b = 0 THEN Wrong
  ELSE Known(CHOOSE r \in 1 - Size(b) .. Size(b) - 1 : (a - r) % Size(b) = 0 /\ r * a >= 0 /\ Size(r) <= Size(a))

Combined(op, a, b) ==
  CASE op = "OR"  -> Known(Truth(a # 0 \/ b # 0))
    [] op = "AND" -> Known(Truth(~(a = 0 \/ b = 0)))
    [] op = "="   -> Known(Truth(a = b))
    [] op = "<>"  -> Known(Truth(a # b))
    [] op = "<"   -> Known(Truth(a < b))
    [] op = ">"   -> Known(Truth(b < a))
    [] op = "<="  -> Known(Truth(~(b < a)))
    [] op = ">="  -> Known(Truth(~(a < b)))
    [] op = "+"   -> Known(a + b)
    [] op = "-"   -> Known(a - b)
    [] op = "*"   -> Known(a * b)
    [] op = "/"   -> Divided(a, b)
    [] op \in {"%", "MOD"} -> Remainder(a, b)
    [] op = "NOT" -> Known(Truth(a = 0))
    [] op = "neg" -> Known(-a)
    [] op = "ABS" -> Known(Size(a))

(* The place subscripts name.                                              *)
Place(args) == <<args[1].val, IF Len(args) = 2 THEN args[2].val ELSE 0>>

RECURSIVE Meaning(_, _)
Meaning(t, mem) ==
  LET args == [i \in DOMAIN t.args |-> Meaning(t.args[i], mem)]
  IN  IF \E i \in DOMAIN args : args[i].is = "open" THEN Open
      ELSE IF \E i \in DOMAIN args : args[i].is = "error" THEN Wrong ELSE
      CASE t.op \in {"number", "text"} -> Known(t.of)
        [] t.op = "variable" ->
             IF Len(t.of) = 1 THEN Known(mem.vars[t.of[1]])
             ELSE Known(IF t.of \in DOMAIN mem.named THEN mem.named[t.of] ELSE 0)
        [] t.op = "element"  ->
             IF t.of[1] \in DOMAIN mem.arrays /\ Place(args) \in DOMAIN mem.arrays[t.of[1]]
             THEN Known(mem.arrays[t.of[1]][Place(args)]) ELSE Wrong
        [] t.op = "LEN"      -> Known(IF t.of[1] \in DOMAIN mem.strings THEN Len(mem.strings[t.of[1]]) ELSE 0)
        [] OTHER -> Combined(t.op, args[1].val, IF Len(args) = 2 THEN args[2].val ELSE 0)

(* The target of a line that cannot be read.                               *)
Nowhere == [op |-> "nowhere"]

(* Data given to targets one after the other, up to one that cannot be.    *)
Given(mem0, targets, data) ==
  LET give(acc, i) ==
        LET t     == targets[i]
            name  == t.of[1]
            place == Place([k \in DOMAIN t.args |-> Meaning(t.args[k], acc.mem)])
            fits  == IF t.op = "string"
                     THEN data[i].kind = "string" /\ name \in DOMAIN acc.mem.strings
                     ELSE data[i].kind = "number" /\
                          (t.op = "element" => /\ name \in DOMAIN acc.mem.arrays
                                               /\ place \in DOMAIN acc.mem.arrays[name])
        IN  IF ~acc.well \/ t = Nowhere \/ i > Len(data) THEN [acc EXCEPT !.well = FALSE]
            ELSE IF ~fits THEN [acc EXCEPT !.well = FALSE]
            ELSE CASE t.op = "string"  -> [acc EXCEPT !.mem.strings[name] = data[i].str]
                   [] t.op = "element" -> [acc EXCEPT !.mem.arrays[name][place] = data[i].val]
                   [] t.op = "variable" /\ Len(t.of) = 1 -> [acc EXCEPT !.mem.vars[name] = data[i].val]
                   [] OTHER -> [acc EXCEPT !.mem.named = t.of :> data[i].val @@ @]
  IN  FoldLeftDomain(give, [mem |-> mem0, well |-> TRUE], targets)

(* What a statement gives its targets, and whether that can be said.       *)
Sources(s, mem) ==
  IF s.op = "read" THEN SubSeq(data_store, data_ptr + 1, Len(data_store))
  ELSE IF s.tree.op = "text" THEN <<[Token("string") EXCEPT !.str = s.tree.of]>>
  ELSE LET v == Meaning(s.tree, mem)
       IN  IF v.is = "error" THEN <<>> ELSE <<[Token("number") EXCEPT !.val = v.val]>>

Sayable(s, mem) == s.op = "let" => Meaning(s.tree, mem).is # "open"

(* LET and READ do to the variables, elements and strings of a program     *)
(* what was meant by the expressions they were written from, stop the      *)
(* program if that is an error, and touch nothing else.                    *)
Assigned ==
  [][LET s   == LineAt(lines, pc).stmt
         mem == Memory(store)
     IN  IF ~InLoop \/ pc' # pc + 1 THEN TRUE
         ELSE "into" \in DOMAIN s /\ Sayable(s, mem) =>
              LET given == Given(mem, s.into, Sources(s, mem))
              IN  Memory(store') = given.mem /\ (running' <=> given.well)]_all
=============================================================================
