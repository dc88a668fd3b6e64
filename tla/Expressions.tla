---------------------------- MODULE Expressions ----------------------------
(***************************************************************************)
(* How BASIC reads a line and computes an expression: the tokeniser        *)
(* (basic/token.rs), the parser, which computes as it goes                 *)
(* (basic/parser.rs), and the arrays it reads (basic/exec.rs).             *)
(*                                                                         *)
(* A line is a sequence of characters, each a string of length one, in     *)
(* upper case.  Numbers are integers: decimals and hexadecimal digits are  *)
(* left out, as are PI, RND, PEEK, FRE and the approximated functions.  A  *)
(* quotient is to come out even.                                           *)
(***************************************************************************)
EXTENDS Integers, Sequences, SequencesExt, FiniteSetsExt

CONSTANTS
  MAX_TOKENS,         \* 32
  MAX_TOKEN_LEN,      \* 64
  MAX_NAME,           \* 16, the length of a variable's name
  MAX_ELEMENTS,       \* 10000, the size of an array
  SCRW, SCRH          \* the size of the screen in the mode at hand

ASSUME ExpressionAssumption ==
  /\ {MAX_TOKENS, MAX_TOKEN_LEN, MAX_NAME, MAX_ELEMENTS} \subseteq Nat \ {0} /\ MAX_TOKEN_LEN > 1
  /\ {SCRW, SCRH} \subseteq Nat

(* F(x), and a fold from the left, that compute their arguments once also  *)
(* where TLC would compute them at each use.                               *)
Once(F(_), x) == CHOOSE y \in {F(z) : z \in {x}} : TRUE

FoldOnce(F(_, _), base, seq) ==
  LET after[i \in 0..Len(seq)] ==
        IF i = 0 THEN base ELSE Once(LAMBDA acc : F(acc, seq[i]), after[i - 1])
  IN  after[Len(seq)]

----------------------------------------------------------------------------
(* The tokeniser.                                                          *)

Digits == <<"0", "1", "2", "3", "4", "5", "6", "7", "8", "9">>
DigitOf == [c \in ToSet(Digits) |-> CHOOSE d \in 0..9 : Digits[d + 1] = c]
Letters == {"A", "B", "C", "D", "E", "F", "G", "H", "I", "J", "K", "L", "M", "N", "O", "P", "Q", "R",
            "S", "T", "U", "V", "W", "X", "Y", "Z"}
WordChars == ToSet(Digits) \cup Letters \cup {"_"}

(* The keywords that may stand in a line of expressions, and REM.          *)
KeywordTable ==
  {<<<<"L", "E", "T">>, "LET">>, <<<<"D", "I", "M">>, "DIM">>, <<<<"D", "A", "T", "A">>, "DATA">>,
   <<<<"R", "E", "A", "D">>, "READ">>, <<<<"M", "O", "D">>, "%">>, <<<<"A", "N", "D">>, "AND">>,
   <<<<"O", "R">>, "OR">>, <<<<"N", "O", "T">>, "NOT">>, <<<<"R", "E", "M">>, "REM">>}
Keywords == [word \in {entry[1] : entry \in KeywordTable} |->
               (CHOOSE entry \in KeywordTable : entry[1] = word)[2]]

Starts == ToSet(Digits) \cup Letters \cup
  {"\"", "+", "-", "*", "/", "%", "=", "<", ">", "(", ")", ",", ";"}

(* Where the characters of S that start at i end.                          *)
EndOf(line, i, S) ==
  Min({j \in i .. Len(line) + 1 : j > Len(line) \/ line[j] \notin S})

Cut(chars, n) == SubSeq(chars, 1, Min({n, Len(chars)}))

Token(kind) == [kind |-> kind, val |-> 0, str |-> <<>>]
Eol == Token("eol")

NumberAt(line, i) ==
  LET end == EndOf(line, i, ToSet(Digits))
  IN  [token |-> [Token("number") EXCEPT !.val =
                    FoldLeft(LAMBDA n, c : n * 10 + DigitOf[c], 0, SubSeq(line, i, end - 1))],
       end |-> end]

StringAt(line, i) ==
  LET end == Min({j \in i + 1 .. Len(line) + 1 : j > Len(line) \/ line[j] = "\""})
  IN  [token |-> [Token("string") EXCEPT !.str = Cut(SubSeq(line, i + 1, end - 1), MAX_TOKEN_LEN - 1)],
       end |-> Min({end, Len(line)}) + 1]

WordAt(line, i) ==
  LET end  == EndOf(line, i, WordChars)
      word == Cut(SubSeq(line, i, end - 1), MAX_TOKEN_LEN - 1)
  IN  IF Len(word) = 1 /\ end <= Len(line) /\ line[end] = "$"
      THEN [token |-> [Token("string variable") EXCEPT !.str = word], end |-> end + 1]
      ELSE [token |-> [Token(IF word \in DOMAIN Keywords THEN Keywords[word] ELSE "ident")
                         EXCEPT !.str = word], end |-> end]

SignAt(line, i) ==
  LET two == IF i < Len(line) THEN line[i] \o line[i + 1] ELSE ""
  IN  IF two \in {"<=", "<>", ">="} THEN [token |-> Token(two), end |-> i + 2]
      ELSE [token |-> Token(line[i]), end |-> i + 1]

TokenAt(line, i) ==
  CASE line[i] \in ToSet(Digits) -> NumberAt(line, i)
    [] line[i] = "\""            -> StringAt(line, i)
    [] line[i] \in Letters       -> WordAt(line, i)
    [] OTHER                     -> SignAt(line, i)

(* MAX_TOKENS - 1 tokens are kept; what follows them, or REM, is dropped   *)
(* without a word.  A character that starts no token is an error.          *)
tokenize(line) ==
  LET rest[at \in (1 .. Len(line) + 1) \X (0 .. MAX_TOKENS)] ==
        LET i     == at[1]
            count == at[2]
            from(next) == <<next.token>> \o
              IF next.token.kind = "REM" THEN <<>> ELSE rest[<<next.end, count + 1>>]
        IN  IF i > Len(line) \/ count >= MAX_TOKENS - 1 THEN <<>>
            ELSE IF line[i] \in {" ", "\t"} THEN rest[<<i + 1, count>>]
            ELSE IF line[i] \notin Starts THEN <<Token("bad")>>
            ELSE Once(from, TokenAt(line, i))
  IN  rest[<<1, 0>>]

Rejected(toks) == toks # <<>> /\ Last(toks).kind = "bad"

----------------------------------------------------------------------------
(* What programs keep besides their lines, a record m of                   *)
(*   vars     values of the variables of one letter                        *)
(*   named    values of the variables of longer names that were set        *)
(*   arrays   by letter, [dim1, dim2, vals]; dim2 is 0 in a vector         *)
(*   strings  by letter, sequences of characters                           *)
(* Arrays and strings go by the first letter of their name.                *)

Letter(tok) == tok.str[1]
upper_name(tok) == Cut(tok.str, MAX_NAME)

(* The function f with x, whose value is y.                                *)
With(f, x, y) == [z \in DOMAIN f \cup {x} |-> IF z = x THEN y ELSE f[z]]

named_var_get(m, name) == IF name \in DOMAIN m.named THEN m.named[name] ELSE 0

Subscript(val) == Max({val, 0})

flat_index(a, i1, i2) == IF a.dim2 > 0 THEN i1 * a.dim2 + i2 ELSE i1

Within(a, i1, i2) == i1 < a.dim1 /\ (a.dim2 > 0 => i2 < a.dim2)

(* Why an element cannot be had, if it cannot.                             *)
ElementError(m, name, i1, i2) ==
  IF name \notin DOMAIN m.arrays THEN "ARRAY NOT DIMMED"
  ELSE IF ~Within(m.arrays[name], i1, i2) THEN "BAD SUBSCRIPT" ELSE "none"

array_get(m, name, i1, i2) == m.arrays[name].vals[flat_index(m.arrays[name], i1, i2) + 1]

array_set(m, name, i1, i2, val) ==
  [m EXCEPT !.arrays[name].vals[flat_index(m.arrays[name], i1, i2) + 1] = val]

string_get(m, name) == IF name \in DOMAIN m.strings THEN m.strings[name] ELSE <<>>

----------------------------------------------------------------------------
(* The parser.  A result is a value, or an error, and where to go on.      *)

Ok(val, pos) == [val |-> val, pos |-> pos, err |-> "none"]
Err(err) == [val |-> 0, pos |-> 1, err |-> err]
Start(pos) == [val |-> 0, pos |-> pos, err |-> "start"]     \* no operand read yet
Syntax == Err("SYNTAX ERROR")

Errors == {"none", "start", "SYNTAX ERROR", "TYPE MISMATCH", "DIVISION BY ZERO", "ARRAY NOT DIMMED", "BAD SUBSCRIPT"}
Results == [val : Int, pos : Nat \ {0}, err : Errors]

(* What F makes of a result, unless it is an error.                        *)
After(r, F(_)) == Once(LAMBDA x : IF x.err # "none" THEN x ELSE F(x), r)

Truth(b) == IF b THEN 1 ELSE 0

(* The remainder has the sign of the dividend.                             *)
Rem(a, b) == LET size(n) == IF n < 0 THEN -n ELSE n
             IN  IF a < 0 THEN -(size(a) % size(b)) ELSE a % size(b)
Quotient(a, b) == IF b < 0 THEN (-a) \div (-b) ELSE a \div b

Apply(op, a, b, pos) ==
  IF op \in {"/", "%"} /\ b = 0 THEN Err("DIVISION BY ZERO")
  ELSE Ok(CASE op = "OR"  -> Truth(a # 0 \/ b # 0)
            [] op = "AND" -> Truth(a # 0 /\ b # 0)
            [] op = "="   -> Truth(a = b)
            [] op = "<>"  -> Truth(a # b)
            [] op = "<"   -> Truth(a < b)
            [] op = ">"   -> Truth(a > b)
            [] op = "<="  -> Truth(a <= b)
            [] op = ">="  -> Truth(a >= b)
            [] op = "+"   -> a + b
            [] op = "-"   -> a - b
            [] op = "*"   -> a * b
            [] op = "/"   -> Quotient(a, b)
            [] op = "%"   -> Rem(a, b), pos)

Names == [LEN |-> <<"L", "E", "N">>, ABS |-> <<"A", "B", "S">>, INT |-> <<"I", "N", "T">>,
          SCRW |-> <<"S", "C", "R", "W">>, SCRH |-> <<"S", "C", "R", "H">>]

(* The grammar, from the loosest operators to the atoms.                   *)
Operand ==
  [or |-> "and", and |-> "not", not |-> "comparison", comparison |-> "expr",
   expr |-> "term", term |-> "unary", unary |-> "atom", atom |-> "atom"]

(* Mutant: MOD is as loose as + and -.                                     *)
InfixLoose ==
  [or |-> {"OR"}, and |-> {"AND"}, comparison |-> {"=", "<>", "<", ">", "<=", ">="},
   expr |-> {"+", "-", "%"}, term |-> {"*", "/"}]

Infix ==
  [or |-> {"OR"}, and |-> {"AND"}, comparison |-> {"=", "<>", "<", ">", "<=", ">="},
   expr |-> {"+", "-"}, term |-> {"*", "/", "%"}]
Prefix == [not |-> "NOT", unary |-> "-"]

Kind(toks, pos) == IF pos <= Len(toks) THEN toks[pos].kind ELSE "eol"

Expect(toks, kind, r) ==
  After(r, LAMBDA x : IF Kind(toks, x.pos) = kind THEN Ok(x.val, x.pos + 1) ELSE Syntax)

(* eval is what the parser makes of a level of the grammar, where it       *)
(* begins, or goes on after a left operand.                                *)
condition(eval, pos) == eval[<<"or", Start(pos)>>]
operand(eval, level, pos) == eval[<<Operand[level], Start(pos)>>]

array_access(eval, m, toks, pos) ==
  LET name == Letter(toks[pos])
      second(i1) == IF Kind(toks, i1.pos) = "," THEN condition(eval, i1.pos + 1) ELSE [i1 EXCEPT !.val = 0]
      fetched(i1, i2, end) ==
        LET wrong == ElementError(m, name, i1, i2)
        IN  IF wrong # "none" THEN Err(wrong) ELSE Ok(array_get(m, name, i1, i2), end)
  IN  After(condition(eval, pos + 2), LAMBDA i1 :
        After(second(i1), LAMBDA i2 :
          After(Expect(toks, ")", i2), LAMBDA r : fetched(Subscript(i1.val), Subscript(i2.val), r.pos))))

length(m, toks, pos) ==
  IF Kind(toks, pos + 1) # "(" THEN Syntax
  ELSE IF Kind(toks, pos + 2) # "string variable" THEN Err("TYPE MISMATCH")
  ELSE Expect(toks, ")", Ok(Len(string_get(m, Letter(toks[pos + 2]))), pos + 3))

ident(eval, m, toks, pos) ==
  LET tok   == toks[pos]
      after == Kind(toks, pos + 1)
  IN  CASE tok.str = Names.LEN -> length(m, toks, pos)
        [] tok.str \in {Names.ABS, Names.INT} /\ after = "(" ->
             After(Expect(toks, ")", condition(eval, pos + 2)), LAMBDA r :
               IF tok.str = Names.ABS THEN [r EXCEPT !.val = Max({@, -@})] ELSE r)
        [] tok.str = Names.SCRW -> Ok(SCRW, pos + 1)
        [] tok.str = Names.SCRH -> Ok(SCRH, pos + 1)
        [] OTHER -> IF after = "(" THEN array_access(eval, m, toks, pos)
                    ELSE IF Len(tok.str) > 1 THEN Ok(named_var_get(m, upper_name(tok)), pos + 1)
                    ELSE Ok(m.vars[Letter(tok)], pos + 1)

atom(eval, m, toks, pos) ==
  CASE Kind(toks, pos) = "number" -> Ok(toks[pos].val, pos + 1)
    [] Kind(toks, pos) = "("      -> Expect(toks, ")", condition(eval, pos + 1))
    [] Kind(toks, pos) = "ident"  -> ident(eval, m, toks, pos)
    [] OTHER                      -> Syntax

(* What belongs to the level: from a start, or after the operand left.     *)
evaluated(eval, m, toks, level, left) ==
  LET pos  == left.pos
      here == Kind(toks, pos)
      both == After(operand(eval, level, pos + 1), LAMBDA right : Apply(here, left.val, right.val, right.pos))
  IN  IF left.err \notin {"none", "start"} THEN left ELSE
      CASE level = "atom" -> atom(eval, m, toks, pos)
        [] level \in DOMAIN Prefix ->
             IF here # Prefix[level] THEN eval[<<Operand[level], left>>]
             ELSE After(operand(eval, level, pos + 1), LAMBDA x :
                    Ok(IF level = "not" THEN Truth(x.val = 0) ELSE -x.val, x.pos))
        [] level \in DOMAIN Infix /\ left.err = "start" -> eval[<<level, eval[<<Operand[level], left>>]>>]
        [] OTHER ->
             IF here \notin Infix[level] THEN left
             ELSE IF level = "comparison" THEN both
             ELSE eval[<<level, both>>]

(* The value of what begins at start, as far as it belongs to the level.   *)
parse(m, toks, top, start) ==
  LET eval[at \in (DOMAIN Operand) \X Results] == evaluated(eval, m, toks, at[1], at[2])
  IN  eval[<<top, Start(start)>>]

=============================================================================
