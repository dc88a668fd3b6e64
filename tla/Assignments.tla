---------------------------- MODULE Assignments ----------------------------
(***************************************************************************)
(* What LET, DIM and READ make of what a program keeps, a record m (see    *)
(* Expressions), or the error they end in (basic/exec.rs).                 *)
(***************************************************************************)
EXTENDS Expressions

Changed(m) == [m |-> m, err |-> "none"]
Failed(m, err) == [m |-> m, err |-> err]

set_var(m, tok, val) ==
  IF Len(tok.str) > 1 THEN Changed([m EXCEPT !.named = With(@, upper_name(tok), val)])
  ELSE IF tok.kind \notin {"ident", "string variable"} THEN Failed(m, "SYNTAX ERROR")
  ELSE Changed([m EXCEPT !.vars[Letter(tok)] = val])

set_element(m, name, i1, i2, val) ==
  LET wrong == ElementError(m, name, i1, i2)
  IN  IF wrong = "none" THEN Changed(array_set(m, name, i1, i2, val)) ELSE Failed(m, wrong)

string_set(m, name, chars) ==
  IF name \in DOMAIN m.strings THEN Changed([m EXCEPT !.strings[name] = chars])
  ELSE Failed(m, "STRING NOT DIMMED")

(* One or two numbers, up to what should be a parenthesis.                 *)
Pair(m, toks, pos, level) ==
  LET pair(first, second) ==
        [first |-> first.val, second |-> second.val, pos |-> second.pos, err |-> second.err]
  IN  Once(LAMBDA first :
             Once(LAMBDA second : pair(first, second),
                  IF first.err = "none" /\ Kind(toks, first.pos) = ","
                  THEN parse(m, toks, level, first.pos + 1) ELSE [first EXCEPT !.val = 0]),
           parse(m, toks, level, pos))

let_variable(m, toks, pos) ==
  IF Kind(toks, pos + 1) # "=" THEN Failed(m, "SYNTAX ERROR")
  ELSE Once(LAMBDA r : IF r.err # "none" THEN Failed(m, r.err) ELSE set_var(m, toks[pos], r.val),
            parse(m, toks, "or", pos + 2))

let_element(m, toks, pos) ==
  LET give(index, r) ==
        IF r.err # "none" THEN Failed(m, r.err)
        ELSE set_element(m, Letter(toks[pos]), Subscript(index.first), Subscript(index.second), r.val)
      at(index) ==
        IF index.err # "none" THEN Failed(m, index.err)
        ELSE IF <<Kind(toks, index.pos), Kind(toks, index.pos + 1)>> # <<")", "=">> THEN Failed(m, "SYNTAX ERROR")
        ELSE Once(LAMBDA r : give(index, r), parse(m, toks, "or", index.pos + 2))
  IN  Once(at, Pair(m, toks, pos + 2, "expr"))

let_string(m, toks, pos) ==
  IF <<Kind(toks, pos + 1), Kind(toks, pos + 2)>> # <<"=", "string">> THEN Failed(m, "SYNTAX ERROR")
  ELSE string_set(m, Letter(toks[pos]), toks[pos + 2].str)

dim_array(m, name, dims) ==
  LET Dim(val) == Min({Subscript(val), 65535})
      dim1  == Dim(dims.first)
      dim2  == Dim(dims.second)
      total == IF dim2 > 0 THEN dim1 * dim2 ELSE dim1
  IN  IF total \notin 1..MAX_ELEMENTS THEN Failed(m, "ILLEGAL QUANTITY")
      ELSE IF name \in DOMAIN m.arrays THEN Failed(m, "REDIM ERROR")
      ELSE Changed([m EXCEPT !.arrays =
                   With(@, name, [dim1 |-> dim1, dim2 |-> dim2, vals |-> [i \in 1..total |-> 0]])])

(* The size of a string is read, and means nothing.                        *)
dim_string(m, toks) ==
  LET size == parse(m, toks, "expr", IF Kind(toks, 3) = "(" THEN 4 ELSE 3)
      name == Letter(toks[2])
  IN  IF size.err # "none" THEN Failed(m, size.err)
      ELSE IF name \in DOMAIN m.strings THEN Failed(m, "REDIM ERROR")
      ELSE Changed([m EXCEPT !.strings = With(@, name, <<>>)])

dim(m, toks) ==
  LET sized(dims) ==
        IF dims.err # "none" THEN Failed(m, dims.err)
        ELSE IF Kind(toks, dims.pos) # ")" THEN Failed(m, "SYNTAX ERROR")
        ELSE dim_array(m, Letter(toks[2]), dims)
  IN  IF Kind(toks, 2) = "string variable" THEN dim_string(m, toks)
      ELSE IF <<Kind(toks, 2), Kind(toks, 3)>> # <<"ident", "(">> THEN Failed(m, "SYNTAX ERROR")
      ELSE Once(sized, Pair(m, toks, 4, "expr"))

(* An assignment, with LET or without, or DIM.                             *)
assigned(m, line) ==
  LET of(toks) ==
        LET pos == IF Kind(toks, 1) = "LET" THEN 2 ELSE 1
        IN  IF Rejected(toks) THEN Failed(m, "SYNTAX ERROR")
            ELSE IF Kind(toks, 1) = "DIM" THEN dim(m, toks)
            ELSE IF Kind(toks, pos) = "string variable" THEN let_string(m, toks, pos)
            ELSE IF <<Kind(toks, pos), Kind(toks, pos + 1)>> = <<"ident", "(">> THEN let_element(m, toks, pos)
            ELSE IF pos = 2 \/ Kind(toks, 1) = "ident" THEN let_variable(m, toks, pos)
            ELSE Failed(m, "SYNTAX ERROR")
  IN  Once(of, tokenize(line))

----------------------------------------------------------------------------
(* DATA and READ.  A datum is a token, a number or a string.               *)

(* The data of a line, behind the keyword.  A sign belongs to the number   *)
(* that follows; what is no datum is passed over.                          *)
collected(acc, tok) ==
  CASE tok.kind = "number" -> [items |-> Append(acc.items, [tok EXCEPT !.val = acc.sign * @]), sign |-> 1]
    [] tok.kind = "string" -> [items |-> Append(acc.items, tok), sign |-> 1]
    [] OTHER -> [acc EXCEPT !.sign = IF tok.kind = "-" THEN -1 ELSE 1]

Items(line) ==
  LET of(toks) == IF toks = <<>> \/ Rejected(toks) THEN <<>>
                  ELSE FoldOnce(collected, [items |-> <<>>, sign |-> 1], Tail(toks)).items
  IN  Once(of, tokenize(line))

(* A target of READ that begins at token i: st is m, how many data are     *)
(* taken, what went wrong, and the token to go on with.                    *)
read_item(st, toks, data, i) ==
  LET next == data[st.taken + 1]
      kind == Kind(toks, i)
      took(result, pos) == [m |-> result.m, err |-> result.err, taken |-> st.taken + 1, pos |-> pos]
      element(index) ==
        IF index.err # "none" THEN took(Failed(st.m, index.err), i)
        ELSE took(set_element(st.m, Letter(toks[i]), Subscript(index.first), Subscript(index.second), next.val),
                  IF Kind(toks, index.pos) = ")" THEN index.pos + 1 ELSE i + 1)
  IN  IF i < st.pos \/ st.err # "none" THEN st
      ELSE IF kind = "," THEN [st EXCEPT !.pos = i + 1]
      ELSE IF st.taken >= Len(data) THEN [st EXCEPT !.err = "OUT OF DATA"]
      ELSE IF kind \notin {"string variable", "ident"} THEN [st EXCEPT !.err = "SYNTAX ERROR"]
      ELSE IF (kind = "string variable") # (next.kind = "string") THEN [st EXCEPT !.err = "TYPE MISMATCH"]
      ELSE IF kind = "string variable" THEN took(string_set(st.m, Letter(toks[i]), next.str), i + 1)
      ELSE IF Kind(toks, i + 1) # "(" THEN took(set_var(st.m, toks[i], next.val), i + 1)
      ELSE Once(element, Pair(st.m, toks, i + 2, "or"))

(* The targets of READ, from left to right.                                *)
read_items(m, line, data) ==
  LET start(err) == [m |-> m, err |-> err, taken |-> 0, pos |-> 2]
      of(toks) == IF Rejected(toks) THEN start("SYNTAX ERROR")
                  ELSE FoldOnce(LAMBDA st, i : read_item(st, toks, data, i),
                                start("none"), [i \in DOMAIN toks |-> i])
  IN  Once(of, tokenize(line))
=============================================================================
