---------------------------- MODULE Interpreter ----------------------------
(***************************************************************************)
(* The BASIC interpreter: basic/exec.rs and the loop of basic/mod.rs that  *)
(* reads lines and executes or stores them.                                *)
(*                                                                         *)
(* A statement is a record with the token it starts with as its op.  Those *)
(* that change nothing modelled here and take no key (PRINT, REM, SAVE,    *)
(* graphics, ...) are "other"; those the tokeniser rejects are "bad".      *)
(* Assignments, DIM, READ and DATA keep their text, which is computed as   *)
(* Assignments says.  Elsewhere expressions are left out: a condition is   *)
(* true or false, INPUT assigns any value, and FOR has constants.  Nested  *)
(* IFs are one IF.                                                         *)
(*                                                                         *)
(* A statement is one step with the poll for ESC that comes before it,     *)
(* since the keyboard interrupt only adds to the end of the queue.  PAUSE, *)
(* INPUT, FORMAT, EDIT and the menu of DOS wait for keys in between, each  *)
(* key a step.  A line the user types takes what is in the queue with it.  *)
(***************************************************************************)
EXTENDS Assignments

CONSTANTS
  Number, Value,                \* line numbers, constants
  NoText, NoVar,                \* a line without text; NEXT that names no variable
  Typed, Command,               \* what the user types: lines [number, stmt] and statements
  Files, Autorun,               \* what LOAD and the boot may find: sequences of lines
  Key, Esc, Enter,
  FOR_STACK, GOSUB_STACK,       \* the sizes of the stacks: 32 and 64
  MaxKeys, MaxDepth             \* bounds: keys typed ahead; RUN within RUN

(* The lines that come in, and the statements: of lines, typed without a   *)
(* number, and those after THEN.                                           *)
Source == Typed \cup UNION {Range(file) : file \in Files \cup Autorun}
Whole == (Command \cup {line.stmt : line \in Source}) \ {NoText}
Statements == Whole \cup {s.then : s \in {whole \in Whole : whole.op = "if"}}

Var == Letters

ASSUME InterpreterAssumption ==
  /\ Number \subseteq Nat
  /\ Value \subseteq Int /\ 0 \in Value
  /\ \A line \in Source : line.number \in Number
  /\ \A file \in Files \cup Autorun : file \in Seq(Source)
  /\ \A s \in Statements :
       /\ s.op \in {"goto", "gosub"} => s.target \in Nat
       /\ s.op = "on" => s.targets \subseteq Nat
       /\ s.op = "for" => s.var \in Var /\ {s.from, s.to, s.step} \subseteq Int
       /\ s.op = "input" => s.var \in Var
       /\ s.op \in {"let", "read", "data"} => s.text \in Seq(STRING)
  /\ NoVar \notin Var /\ NoText \notin Command
  /\ {FOR_STACK, GOSUB_STACK, MaxDepth, MaxKeys} \subseteq Nat \ {0}

VARIABLES
  lines, pc, running,
  store,                      \* the variables, arrays and strings
  for_stack, gosub_stack,     \* up to for_sp and gosub_sp
  data_store, data_ptr,
  depth,                      \* calls of run that have not returned
  waiting,                    \* what takes the keys: the variable an INPUT reads, or see Waits
  keys                        \* the queue of the keyboard

text == <<lines, data_store, depth, waiting>>
stacks == <<for_stack, gosub_stack>>
all == <<lines, store, pc, running, stacks, data_store, data_ptr, depth, waiting, keys>>

vars == store.vars

(* What waits for keys but INPUT; "quit" waits for ever.  EDIT drops the   *)
(* keys in the queue before its editor takes any, and DOS asks for a line  *)
(* at some choices of its menu.                                            *)
Waits == {"pause", "format", "edit", "editor", "dos", "dos line", "quit"}

NoVars == [v \in Var |-> 0]
Nothing == [vars |-> NoVars, named |-> <<>>, arrays |-> <<>>, strings |-> <<>>]

----------------------------------------------------------------------------
(* The lines, sorted by number.  Indices count from 0, as in the code.     *)

LineAt(ls, i) == ls[i + 1]

(* Mutant: the search is off by one where the number is found.             *)
LineAfter(ls, number) ==
  LET search[range \in (0..Len(ls)) \X (0..Len(ls))] ==
        LET lo  == range[1]
            hi  == range[2]
            mid == (lo + hi) \div 2
        IN  IF lo >= hi THEN lo
            ELSE IF LineAt(ls, mid).number <= number THEN search[<<mid + 1, hi>>] ELSE search[<<lo, mid>>]
  IN  search[<<0, Len(ls)>>]

find_line_or_after(ls, number) ==
  LET search[range \in (0..Len(ls)) \X (0..Len(ls))] ==
        LET lo  == range[1]
            hi  == range[2]
            mid == (lo + hi) \div 2
        IN  IF lo >= hi THEN lo
            ELSE IF LineAt(ls, mid).number < number THEN search[<<mid + 1, hi>>] ELSE search[<<lo, mid>>]
  IN  search[<<0, Len(ls)>>]

(* The index of a line, if there is one.                                   *)
find_line(ls, number) ==
  {i \in {find_line_or_after(ls, number)} : i < Len(ls) /\ LineAt(ls, i).number = number}

insert_line(ls, number, s) ==
  LET found == find_line(ls, number)
      line  == [number |-> number, stmt |-> s]
  IN  IF s = NoText THEN IF found = {} THEN ls ELSE RemoveAt(ls, Min(found) + 1)
      ELSE IF found # {} THEN [ls EXCEPT ![Min(found) + 1] = line]
      ELSE InsertAt(ls, find_line_or_after(ls, number) + 1, line)

deserialize_program(file) ==
  FoldLeft(LAMBDA ls, line : IF line.number > 0 /\ line.stmt # NoText
                             THEN insert_line(ls, line.number, line.stmt) ELSE ls,
           <<>>, file)

collect_data(ls) ==
  FlattenSeq([i \in 1..Len(ls) |-> IF ls[i].stmt.op = "data" THEN Items(ls[i].stmt.text) ELSE <<>>])

----------------------------------------------------------------------------
(* Statements.  next is where the program goes on if nothing says where;   *)
(* a statement typed without a number changes pc too, to no effect.  What  *)
(* an "other" computes, or the disk, may be an error.                      *)

Fail == running' = FALSE
Keep(x) == UNCHANGED <<running, x>>

Otherwise(s, next) ==
  /\ s.op \in {"other", "data", "bad"}
  /\ pc' = next
  /\ \/ s.op # "data" /\ Fail
     \/ s.op # "bad" /\ UNCHANGED running
  /\ UNCHANGED <<store, stacks, data_ptr, text>>

(* LET and DIM: an error leaves everything as it was.                      *)
exec_let(s, next) ==
  /\ s.op = "let"
  /\ \E result \in {assigned(store, s.text)} :
         /\ store' = result.m
         /\ IF result.err # "none" THEN Fail ELSE UNCHANGED running
  /\ pc' = next
  /\ UNCHANGED <<stacks, data_ptr, text>>

exec_for(s, next) ==
  /\ s.op = "for"
  /\ store' = [store EXCEPT !.vars[s.var] = s.from]
  /\ pc' = next
  /\ IF Len(for_stack) >= FOR_STACK
     THEN Fail /\ UNCHANGED for_stack
     ELSE /\ for_stack' = Append(for_stack,
                [var |-> s.var, limit |-> s.to, step |-> s.step, line_idx |-> next])
          /\ UNCHANGED running
  /\ UNCHANGED <<gosub_stack, data_ptr, text>>

(* The frame NEXT is about: the innermost, or that of its variable.        *)
Frame(s) == {i \in 1..Len(for_stack) : s.var \in {NoVar, for_stack[i].var}}

(* Mutant: the variable is not stepped.                                    *)
Unstepped(frame) == vars[frame.var]

Stepped(frame) == vars[frame.var] + frame.step

Done(frame) ==
  IF frame.step > 0 THEN Stepped(frame) > frame.limit ELSE Stepped(frame) < frame.limit

(* Mutant: a loop that ends leaves the frames of the loops within it.      *)
WithoutFrame(i) == RemoveAt(for_stack, i)

FramesBelow(i) == SubSeq(for_stack, 1, i - 1)

exec_next(s, next) ==
  /\ s.op = "next"
  /\ IF Frame(s) = {} THEN Fail /\ pc' = next /\ UNCHANGED <<store, for_stack>>
     ELSE LET i     == Max(Frame(s))
              frame == for_stack[i]
          IN  /\ store' = [store EXCEPT !.vars[frame.var] = Stepped(frame)]
              /\ IF Done(frame) THEN for_stack' = FramesBelow(i) /\ pc' = next
                                ELSE pc' = frame.line_idx /\ UNCHANGED for_stack
              /\ UNCHANGED running
  /\ UNCHANGED <<gosub_stack, data_ptr, text>>

jump_to_line(number, next) ==
  IF find_line(lines, number) = {} THEN Fail /\ pc' = next
  ELSE pc' \in find_line(lines, number) /\ UNCHANGED running

Goto(number, next) ==
  /\ jump_to_line(number, next)
  /\ UNCHANGED <<store, stacks, data_ptr, text>>

Gosub(number, next) ==
  /\ IF Len(gosub_stack) >= GOSUB_STACK THEN Fail /\ pc' = next /\ UNCHANGED gosub_stack
     ELSE gosub_stack' = Append(gosub_stack, next) /\ jump_to_line(number, next)
  /\ UNCHANGED <<store, for_stack, data_ptr, text>>

exec_goto(s, next) == s.op = "goto" /\ Goto(s.target, next)
exec_gosub(s, next) == s.op = "gosub" /\ Gosub(s.target, next)

(* ON ... GOTO and ON ... GOSUB: one of the targets, or none of them.      *)
exec_on(s, next) ==
  /\ s.op = "on"
  /\ \/ /\ pc' = next
        /\ Keep(<<store, stacks, data_ptr, text>>)
     \/ \E number \in s.targets : IF s.gosub THEN Gosub(number, next) ELSE Goto(number, next)

exec_return(s, next) ==
  /\ s.op = "return"
  /\ IF gosub_stack = <<>> THEN Fail /\ pc' = next /\ UNCHANGED gosub_stack
     ELSE /\ pc' = Last(gosub_stack)
          /\ gosub_stack' = Front(gosub_stack)
          /\ UNCHANGED running
  /\ UNCHANGED <<store, for_stack, data_ptr, text>>

(* The targets are read in order, until one cannot be.                     *)
exec_read(s, next) ==
  /\ s.op = "read"
  /\ \E result \in {read_items(store, s.text, SubSeq(data_store, data_ptr + 1, Len(data_store)))} :
         /\ store' = result.m
         /\ data_ptr' = data_ptr + result.taken
         /\ IF result.err # "none" THEN Fail ELSE UNCHANGED running
  /\ pc' = next
  /\ UNCHANGED <<stacks, text>>

exec_restore(s, next) ==
  /\ s.op = "restore"
  /\ data_ptr' = 0
  /\ pc' = next
  /\ Keep(<<store, stacks, text>>)

exec_end(s, next) ==
  /\ s.op = "end"
  /\ running' = FALSE
  /\ pc' = next
  /\ UNCHANGED <<store, stacks, data_ptr, text>>

(* RUN calls run, which starts another loop over the lines.                *)
run(s) ==
  /\ s.op = "run"
  /\ depth < MaxDepth
  /\ store' = Nothing
  /\ for_stack' = <<>> /\ gosub_stack' = <<>>
  /\ data_store' = collect_data(lines) /\ data_ptr' = 0
  /\ running' = TRUE
  /\ pc' = 0
  /\ depth' = depth + 1
  /\ UNCHANGED <<lines, waiting>>

clear(s, next) ==
  /\ s.op = "clr"
  /\ lines' = <<>>
  /\ store' = Nothing
  /\ for_stack' = <<>> /\ gosub_stack' = <<>>
  /\ data_store' = <<>> /\ data_ptr' = 0
  /\ pc' = next
  /\ Keep(<<depth, waiting>>)

(* LOAD, and that of DOS, keep the stacks, the data, the place in the      *)
(* program, and every variable but those of one letter.                    *)
LoadFile ==
  /\ \E file \in Files : lines' = deserialize_program(file)
  /\ store' = [store EXCEPT !.vars = NoVars]

exec_load(s, next) ==
  /\ s.op = "load"
  /\ \/ LoadFile /\ UNCHANGED running
     \/ Fail /\ UNCHANGED <<lines, store>>
  /\ pc' = next
  /\ UNCHANGED <<stacks, data_ptr, data_store, depth, waiting>>

(* Statements that wait for keys, and QUIT, after which nothing comes.     *)
Wait(s, next) ==
  /\ s.op \in {"pause", "input", "format", "edit", "dos", "quit"}
  /\ waiting' = IF s.op = "input" THEN s.var ELSE s.op
  /\ pc' = next
  /\ Keep(<<store, stacks, data_ptr, lines, data_store, depth>>)

Execute(s, next) ==
  \/ Otherwise(s, next) \/ exec_let(s, next) \/ exec_for(s, next) \/ exec_next(s, next)
  \/ exec_goto(s, next) \/ exec_gosub(s, next) \/ exec_on(s, next) \/ exec_return(s, next)
  \/ exec_read(s, next) \/ exec_restore(s, next) \/ exec_end(s, next) \/ run(s)
  \/ clear(s, next) \/ exec_load(s, next) \/ Wait(s, next)

exec_if(s, next) ==
  /\ s.op = "if"
  /\ \/ pc' = next /\ Keep(<<store, stacks, data_ptr, text>>)
     \/ Execute(s.then, next)

exec_statement(s, next) == Execute(s, next) \/ exec_if(s, next)

----------------------------------------------------------------------------
(* The loop of run, and the loop that reads what the user types.           *)

Init ==
  /\ \/ lines = <<>> /\ depth = 0
     \/ \E file \in Autorun : lines = deserialize_program(file) /\ depth = 1
  /\ data_store = collect_data(lines) /\ data_ptr = 0
  /\ running = (depth = 1)
  /\ store = Nothing
  /\ pc = 0
  /\ for_stack = <<>> /\ gosub_stack = <<>>
  /\ waiting = "no"
  /\ keys = <<>>

InLoop == depth > 0 /\ waiting = "no" /\ running /\ pc < Len(lines)

Break ==
  /\ InLoop
  /\ keys # <<>>
  /\ Head(keys) = Esc
  /\ keys' = Tail(keys)
  /\ running' = FALSE
  /\ UNCHANGED <<store, pc, stacks, data_ptr, text>>

(* Mutant: a key that is not ESC stays in the queue.                       *)
PollPeeking ==
  /\ keys # <<>> => Head(keys) # Esc
  /\ UNCHANGED keys

Poll ==
  IF keys = <<>> THEN UNCHANGED keys
  ELSE Head(keys) # Esc /\ keys' = Tail(keys)

Step ==
  /\ InLoop
  /\ Poll
  /\ exec_statement(LineAt(lines, pc).stmt, pc + 1)

(* The end of a loop.  The loop it was called from finds running false.    *)
RunReturns ==
  /\ depth > 0
  /\ waiting = "no"
  /\ ~InLoop
  /\ running' = FALSE
  /\ depth' = depth - 1
  /\ UNCHANGED <<lines, store, pc, stacks, data_store, data_ptr, waiting, keys>>

(* What a key does.  A line ends with Enter; what it holds is left out, so *)
(* that FORMAT may be refused, done or an error, and a file of that name   *)
(* be there or not.                                                        *)
PauseKey ==
  /\ waiting = "pause"
  /\ waiting' = "no"
  /\ UNCHANGED <<lines, store, running>>

InputKey(key) ==
  /\ waiting \in Var
  /\ IF key # Enter THEN UNCHANGED <<waiting, store>>
     ELSE /\ \E x \in Value : store' = [store EXCEPT !.vars[waiting] = x]
          /\ waiting' = "no"
  /\ UNCHANGED <<lines, running>>

FormatKey(key) ==
  /\ waiting = "format"
  /\ IF key # Enter THEN UNCHANGED <<waiting, running>>
     ELSE waiting' = "no" /\ (Fail \/ UNCHANGED running)
  /\ UNCHANGED <<lines, store>>

(* The keys that mean something to the menu, or end the editor, are        *)
(* neither ESC nor Enter.                                                  *)
Choose(key, choices) ==
  /\ waiting' \in {waiting} \cup (IF key \in {Esc, Enter} THEN {} ELSE choices)
  /\ UNCHANGED <<lines, store, running>>

EditorKey(key) == waiting = "editor" /\ Choose(key, {"no"})
MenuKey(key)   == waiting = "dos" /\ Choose(key, {"no", "dos line"})

(* The line is a name to load, save or erase, or an answer; it goes back   *)
(* to the menu, whatever comes of it.                                      *)
DosLineKey(key) ==
  /\ waiting = "dos line"
  /\ IF key # Enter THEN UNCHANGED <<waiting, lines, store>>
     ELSE waiting' = "dos" /\ (LoadFile \/ UNCHANGED <<lines, store>>)
  /\ UNCHANGED running

TakeKey ==
  /\ keys # <<>>
  /\ keys' = Tail(keys)
  /\ LET key == Head(keys) IN
       PauseKey \/ InputKey(key) \/ FormatKey(key) \/ EditorKey(key) \/ MenuKey(key) \/ DosLineKey(key)
  /\ UNCHANGED <<pc, stacks, data_store, data_ptr, depth>>

run_editor ==
  /\ waiting = "edit"
  /\ keys' = <<>>
  /\ waiting' = "editor"
  /\ UNCHANGED <<lines, store, pc, running, stacks, data_store, data_ptr, depth>>

(* The machine is off.                                                     *)
shutdown == waiting = "quit" /\ UNCHANGED all

Reading == depth = 0 /\ waiting = "no" /\ keys' = <<>>

handle_program_line(line) ==
  /\ Reading
  /\ lines' = insert_line(lines, line.number, line.stmt)
  /\ UNCHANGED <<store, pc, running, stacks, data_store, data_ptr, depth, waiting>>

Direct(s) ==
  /\ Reading
  /\ exec_statement(s, pc)

Type(key) ==
  /\ depth > 0 \/ waiting # "no"
  /\ waiting # "quit"
  /\ Len(keys) < MaxKeys
  /\ keys' = Append(keys, key)
  /\ UNCHANGED <<lines, store, pc, running, stacks, data_store, data_ptr, depth, waiting>>

Next ==
  \/ Step \/ Break \/ RunReturns \/ TakeKey \/ run_editor \/ shutdown
  \/ \E line \in Typed : handle_program_line(line)
  \/ \E s \in Command : Direct(s)
  \/ \E key \in Key : Type(key)

Spec == Init /\ [][Next]_all

(* The processor keeps executing; the user may do nothing.                 *)
FairSpec == Spec /\ WF_all(Step \/ Break \/ RunReturns \/ TakeKey \/ run_editor)

----------------------------------------------------------------------------
(* Properties.                                                             *)

(* Types, and what the variables may be: lines are in order and their      *)
(* numbers differ, however they came; the stacks and the data pointer keep *)
(* within bounds; a run that is not over has not returned.                 *)
InOrder ==
  /\ \A i \in DOMAIN lines : lines[i].number \in Number
  /\ \A i \in 2..Len(lines) : lines[i - 1].number < lines[i].number

InBounds ==
  /\ pc \in Nat
  /\ Len(for_stack) <= FOR_STACK /\ Len(gosub_stack) <= GOSUB_STACK
  /\ depth \in 0..MaxDepth
  /\ running => depth > 0

TypeOK ==
  /\ InOrder /\ InBounds
  /\ vars \in [Var -> Int]
  /\ \A name \in DOMAIN store.arrays :
       LET a == store.arrays[name] IN Len(a.vals) = IF a.dim2 > 0 THEN a.dim1 * a.dim2 ELSE a.dim1
  /\ data_ptr \in 0..Len(data_store)
  /\ waiting \in Var \cup Waits \cup {"no"}
  /\ keys \in Seq(Key) /\ Len(keys) <= MaxKeys

End == -1
Stopped == -2
NumberBefore(i) == LineAt(lines, i - 1).number

Flow == INSTANCE ProgramFlow WITH
  prog  <- [n \in {lines[i].number : i \in DOMAIN lines} |->
              lines[CHOOSE i \in DOMAIN lines : lines[i].number = n].stmt],
  at    <- IF ~running THEN Stopped ELSE IF pc >= Len(lines) THEN End ELSE LineAt(lines, pc).number,
  loops <- IF ~running THEN <<>>
           ELSE [i \in DOMAIN for_stack |->
                   [var |-> for_stack[i].var, line |-> NumberBefore(for_stack[i].line_idx)]],
  calls <- IF ~running THEN <<>> ELSE [i \in DOMAIN gosub_stack |-> NumberBefore(gosub_stack[i])]

(* The indices kept in pc and on the stacks mean the lines they were meant *)
(* to: the program goes where its line numbers say, and RUN within RUN is  *)
(* the same as starting over.  For programs that load no other, by LOAD or *)
(* by DOS.                                                                 *)
FlowSpec == Flow!Spec

(* ESC typed while a program runs ends it, whatever was typed before it,   *)
(* unless a statement that waits for keys, or QUIT, comes first.           *)
BreakStops == running /\ Contains(keys, Esc) ~> ~running \/ waiting # "no"

(* Whether s jumps forward only, from line n, and may stand in a program   *)
(* whose loops must end.                                                   *)
Forward(s, n) ==
  /\ s.op \notin {"run", "load", "let", "read", "input"} \cup Waits
  /\ s.op \in {"goto", "gosub"} => s.target > n
  /\ s.op = "on" => \A m \in s.targets : m > n
  /\ s.op = "for" => s.step # 0

Loops(ls) == {i \in 1..Len(ls) : ls[i].stmt.op = "for"}
LoopProgram ==
  /\ \A i \in 1..Len(lines) :
       LET s == lines[i].stmt IN
       /\ Forward(s, lines[i].number)
       /\ s.op = "if" => s.then.op # "for" /\ Forward(s.then, lines[i].number)
  /\ \A i, j \in Loops(lines) : lines[i].stmt.var = lines[j].stmt.var => i = j

(* A program that goes back by NEXT and RETURN only, with a variable for   *)
(* each loop, ends, however its loops, subroutines and jumps are mixed.    *)
LoopsEnd == running /\ waiting = "no" /\ LoopProgram ~> ~running
=============================================================================
