---------------------------- MODULE ProgramFlow ----------------------------
(***************************************************************************)
(* Which line of a program comes next, in terms of line numbers: what a    *)
(* user of the language goes by.  Jumps name a line; a subroutine returns  *)
(* to the line after its GOSUB, a loop goes back to the line after its     *)
(* FOR; RUN starts afresh wherever it stands.  What decides conditions and *)
(* the ends of loops is left open, and an error or a break may stop the    *)
(* program anywhere.                                                       *)
(***************************************************************************)
EXTENDS Integers, Sequences, FiniteSetsExt, Functions

CONSTANTS
  Number, NoVar, NoText, Files, Autorun,
  End, Stopped      \* no numbers of lines

VARIABLES
  prog,     \* the statement of each line, by number
  at,       \* the number of the line to execute next, End or Stopped
  loops,    \* the loops begun: [var, line], by the number of the FOR's line
  calls     \* the subroutines begun: the numbers of the GOSUBs' lines

vars == <<prog, at, loops, calls>>

(* The first line of p with a number above n.                              *)
After(p, n) ==
  LET later == {m \in DOMAIN p : m > n}
  IN  IF later = {} THEN End ELSE Min(later)
First(p) == After(p, -1)

(* What a file's lines make: the last of each number, but line 0 and those *)
(* without text.                                                           *)
Program(file) ==
  LET kept == {i \in 1..Len(file) : file[i].number # 0 /\ file[i].stmt # NoText}
  IN  [n \in {file[i].number : i \in kept} |-> file[Max({i \in kept : file[i].number = n})].stmt]

(* A program found at boot is run at once.                                 *)
Init ==
  /\ \/ prog = <<>> /\ at = Stopped
     \/ \E file \in Autorun : prog = Program(file) /\ at = First(prog)
  /\ loops = <<>>
  /\ calls = <<>>

(* The user, while no program runs: one line changes, or all of them.      *)
Edit ==
  /\ at = Stopped
  /\ UNCHANGED <<at, loops, calls>>
  /\ LET old == prog
         new == prog'
     IN  \E n \in Number : Restrict(new, DOMAIN new \ {n}) = Restrict(old, DOMAIN old \ {n})

Replace ==
  /\ at = Stopped
  /\ prog' \in {Program(file) : file \in Files} \cup {<<>>}
  /\ UNCHANGED <<at, loops, calls>>

Start(p) ==
  /\ at' = First(p)
  /\ loops' = <<>>
  /\ calls' = <<>>
  /\ prog' = p

Run == at = Stopped /\ Start(prog)

(* The end of the program, an error or a break.                            *)
Stop ==
  /\ at # Stopped
  /\ at' = Stopped
  /\ loops' = <<>>
  /\ calls' = <<>>
  /\ UNCHANGED prog

(* The statement at hand; a condition may choose the one after its THEN.   *)
Current == IF prog[at].op = "if" THEN {prog[at], prog[at].then} ELSE {prog[at]}

Advance == at' = After(prog, at)

Pass(s) ==
  /\ s.op \notin {"goto", "gosub", "return", "for", "next", "end", "run", "clr", "bad"}
  /\ Advance
  /\ UNCHANGED <<prog, loops, calls>>

Goto(n) ==
  /\ n \in DOMAIN prog
  /\ at' = n
  /\ UNCHANGED <<prog, loops, calls>>

Gosub(n) ==
  /\ n \in DOMAIN prog
  /\ at' = n
  /\ calls' = Append(calls, at)
  /\ UNCHANGED <<prog, loops>>

Return(s) ==
  /\ s.op = "return"
  /\ calls # <<>>
  /\ at' = After(prog, calls[Len(calls)])
  /\ calls' = SubSeq(calls, 1, Len(calls) - 1)
  /\ UNCHANGED <<prog, loops>>

For(s) ==
  /\ s.op = "for"
  /\ Advance
  /\ loops' = Append(loops, [var |-> s.var, line |-> at])
  /\ UNCHANGED <<prog, calls>>

(* The innermost loop of the variable goes on, or ends with those in it.   *)
NextLoop(s) ==
  /\ s.op = "next"
  /\ LET mine == {i \in 1..Len(loops) : s.var \in {NoVar, loops[i].var}}
     IN  /\ mine # {}
         /\ \/ at' = After(prog, loops[Max(mine)].line) /\ UNCHANGED loops
            \/ Advance /\ loops' = SubSeq(loops, 1, Max(mine) - 1)
  /\ UNCHANGED <<prog, calls>>

Clear(s) ==
  /\ s.op = "clr"
  /\ prog' = <<>>
  /\ at' = End
  /\ loops' = <<>>
  /\ calls' = <<>>

Statement ==
  /\ at \notin {Stopped, End}
  /\ \E s \in Current :
       \/ Pass(s)
       \/ s.op = "goto" /\ Goto(s.target)
       \/ s.op = "gosub" /\ Gosub(s.target)
       \/ s.op = "on" /\ \E n \in s.targets : IF s.gosub THEN Gosub(n) ELSE Goto(n)
       \/ s.op = "run" /\ Start(prog)
       \/ Return(s) \/ For(s) \/ NextLoop(s) \/ Clear(s)

Next ==
  \/ Statement \/ Stop \/ Edit \/ Replace \/ Run

Spec == Init /\ [][Next]_vars
=============================================================================
