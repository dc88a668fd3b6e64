------------------------------ MODULE Listing ------------------------------
(***************************************************************************)
(* A program as the text of a file: what SAVE writes and what LOAD makes   *)
(* of it (basic/exec.rs).  A statement that is kept without its text is a  *)
(* single character here.                                                  *)
(***************************************************************************)
EXTENDS Interpreter

CONSTANT PROGRAM_BUF_SIZE   \* 16384

Text(s) == IF "text" \in DOMAIN s THEN s.text ELSE <<s.op>>

Word == 65536   \* line numbers have 16 bits

(* Line numbers fit a word.  The text of a line starts behind the spaces, *)
(* ends before the end of the line, and is not empty.                      *)
ASSUME ListingAssumption ==
  /\ PROGRAM_BUF_SIZE \in Nat
  /\ Number \subseteq 0 .. Word - 1
  /\ \A s \in {line.stmt : line \in Source} \ {NoText} :
       /\ Text(s) \in Seq(STRING) /\ Text(s) # <<>>
       /\ Text(s)[1] # " "
       /\ \A i \in DOMAIN Text(s) : Text(s)[i] \notin {"\n", "\r"} /\ SubSeq(Text(s), 1, i) # NoText

format_u64(n) ==
  LET digits[k \in 0 .. n] == IF k < 10 THEN <<Digits[k + 1]>>
                              ELSE Append(digits[k \div 10], Digits[(k % 10) + 1])
  IN  digits[n]

(* Mutant: nothing separates a line from the next.                         *)
LineTextJoined(line) == format_u64(line.number) \o <<" ">> \o Text(line.stmt)

LineText(line) == format_u64(line.number) \o <<" ">> \o Text(line.stmt) \o <<"\n">>

(* What does not fit the buffer is cut off without a word.                 *)
serialize_program(ls) == Cut(FlattenSeq([i \in DOMAIN ls |-> LineText(ls[i])]), PROGRAM_BUF_SIZE)

number_of(figures) == FoldLeft(LAMBDA n, c : (n * 10 + DigitOf[c]) % Word, 0, figures)

(* The lines of a file: a number, of 16 bits, spaces, and text up to the   *)
(* end of the line.  A line without text is passed over.                   *)
FileLines(data) ==
  LET Newline == {"\n", "\r"}
      Until(i, S) == Min({j \in i .. Len(data) + 1 : j > Len(data) \/ data[j] \in S})
      from[i \in 1 .. Len(data) + 1] ==
        LET start == EndOf(data, i, Newline \cup {" "})
            past  == EndOf(data, start, ToSet(Digits))
            words == EndOf(data, past, {" "})
            stop  == Until(words, Newline)
        IN  IF start > Len(data) THEN <<>>
            ELSE IF words = stop THEN from[stop]
            ELSE <<[number |-> number_of(SubSeq(data, start, past - 1)),
                    stmt   |-> SubSeq(data, words, stop - 1)]>> \o from[stop]
  IN  from[1]

(* The program a file holds.                                               *)
Loaded(data) == deserialize_program(FileLines(data))

----------------------------------------------------------------------------
(* Properties.                                                             *)

(* The lines but line 0, which is the first if there is one.               *)
Numbered(ls) == IF ls # <<>> /\ ls[1].number = 0 THEN Tail(ls) ELSE ls

(* A program that is saved and loaded again is the program, line for line, *)
(* but for line 0, which LOAD passes over; of one too long for the buffer  *)
(* the first lines are, and only the last of them may be cut short.        *)
Survives ==
  depth = 0 /\ waiting = "no" =>
    LET numbered == Numbered(lines)
        whole    == [i \in DOMAIN numbered |-> [numbered[i] EXCEPT !.stmt = Text(@)]]
        data     == serialize_program(lines)
        back     == Loaded(data)
        last     == Len(back)
    IN  /\ Len(data) < PROGRAM_BUF_SIZE => back = whole
        /\ last > 0 => /\ last <= Len(whole)
                       /\ Front(back) = SubSeq(whole, 1, last - 1)
                       /\ back[last].number = whole[last].number
                       /\ IsPrefix(back[last].stmt, whole[last].stmt)
=============================================================================
