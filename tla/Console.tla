------------------------------ MODULE Console ------------------------------
(***************************************************************************)
(* The text console of console/term.rs: a cursor with a deferred wrap, the *)
(* parser of escape sequences, and the two copies of the picture, the      *)
(* shadow buffer everything is drawn into and the frame buffer, kept in    *)
(* step by flushing the lines that changed.                                *)
(*                                                                         *)
(* A row of text is FONT_H = 2 lines here: the body of its characters, and *)
(* the foot, where the cursor is drawn and the descenders of some          *)
(* characters are.  A column is one pixel wide.  The last line of the      *)
(* screen may belong to no row of text.  A pixel is the set of what inks   *)
(* it (a set, as graphics may combine inks with XOR); the background is    *)
(* {}.  Colours are left out, and with them the SGR sequences, which are   *)
(* parsed and change nothing here.                                         *)
(***************************************************************************)
EXTENDS Naturals, Sequences, SequencesExt, FiniteSetsExt

CONSTANTS
  fb_width,        \* columns
  fb_height,       \* lines
  Key,             \* bound: the bytes echoed one by one
  Text,            \* bound: the strings printed
  Descender,       \* the characters with pixels in the foot of their cell
  VT_MAX_PARAMS,   \* parameters kept of an escape sequence: 4
  MaxParam,        \* where a parameter saturates: 65535
  MaxTyped         \* bound: the characters a property looks back on

FONT_H == 2

ASSUME ConsoleAssumption ==
  /\ {fb_width, VT_MAX_PARAMS} \subseteq Nat \ {0} /\ fb_height \in Nat /\ fb_height >= FONT_H
  /\ {MaxParam, MaxTyped} \subseteq Nat

ASSUME TextAssumption == \A text \in Text : text \in Seq(Range(text))

VARIABLES
  con,      \* the Console, with the shadow buffer and the frame buffer
  typed     \* the text written since the screen was cleared, or Moved

fb_cols == fb_width
fb_rows == fb_height \div FONT_H
Row == 0 .. fb_rows - 1
Col == 0 .. fb_cols - 1
Line == 0 .. fb_height - 1
Empty == [y \in Line |-> [x \in Col |-> {}]]
Moved == "moved"    \* something other than text moved the cursor

Digit == [d \in {"0", "1", "2", "5", "7"} |->
            CASE d = "0" -> 0 [] d = "1" -> 1 [] d = "2" -> 2 [] d = "5" -> 5 [] d = "7" -> 7]

----------------------------------------------------------------------------
(* From the shadow buffer to the frame buffer.                             *)

CopyLines(c, lines) ==
  [c EXCEPT !.front = [y \in Line |-> IF y \in lines THEN c.shadow[y] ELSE c.front[y]]]

(* Mutant: a region that is held back replaces the one before it.          *)
flush_replacing(c, y0, rows) ==
  IF c.graphics_active THEN c
  ELSE IF c.flush_held THEN [c EXCEPT !.dirty_min_y = y0, !.dirty_max_y = y0 + rows]
  ELSE CopyLines(c, y0 .. y0 + rows - 1)

flush_region(c, y0, rows) ==
  IF c.graphics_active THEN c
  ELSE IF ~c.flush_held THEN CopyLines(c, y0 .. y0 + rows - 1)
  ELSE IF c.dirty_min_y = c.dirty_max_y
       THEN [c EXCEPT !.dirty_min_y = y0, !.dirty_max_y = y0 + rows]
       ELSE [c EXCEPT !.dirty_min_y = Min({@, y0}), !.dirty_max_y = Max({@, y0 + rows})]

flush_all(c) ==
  IF c.graphics_active THEN c
  ELSE IF c.flush_held THEN [c EXCEPT !.dirty_min_y = 0, !.dirty_max_y = fb_height]
  ELSE CopyLines(c, Line)

flush_hold(c) == [c EXCEPT !.flush_held = TRUE, !.dirty_min_y = 0, !.dirty_max_y = 0]

flush_release(c) ==
  LET open == [c EXCEPT !.flush_held = FALSE]
  IN  IF c.dirty_min_y < c.dirty_max_y
      THEN flush_region(open, c.dirty_min_y, c.dirty_max_y - c.dirty_min_y)
      ELSE open

FlushRow(c) == flush_region(c, c.cursor_row * FONT_H, FONT_H)

----------------------------------------------------------------------------
(* Drawing.                                                                *)

draw_char(c, col, row, ch) ==
  LET ink == IF ch = " " THEN {} ELSE {ch}
  IN  [c EXCEPT !.shadow[row * FONT_H][col] = ink,
                !.shadow[row * FONT_H + 1][col] = IF ch \in Descender THEN ink ELSE {}]

draw_cursor(c, show) ==
  [c EXCEPT !.shadow[c.cursor_row * FONT_H + FONT_H - 1][c.cursor_col] = IF show THEN {"_"} ELSE {}]

(* The picture moves up by a row, and the lowest FONT_H lines are cleared. *)
scroll(c) ==
  flush_all([c EXCEPT !.shadow =
    [y \in Line |-> IF y < fb_height - FONT_H THEN c.shadow[y + FONT_H] ELSE Empty[y]]])

clear(c) ==
  flush_all(draw_cursor(
    [c EXCEPT !.shadow = Empty, !.cursor_row = 0, !.cursor_col = 0, !.wrap_pending = FALSE], TRUE))

(* The cursor goes to the start of the next row, a new one at the bottom.  *)
NextRow(c) ==
  LET start == [c EXCEPT !.cursor_col = 0, !.wrap_pending = FALSE]
  IN  IF c.cursor_row + 1 < fb_rows
      THEN [start EXCEPT !.cursor_row = @ + 1]
      ELSE [scroll(start) EXCEPT !.cursor_row = fb_rows - 1]

CarriageReturn(c) == draw_cursor([c EXCEPT !.cursor_col = 0, !.wrap_pending = FALSE], TRUE)

Backspace(c) ==
  LET back == [c EXCEPT !.cursor_col = @ - 1, !.wrap_pending = FALSE]
  IN  FlushRow(draw_cursor(
        IF c.cursor_col > 0 THEN draw_char(back, back.cursor_col, back.cursor_row, " ") ELSE c, TRUE))

LineFeed(c) ==
  LET next == NextRow(c)
      left == IF next.cursor_row = c.cursor_row THEN next ELSE flush_region(next, c.cursor_row * FONT_H, FONT_H)
  IN  FlushRow(draw_cursor(left, TRUE))

(* Mutant: the wrap is not deferred, but done when the row is full.        *)
GlyphWrapping(c, ch) ==
  LET drawn == draw_char(c, c.cursor_col, c.cursor_row, ch)
      after == IF c.cursor_col + 1 < fb_cols THEN [drawn EXCEPT !.cursor_col = @ + 1] ELSE NextRow(drawn)
  IN  FlushRow(flush_region(draw_cursor(after, TRUE), c.cursor_row * FONT_H, FONT_H))

Glyph(c, ch) ==
  LET at    == IF c.wrap_pending THEN NextRow(c) ELSE c
      drawn == draw_char(at, at.cursor_col, at.cursor_row, ch)
      after == IF at.cursor_col + 1 < fb_cols
               THEN [drawn EXCEPT !.cursor_col = @ + 1]
               ELSE [drawn EXCEPT !.wrap_pending = TRUE]
  IN  FlushRow(draw_cursor(after, TRUE))

putchar_inner(c, ch) ==
  CASE ch = "\r" -> CarriageReturn(c)
    [] ch = "BS" -> Backspace(c)
    [] ch = "\n" -> LineFeed(c)
    [] OTHER     -> Glyph(c, ch)

(* Mutant: the column is taken as it comes.                                *)
set_cursor_beyond(c, row, col) ==
  LET at == [c EXCEPT !.cursor_row = Min({row, fb_rows - 1}), !.cursor_col = col, !.wrap_pending = FALSE]
  IN  FlushRow(at)

set_cursor(c, row, col) ==
  FlushRow(draw_cursor(
    [draw_cursor(c, FALSE) EXCEPT !.cursor_row = Min({row, fb_rows - 1}),
                                  !.cursor_col = Min({col, fb_cols - 1}),
                                  !.wrap_pending = FALSE], TRUE))

(* The cells of the row are blanked from the cursor on.                    *)
Blanked(c) ==
  [c EXCEPT !.shadow = [y \in Line |->
     IF y \div FONT_H # c.cursor_row THEN c.shadow[y]
     ELSE [x \in Col |-> IF x < c.cursor_col THEN c.shadow[y][x] ELSE {}]]]

clear_to_eol(c) == FlushRow(draw_cursor(Blanked(draw_cursor(c, FALSE)), TRUE))

show_cursor(c, show) == FlushRow(draw_cursor(c, show))

----------------------------------------------------------------------------
(* Escape sequences, which may be spread over several writes.              *)

Monus(a, b) == IF a > b THEN a - b ELSE 0
To(c, state) == [c EXCEPT !.vt_state = state]
Param(c, i) == c.vt_params[i]
Count(c) == Max({Param(c, 1), 1})

vt_accumulate_digit(c, ch) ==
  [c EXCEPT !.vt_params[c.vt_nparams] = Min({@ * 10 + Digit[ch], MaxParam})]

NextParam(c) == [c EXCEPT !.vt_nparams = Min({@ + 1, VT_MAX_PARAMS})]

Position(c) ==
  set_cursor(c, Monus(Param(c, 1), 1), IF c.vt_nparams >= 2 THEN Monus(Param(c, 2), 1) ELSE 0)

Command(c, ch) ==
  CASE ch \in {"H", "f"} -> Position(c)
    [] ch = "A" -> set_cursor(c, Monus(c.cursor_row, Count(c)), c.cursor_col)
    [] ch = "B" -> set_cursor(c, c.cursor_row + Count(c), c.cursor_col)
    [] ch = "C" -> set_cursor(c, c.cursor_row, c.cursor_col + Count(c))
    [] ch = "D" -> set_cursor(c, c.cursor_row, Monus(c.cursor_col, Count(c)))
    [] ch = "J" -> IF Param(c, 1) = 2 THEN clear(c) ELSE c
    [] ch = "K" -> clear_to_eol(c)
    [] OTHER    -> c

PrivateCommand(c, ch) ==
  IF Param(c, 1) = 25 /\ ch \in {"h", "l"} THEN show_cursor(c, ch = "h") ELSE c

(* The parameters are forgotten with the end of the sequence: the code     *)
(* clears them at the start of the next one, before it reads them.         *)
NoParams == [i \in 1 .. VT_MAX_PARAMS |-> 0]
Forget(c) == [To(c, "normal") EXCEPT !.vt_nparams = 0, !.vt_params = NoParams]

(* What csi and qmark sequences have in common: digits and separators.     *)
Sequence(c, ch, end) ==
  IF ch \in DOMAIN Digit THEN vt_accumulate_digit(c, ch)
  ELSE IF ch = ";" THEN NextParam(c)
  ELSE Forget(end)

vt_handle_csi(c, ch) == Sequence(c, ch, Command(c, ch))
vt_handle_qmark(c, ch) == Sequence(c, ch, PrivateCommand(c, ch))

vt_process(c, ch) ==
  CASE c.vt_state = "normal" ->
         IF ch = "ESC" THEN To(c, "esc") ELSE putchar_inner(draw_cursor(c, FALSE), ch)
    [] c.vt_state = "esc" ->
         IF ch = "["
         THEN [To(c, "csi") EXCEPT !.vt_nparams = 1]
         ELSE To(c, "normal")
    [] c.vt_state = "csi" -> IF ch = "?" THEN To(c, "qmark") ELSE vt_handle_csi(c, ch)
    [] c.vt_state = "qmark" -> vt_handle_qmark(c, ch)

----------------------------------------------------------------------------
(* print and vt_write hold the flushes back until they return; a single    *)
(* putchar does not.  Nothing runs in between: the kernel has one thread,  *)
(* and its interrupt handler does not draw.                                *)

print(c, s) == flush_release(FoldLeft(vt_process, flush_hold(c), s))

NewConsole ==
  clear([shadow |-> Empty, front |-> Empty, cursor_row |-> 0, cursor_col |-> 0, wrap_pending |-> FALSE,
         flush_held |-> FALSE, dirty_min_y |-> 0, dirty_max_y |-> 0, graphics_active |-> FALSE,
         vt_state |-> "normal", vt_params |-> NoParams, vt_nparams |-> 0])

ConsoleInit == con = NewConsole /\ typed = <<>>

(* The text on the screen is remembered, less what Backspace takes back of *)
(* a line shorter than the screen, until something else moves the cursor   *)
(* or erases.                                                              *)
Lines(text) ==
  FoldLeft(LAMBDA ls, ch : IF ch = "\n" THEN Append(ls, <<>>)
                           ELSE [ls EXCEPT ![Len(ls)] = Append(@, ch)], << <<>> >>, text)

Remember(text) ==
  IF typed = Moved \/ con.vt_state # "normal" \/ con.graphics_active THEN Moved
  ELSE IF text = <<"BS">> /\ Len(Last(Lines(typed))) \in 1 .. fb_cols - 1 THEN Front(typed)
  ELSE IF Range(text) \intersect {"BS", "\r", "ESC"} = {} /\ Len(typed \o text) <= MaxTyped
       THEN typed \o text
  ELSE Moved

Putchar(ch) == con' = vt_process(con, ch) /\ typed' = Remember(<<ch>>)

Write(text) == con' = print(con, text) /\ typed' = Remember(text)

Cls == con' = clear(con) /\ typed' = <<>>

ConsoleNext == (\E ch \in Key : Putchar(ch)) \/ (\E text \in Text : Write(text)) \/ Cls

ConsoleSpec == ConsoleInit /\ [][ConsoleNext]_<<con, typed>>

----------------------------------------------------------------------------
(* Properties.                                                             *)

(* The cursor is in the screen, a wrap is pending only in the last column, *)
(* and the dirty lines and the parameter count are within their arrays.    *)
ConsoleTypeOK ==
  /\ con.cursor_row \in Row /\ con.cursor_col \in Col
  /\ con.wrap_pending => con.cursor_col = fb_cols - 1
  /\ con.dirty_min_y <= con.dirty_max_y /\ con.dirty_max_y <= fb_height
  /\ con.vt_nparams \in 0 .. VT_MAX_PARAMS

(* The first line of a row of text.                                        *)
Body(row) == row * FONT_H

(* Between calls nothing is held back, and what was drawn is on the screen *)
(* but for cursors left behind: every character, and the cell of the       *)
(* cursor unless a carriage return took it there (term.rs:193, 336, 393).  *)
(* Excepted are the lines in stray, where others draw.                     *)
ShownBut(stray) ==
  /\ ~con.flush_held
  /\ ~con.graphics_active =>
       /\ \A row \in Row : Body(row) \notin stray => con.front[Body(row)] = con.shadow[Body(row)]
       /\ LET foot == Body(con.cursor_row) + FONT_H - 1
          IN  con.cursor_col # 0 /\ foot \notin stray =>
                con.front[foot][con.cursor_col] = con.shadow[foot][con.cursor_col]

(* The reference: text is split into lines at line feeds, a line longer    *)
(* than the screen into pieces, and the last lines are shown.              *)
Pieces(s) ==
  IF s = <<>> THEN <<s>>
  ELSE [i \in 1 .. (Len(s) + fb_cols - 1) \div fb_cols |->
          SubSeq(s, (i - 1) * fb_cols + 1, Min({i * fb_cols, Len(s)}))]

Layout(text) ==
  LET all == FlattenSeq([i \in 1 .. Len(Lines(text)) |-> Pieces(Lines(text)[i])])
      top == Max({Len(all) - fb_rows, 0})
  IN  SubSeq(all, top + 1, Len(all))

(* Text that was printed in any mixture of writes and echoes is laid out   *)
(* as the reference lays it out, with the cursor after it: the wrap is     *)
(* deferred, and no character is lost by it, by scrolling or by a graphics *)
(* mode in between (term.rs:352-391, graphics.rs:187).                     *)
LaidOut ==
  typed # Moved /\ ~con.graphics_active =>
    LET page == Layout(typed)
    IN  /\ \A row \in Row, col \in Col :
             con.shadow[Body(row)][col] =
               IF row < Len(page) /\ col < Len(page[row + 1]) THEN {page[row + 1][col + 1]} \ {" "} ELSE {}
        /\ con.cursor_row = Len(page) - 1
        /\ con.cursor_col = Min({Len(Last(page)), fb_cols - 1})
=============================================================================
