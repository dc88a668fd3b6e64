------------------------------ MODULE Screen ------------------------------
(***************************************************************************)
(* The screen as a BASIC session uses it: the console and the graphics     *)
(* modes, which share the shadow buffer and the frame buffer.  Text may be *)
(* printed at any time, also in a graphics mode, where it is drawn into    *)
(* the shadow buffer without being marked or shown; a statement of         *)
(* graphics may be executed at any time, also in a text mode, where FILLTO *)
(* alone may still draw.                                                   *)
(***************************************************************************)
EXTENDS Graphics

CONSTANTS
  MaxSaved,  \* bound: remembered text when graphics start
  MaxDrawn   \* bound: strokes since

VARIABLE drawn   \* strokes since graphics started: only counts against the bound

vars == <<con, typed, gfx, inked, drawn>>

Init == ConsoleInit /\ gfx = NewGraphics /\ inked = {} /\ drawn = 0

----------------------------------------------------------------------------
(* The console's operations.  What it draws in a graphics mode is noted,   *)
(* and what it shows in a text mode of what FILLTO drew.                   *)

Inking ==
  inked' = IF Active THEN inked \union {y \in Line : con'.shadow[y] # con.shadow[y]}
           ELSE {y \in inked : con'.front[y] # con'.shadow[y]}

Budget ==
  IF drawn > 0 THEN drawn < MaxDrawn /\ drawn' = drawn + 1
  ELSE drawn' = IF typed' = Moved \/ gfx' # gfx THEN 1 ELSE 0

Echo == (\E ch \in Key : Putchar(ch)) /\ Inking /\ UNCHANGED gfx /\ Budget

Say ==
  /\ con.vt_state = "normal"   \* a bound: strings hold whole escape sequences
  /\ (\E s \in Text : Write(s)) /\ Inking /\ UNCHANGED gfx /\ Budget

----------------------------------------------------------------------------
(* Statements.                                                             *)

Stroking ==
  /\ \/ \E p \in Point : plot(p) \/ drawto(p) \/ fillto(p) \/ pos(p)
     \/ \E ink \in Ink : set_color(ink)
     \/ \E xor \in BOOLEAN : set_draw_mode(xor)
     \/ text(<<"g", "g">>)
  /\ Budget

Both(s) == con' = s.c /\ gfx' = s.g

Now == [g |-> gfx, c |-> con]

(* CLS clears the graphics, or the console in a text mode.                 *)
exec_cls ==
  /\ IF Active
     THEN LET s == clear_buffer(Now)
          IN  Both([s EXCEPT !.g = Origin(s.g)]) /\ inked' = {} /\ UNCHANGED typed
     ELSE Cls /\ Inking /\ UNCHANGED gfx
  /\ Budget

(* SHOW.                                                                   *)
exec_show ==
  /\ Both(present(Now))
  /\ inked' = IF ~Active THEN inked
              ELSE IF can_flip THEN {} ELSE inked \ (gfx.dirty_y0 .. gfx.dirty_y1 - 1)
  /\ UNCHANGED <<typed, drawn>>

(* GRAPHICS.  The text that is restored is the text that was typed, unless *)
(* the cursor has been moved.                                              *)
exec_graphics(mode) ==
  /\ Both(set_mode(Now, mode))
  /\ ~Active /\ mode \in 2..5 => typed = Moved \/ Len(typed) <= MaxSaved
  /\ inked' = IF mode > 5 \/ (~Active /\ mode < 2) THEN inked ELSE {}
  /\ drawn' = IF drawn = 0 /\ mode \in 2..5 THEN 1 ELSE drawn
  /\ UNCHANGED typed

Next == Echo \/ Say \/ Stroking \/ exec_cls \/ exec_show \/ \E mode \in Mode : exec_graphics(mode)

Spec == Init /\ [][Next]_vars

----------------------------------------------------------------------------
(* Properties.                                                             *)

(* Positions are on the screen, no dirty region ends below it, and the     *)
(* virtual pixels of a graphics mode fit it (term.rs:100-126,              *)
(* graphics.rs:144-160).  A rectangle below the screen may leave a region  *)
(* that begins after its end, and is empty (graphics.rs:320-339).          *)
TypeOK ==
  /\ ConsoleTypeOK
  /\ con.graphics_active <=> Active
  /\ gfx.mode \in 0..5 /\ gfx.draw_page \in {0, 1}
  /\ gfx.dirty_y0 >= 0 /\ gfx.dirty_y1 <= fb_height
  /\ gfx.offset_x < fb_width /\ gfx.offset_y < fb_height
  /\ Active => /\ gfx.virt_width > 0 /\ gfx.offset_x + gfx.virt_width * gfx.pixel_scale <= fb_width
               /\ gfx.virt_height > 0 /\ gfx.offset_y + gfx.virt_height * gfx.pixel_scale <= fb_height

(* The page the card displays.                                             *)
Displayed == IF gfx.draw_page = 0 THEN con.front ELSE gfx.page1

(* What the console draws in a text mode is shown.                         *)
Shown == ShownBut(inked)

(* In a graphics mode SHOW brings the screen up to date: a line on which   *)
(* it differs from the shadow buffer is marked dirty, unless it was the    *)
(* console that drew there, which marks nothing (graphics.rs:230, 374).    *)
Marked ==
  Active =>
    \A y \in Line : Displayed[y] # con.shadow[y] =>
      y \in inked \union gfx.dirty_y0 .. gfx.dirty_y1 - 1

(* DRAWTO draws a line: from any cursor it ends at its end, each point is  *)
(* a neighbour of the one before, and none is more than half a pixel off   *)
(* the straight line (graphics.rs:280-309).                                *)
LineTrue ==
  \A p \in IF Active THEN Point ELSE {} :
    LET from == gfx.cursor
        path == Path(from, p)
        n == Steps(from, p)
        off(q) == (p[1] - from[1]) * (q[2] - from[2]) - (p[2] - from[2]) * (q[1] - from[1])
    IN  /\ path[n] = p
        /\ \A i \in 1 .. n : Steps(path[i - 1], path[i]) = 1
        /\ \A i \in 0 .. n : 2 * Abs(off(path[i])) <= n

(* Back in a text mode the text is on the screen again (graphics.rs:188:   *)
(* "Graphics -> Text: restore text screen").                               *)
TextShown ==
  ~Active => \A row \in Row : Body(row) \notin inked => Displayed[Body(row)] = con.shadow[Body(row)]
=============================================================================
