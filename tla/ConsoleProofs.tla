--------------------------- MODULE ConsoleProofs ---------------------------
(***************************************************************************)
(* Proofs about the text console, for every size of the screen, every text *)
(* and every escape sequence: the cursor stays on the screen, between      *)
(* calls what was drawn is in the frame buffer, and what was printed is    *)
(* laid out in lines and rows as the reference of Console lays it out.     *)
(***************************************************************************)
EXTENDS Console, Integers, FiniteSetTheorems, SequenceTheorems, WellFoundedInduction, TLAPS

----------------------------------------------------------------------------
(* The invariant of a console.                                             *)

VtState == {"normal", "esc", "csi", "qmark"}

(* A picture of the size of the screen.                                    *)
Picture(p) ==
  /\ p = [y \in Line |-> p[y]]
  /\ \A y \in Line : p[y] = [x \in Col |-> p[y][x]]

(* The fields of a console, and their types.                               *)
Safe(c) ==
  /\ c = [shadow |-> c.shadow, front |-> c.front,
          cursor_row |-> c.cursor_row, cursor_col |-> c.cursor_col, wrap_pending |-> c.wrap_pending,
          flush_held |-> c.flush_held, dirty_min_y |-> c.dirty_min_y, dirty_max_y |-> c.dirty_max_y,
          graphics_active |-> c.graphics_active,
          vt_state |-> c.vt_state, vt_params |-> c.vt_params, vt_nparams |-> c.vt_nparams]
  /\ Picture(c.shadow)
  /\ c.cursor_row \in Row /\ c.cursor_col \in Col
  /\ c.wrap_pending \in BOOLEAN /\ (c.wrap_pending => c.cursor_col = fb_cols - 1)
  /\ c.flush_held \in BOOLEAN /\ c.graphics_active \in BOOLEAN
  /\ c.dirty_min_y \in Nat /\ c.dirty_max_y \in Nat
  /\ c.dirty_min_y <= c.dirty_max_y /\ c.dirty_max_y <= fb_height

(* The parser of escape sequences has a parameter to add digits to.        *)
Parsing(c) ==
  /\ c.vt_state \in VtState
  /\ c.vt_params \in [1 .. VT_MAX_PARAMS -> Nat]
  /\ c.vt_nparams \in 0 .. VT_MAX_PARAMS
  /\ c.vt_state \in {"csi", "qmark"} => c.vt_nparams # 0

(* Line y is on the screen, or will be when what is held back is flushed,  *)
(* unless it is one of those where others draw.                            *)
Due(c, y) == c.flush_held /\ c.dirty_min_y <= y /\ y < c.dirty_max_y
Fresh(c, y, stray) == c.front[y] = c.shadow[y] \/ Due(c, y) \/ y \in stray

Foot(c) == c.cursor_row * FONT_H + FONT_H - 1
CursorFresh(c, stray) ==
  c.cursor_col # 0 =>
    \/ c.front[Foot(c)][c.cursor_col] = c.shadow[Foot(c)][c.cursor_col]
    \/ Due(c, Foot(c)) \/ Foot(c) \in stray

(* What is drawn is on the screen, but for the row of the cursor; also     *)
(* the body of that row; also the cell of the cursor.                      *)
OthersShown(c, stray) == c.graphics_active \/ \A row \in Row : row # c.cursor_row => Fresh(c, Body(row), stray)
BodiesShown(c, stray) == c.graphics_active \/ \A row \in Row : Fresh(c, Body(row), stray)
AllShown(c, stray) == BodiesShown(c, stray) /\ (c.graphics_active \/ CursorFresh(c, stray))

(* What operations leave alone.                                            *)
Kept(c, d) ==
  /\ d.graphics_active = c.graphics_active /\ d.flush_held = c.flush_held
  /\ c.graphics_active => d.front = c.front
SameFlush(c, d) ==
  /\ d.graphics_active = c.graphics_active /\ d.flush_held = c.flush_held /\ d.front = c.front
  /\ d.dirty_min_y = c.dirty_min_y /\ d.dirty_max_y = c.dirty_max_y
SameCursor(c, d) ==
  d.cursor_row = c.cursor_row /\ d.cursor_col = c.cursor_col /\ d.wrap_pending = c.wrap_pending
SameVt(c, d) == d.vt_state = c.vt_state /\ d.vt_params = c.vt_params /\ d.vt_nparams = c.vt_nparams

----------------------------------------------------------------------------
(* Arithmetic.                                                             *)

LEMMA Sizes ==
  /\ fb_width \in Nat /\ fb_width # 0 /\ fb_height \in Nat /\ fb_rows \in Nat /\ fb_rows # 0
  /\ fb_rows * 2 <= fb_height /\ FONT_H = 2 /\ fb_cols = fb_width
  /\ VT_MAX_PARAMS \in Nat /\ VT_MAX_PARAMS # 0 /\ MaxParam \in Nat
BY ConsoleAssumption DEF fb_rows, FONT_H, fb_cols

LEMMA RowLines ==
  ASSUME NEW row \in Row
  PROVE  /\ row \in Nat /\ row < fb_rows
         /\ row * FONT_H = 2 * row /\ Body(row) = 2 * row /\ row * FONT_H + FONT_H - 1 = 2 * row + 1
         /\ 2 * row \in Line /\ 2 * row + 1 \in Line
BY Sizes DEF Row, Line, Body

LEMMA MinPair == ASSUME NEW a \in Int, NEW b \in Int PROVE Min({a, b}) = IF a <= b THEN a ELSE b
<1>1. \E x \in {a, b} : \A y \in {a, b} : x <= y
  OBVIOUS
<1> QED
  BY <1>1 DEF Min

LEMMA MaxPair == ASSUME NEW a \in Int, NEW b \in Int PROVE Max({a, b}) = IF a >= b THEN a ELSE b
<1>1. \E x \in {a, b} : \A y \in {a, b} : x >= y
  OBVIOUS
<1> QED
  BY <1>1 DEF Max

----------------------------------------------------------------------------
(* Drawing.                                                                *)

(* A change of a cell of a picture.                                        *)
LEMMA Pixel ==
  ASSUME NEW q, Picture(q), NEW y \in Line, NEW x, NEW v,
         NEW r, r = [q[y] EXCEPT ![x] = v], NEW p, p = [q EXCEPT ![y] = r]
  PROVE  Picture(p) /\ \A z \in Line : z # y => p[z] = q[z]
<1>1. p = [z \in Line |-> p[z]] /\ p[y] = r /\ \A z \in Line : z # y => p[z] = q[z]
  BY DEF Picture
<1>2. q[y] = [w \in Col |-> q[y][w]]
  BY DEF Picture
<1>3. p[y] = [w \in Col |-> p[y][w]]
  BY <1>1, <1>2
<1>4. ASSUME NEW z \in Line, z # y PROVE p[z] = [w \in Col |-> p[z][w]]
  <2>1. q[z] = [w \in Col |-> q[z][w]]
    BY DEF Picture
  <2> QED
    BY ONLY <1>1, <1>4, <2>1
<1> QED
  BY ONLY <1>1, <1>3, <1>4 DEF Picture

(* A change of the shadow buffer.                                          *)
LEMMA Redraw ==
  ASSUME NEW c, Safe(c), NEW p, Picture(p),
         NEW d, d = [c EXCEPT !.shadow = p]
  PROVE  /\ Safe(d) /\ d.shadow = p
         /\ SameFlush(c, d) /\ SameCursor(c, d) /\ SameVt(c, d)
<1>1. /\ d.shadow = p /\ d.front = c.front
      /\ d.cursor_row = c.cursor_row /\ d.cursor_col = c.cursor_col /\ d.wrap_pending = c.wrap_pending
      /\ d.flush_held = c.flush_held /\ d.dirty_min_y = c.dirty_min_y /\ d.dirty_max_y = c.dirty_max_y
      /\ d.graphics_active = c.graphics_active
      /\ d.vt_state = c.vt_state /\ d.vt_params = c.vt_params /\ d.vt_nparams = c.vt_nparams
  BY DEF Safe
<1>2. d = [shadow |-> d.shadow, front |-> d.front,
           cursor_row |-> d.cursor_row, cursor_col |-> d.cursor_col, wrap_pending |-> d.wrap_pending,
           flush_held |-> d.flush_held, dirty_min_y |-> d.dirty_min_y, dirty_max_y |-> d.dirty_max_y,
           graphics_active |-> d.graphics_active,
           vt_state |-> d.vt_state, vt_params |-> d.vt_params, vt_nparams |-> d.vt_nparams]
  BY DEF Safe
<1>3. Safe(d)
  BY <1>1, <1>2 DEF Safe
<1> QED
  BY <1>1, <1>3 DEF SameFlush, SameCursor, SameVt

(* Then what was shown is shown.                                           *)
LEMMA StillOthers ==
  ASSUME NEW stray, NEW c, NEW d, SameFlush(c, d), SameCursor(c, d), OthersShown(c, stray),
         \A row \in Row : row # c.cursor_row => d.shadow[2 * row] = c.shadow[2 * row]
  PROVE  OthersShown(d, stray)
BY RowLines DEF SameFlush, SameCursor, OthersShown, Fresh, Due

LEMMA StillBodies ==
  ASSUME NEW stray, NEW c, NEW d, SameFlush(c, d), BodiesShown(c, stray),
         \A row \in Row : d.shadow[2 * row] = c.shadow[2 * row]
  PROVE  BodiesShown(d, stray)
BY RowLines DEF SameFlush, BodiesShown, Fresh, Due

LEMMA SameKept == ASSUME NEW c, NEW d, SameFlush(c, d) PROVE Kept(c, d)
BY DEF SameFlush, Kept

LEMMA DrawCursor ==
  ASSUME NEW stray, NEW c, Safe(c), NEW show, NEW d, d = draw_cursor(c, show)
  PROVE  /\ Safe(d) /\ SameFlush(c, d) /\ SameCursor(c, d) /\ SameVt(c, d)
         /\ OthersShown(c, stray) => OthersShown(d, stray)
         /\ BodiesShown(c, stray) => BodiesShown(d, stray)
<1> DEFINE y == 2 * c.cursor_row + 1
           v == IF show THEN {"_"} ELSE {}
           r == [c.shadow[y] EXCEPT ![c.cursor_col] = v]
           p == [c.shadow EXCEPT ![y] = r]
<1>1. y \in Line /\ c.cursor_row * FONT_H + FONT_H - 1 = y
  BY RowLines DEF Safe
<1>2. d = [c EXCEPT !.shadow = p]
  BY <1>1 DEF draw_cursor, Safe
<1>3. Picture(p) /\ \A z \in Line : z # y => p[z] = c.shadow[z]
  <2>1. Picture(c.shadow)
    BY DEF Safe
  <2>2. r = [c.shadow[y] EXCEPT ![c.cursor_col] = v] /\ p = [c.shadow EXCEPT ![y] = r]
    OBVIOUS
  <2> HIDE DEF y, v, r, p
  <2> QED
    BY <1>1, <2>1, <2>2, Pixel
<1>4. \A row \in Row : p[2 * row] = c.shadow[2 * row]
  <2>1. \A row \in Row : 2 * row # y /\ 2 * row \in Line
    BY RowLines DEF Safe
  <2> HIDE DEF p
  <2> QED
    BY <1>3, <2>1
<1> HIDE DEF p, y
<1>5. Safe(d) /\ d.shadow = p /\ SameFlush(c, d) /\ SameCursor(c, d) /\ SameVt(c, d)
  BY <1>2, <1>3, Redraw
<1> QED
  BY <1>4, <1>5, StillOthers, StillBodies

LEMMA DrawChar ==
  ASSUME NEW stray, NEW c, Safe(c), NEW ch, NEW d, d = draw_char(c, c.cursor_col, c.cursor_row, ch)
  PROVE  /\ Safe(d) /\ SameFlush(c, d) /\ SameCursor(c, d) /\ SameVt(c, d)
         /\ OthersShown(c, stray) => OthersShown(d, stray)
<1> DEFINE y == 2 * c.cursor_row
           ink == IF ch = " " THEN {} ELSE {ch}
           foot == IF ch \in Descender THEN ink ELSE {}
           r1 == [c.shadow[y] EXCEPT ![c.cursor_col] = ink]
           q == [c.shadow EXCEPT ![y] = r1]
           y1 == y + 1
           r2 == [q[y1] EXCEPT ![c.cursor_col] = foot]
           p == [q EXCEPT ![y1] = r2]
<1>1. y \in Line /\ y + 1 \in Line /\ c.cursor_row * FONT_H = y
  BY RowLines DEF Safe
<1>2. d = [c EXCEPT !.shadow = p]
  <2>1. d = [c EXCEPT !.shadow[y][c.cursor_col] = ink, !.shadow[y + 1][c.cursor_col] = foot]
    BY <1>1 DEF draw_char
  <2> HIDE DEF y, ink, foot
  <2> QED
    BY <2>1 DEF Safe
<1>3. Picture(p) /\ \A z \in Line : z # y /\ z # y + 1 => p[z] = c.shadow[z]
  <2>1. Picture(c.shadow)
    BY DEF Safe
  <2>2. r1 = [c.shadow[y] EXCEPT ![c.cursor_col] = ink] /\ q = [c.shadow EXCEPT ![y] = r1]
    OBVIOUS
  <2>3. r2 = [q[y1] EXCEPT ![c.cursor_col] = foot] /\ p = [q EXCEPT ![y1] = r2]
    OBVIOUS
  <2>4. y1 = y + 1 /\ y1 \in Line /\ y \in Line
    BY <1>1
  <2> HIDE DEF y, y1, r1, q, r2, p, ink, foot
  <2>5. Picture(q) /\ \A z \in Line : z # y => q[z] = c.shadow[z]
    BY <2>1, <2>2, <2>4, Pixel
  <2>6. Picture(p) /\ \A z \in Line : z # y1 => p[z] = q[z]
    <3>1. Picture(q) /\ y1 \in Line
      BY <2>4, <2>5
    <3>2. q = [z \in Line |-> q[z]] /\ q[y1] = [x \in Col |-> q[y1][x]]
      BY ONLY <3>1 DEF Picture
    <3>3. r2 = [x \in Col |-> r2[x]]
      BY ONLY <2>3, <3>2
    <3>4. p = [z \in Line |-> p[z]] /\ p[y1] = r2 /\ \A z \in Line : z # y1 => p[z] = q[z]
      BY ONLY <2>3, <3>1, <3>2
    <3> QED
      BY ONLY <3>1, <3>3, <3>4 DEF Picture
  <2> QED
    BY <2>4, <2>5, <2>6
<1>4. \A row \in Row : row # c.cursor_row => p[2 * row] = c.shadow[2 * row]
  <2>1. \A row \in Row : row # c.cursor_row => 2 * row # y /\ 2 * row # y + 1 /\ 2 * row \in Line
    BY RowLines DEF Safe
  <2> HIDE DEF p
  <2> QED
    BY <1>3, <2>1
<1> HIDE DEF p, q, y
<1>5. Safe(d) /\ d.shadow = p /\ SameFlush(c, d) /\ SameCursor(c, d) /\ SameVt(c, d)
  BY <1>2, <1>3, Redraw
<1> QED
  BY <1>4, <1>5, StillOthers

----------------------------------------------------------------------------
(* Flushing.                                                               *)

(* Lines from y0 are shown, or will be, and so is what was before.         *)
LEMMA FlushRegion ==
  ASSUME NEW c, Safe(c), NEW y0 \in Nat, NEW rows \in Nat, rows # 0, y0 + rows <= fb_height,
         NEW d, d = flush_region(c, y0, rows)
  PROVE  /\ Safe(d) /\ Kept(c, d) /\ SameCursor(c, d) /\ SameVt(c, d) /\ d.shadow = c.shadow
         /\ \A stray : \A y \in Line : Fresh(c, y, stray) \/ y \in y0 .. y0 + rows - 1 => c.graphics_active \/ Fresh(d, y, stray)
<1>1. CASE c.graphics_active
  BY <1>1 DEF flush_region, Kept, SameCursor, SameVt
<1>2. CASE ~c.graphics_active /\ ~c.flush_held
  <2> DEFINE f == [y \in Line |-> IF y \in y0 .. y0 + rows - 1 THEN c.shadow[y] ELSE c.front[y]]
  <2>1. d = [c EXCEPT !.front = f]
    BY <1>2 DEF flush_region, CopyLines
  <2>2. \A y \in Line : f[y] = IF y \in y0 .. y0 + rows - 1 THEN c.shadow[y] ELSE c.front[y]
    OBVIOUS
  <2> HIDE DEF f
  <2>3. d = [shadow |-> c.shadow, front |-> f,
             cursor_row |-> c.cursor_row, cursor_col |-> c.cursor_col, wrap_pending |-> c.wrap_pending,
             flush_held |-> c.flush_held, dirty_min_y |-> c.dirty_min_y, dirty_max_y |-> c.dirty_max_y,
             graphics_active |-> c.graphics_active,
             vt_state |-> c.vt_state, vt_params |-> c.vt_params, vt_nparams |-> c.vt_nparams]
    BY <2>1 DEF Safe
  <2>4. Safe(d) /\ Kept(c, d) /\ SameCursor(c, d) /\ SameVt(c, d) /\ d.shadow = c.shadow
    BY <1>2, <2>3 DEF Safe, Kept, SameCursor, SameVt
  <2>5. ASSUME NEW stray PROVE \A y \in Line : Fresh(c, y, stray) \/ y \in y0 .. y0 + rows - 1 => Fresh(d, y, stray)
    BY <1>2, <2>2, <2>3 DEF Fresh, Due
  <2> QED
    BY <2>4, <2>5
<1>3. CASE ~c.graphics_active /\ c.flush_held
  <2> DEFINE y1 == IF c.dirty_min_y = c.dirty_max_y \/ y0 <= c.dirty_min_y THEN y0 ELSE c.dirty_min_y
             y2 == IF c.dirty_min_y = c.dirty_max_y \/ y0 + rows >= c.dirty_max_y THEN y0 + rows ELSE c.dirty_max_y
  <2>0. c.dirty_min_y \in Nat /\ c.dirty_max_y \in Nat /\ c.dirty_min_y <= c.dirty_max_y /\ c.dirty_max_y <= fb_height
    BY DEF Safe
  <2>1. d = [c EXCEPT !.dirty_min_y = y1, !.dirty_max_y = y2]
    <3>1. CASE c.dirty_min_y = c.dirty_max_y
      BY <1>3, <3>1 DEF flush_region
    <3>2. CASE c.dirty_min_y # c.dirty_max_y
      <4>1. d = [c EXCEPT !.dirty_min_y = Min({c.dirty_min_y, y0}), !.dirty_max_y = Max({c.dirty_max_y, y0 + rows})]
        BY <1>3, <3>2 DEF flush_region, Safe
      <4>2. Min({c.dirty_min_y, y0}) = y1 /\ Max({c.dirty_max_y, y0 + rows}) = y2
        BY <2>0, <3>2, MinPair, MaxPair
      <4> QED
        BY <4>1, <4>2
    <3> QED
      BY <3>1, <3>2
  <2>2. /\ y1 \in Nat /\ y2 \in Nat /\ y1 <= y2 /\ y2 <= fb_height
        /\ \A y \in Line : Due(c, y) \/ y \in y0 .. y0 + rows - 1 => y1 <= y /\ y < y2
    BY <2>0, Sizes DEF Line, Due
  <2> HIDE DEF y1, y2
  <2>3. d = [shadow |-> c.shadow, front |-> c.front,
             cursor_row |-> c.cursor_row, cursor_col |-> c.cursor_col, wrap_pending |-> c.wrap_pending,
             flush_held |-> c.flush_held, dirty_min_y |-> y1, dirty_max_y |-> y2,
             graphics_active |-> c.graphics_active,
             vt_state |-> c.vt_state, vt_params |-> c.vt_params, vt_nparams |-> c.vt_nparams]
    BY <2>1 DEF Safe
  <2>4. Safe(d) /\ Kept(c, d) /\ SameCursor(c, d) /\ SameVt(c, d) /\ d.shadow = c.shadow
    BY <2>2, <2>3 DEF Safe, Kept, SameCursor, SameVt
  <2>5. ASSUME NEW stray PROVE \A y \in Line : Fresh(c, y, stray) \/ y \in y0 .. y0 + rows - 1 => Fresh(d, y, stray)
    BY <1>3, <2>2, <2>3 DEF Fresh, Due
  <2> QED
    BY <2>4, <2>5
<1> QED
  BY <1>1, <1>2, <1>3 DEF Safe

LEMMA FlushAll ==
  ASSUME NEW stray, NEW c, Safe(c), NEW d, d = flush_all(c)
  PROVE  /\ Safe(d) /\ Kept(c, d) /\ SameCursor(c, d) /\ SameVt(c, d) /\ d.shadow = c.shadow
         /\ BodiesShown(d, stray) /\ AllShown(d, stray)
<1>0. fb_height \in Nat /\ \A y \in Line : y \in Nat /\ 0 <= y /\ y < fb_height
  BY Sizes DEF Line
<1>1. /\ Safe(d) /\ Kept(c, d) /\ SameCursor(c, d) /\ SameVt(c, d) /\ d.shadow = c.shadow
      /\ c.graphics_active \/ \A y \in Line : Fresh(d, y, stray)
  <2>1. CASE c.graphics_active
    BY <2>1 DEF flush_all, Kept, SameCursor, SameVt
  <2>2. CASE ~c.graphics_active /\ ~c.flush_held
    <3> DEFINE f == [y \in Line |-> IF y \in Line THEN c.shadow[y] ELSE c.front[y]]
    <3>1. d = [c EXCEPT !.front = f]
      BY <2>2 DEF flush_all, CopyLines
    <3>2. \A y \in Line : f[y] = c.shadow[y]
      OBVIOUS
    <3> HIDE DEF f
    <3>3. d = [shadow |-> c.shadow, front |-> f,
               cursor_row |-> c.cursor_row, cursor_col |-> c.cursor_col, wrap_pending |-> c.wrap_pending,
               flush_held |-> c.flush_held, dirty_min_y |-> c.dirty_min_y, dirty_max_y |-> c.dirty_max_y,
               graphics_active |-> c.graphics_active,
               vt_state |-> c.vt_state, vt_params |-> c.vt_params, vt_nparams |-> c.vt_nparams]
      BY <3>1 DEF Safe
    <3> QED
      BY <2>2, <3>2, <3>3 DEF Safe, Kept, SameCursor, SameVt, Fresh
  <2>3. CASE ~c.graphics_active /\ c.flush_held
    <3>1. d = [c EXCEPT !.dirty_min_y = 0, !.dirty_max_y = fb_height]
      BY <2>3 DEF flush_all
    <3>2. d = [shadow |-> c.shadow, front |-> c.front,
               cursor_row |-> c.cursor_row, cursor_col |-> c.cursor_col, wrap_pending |-> c.wrap_pending,
               flush_held |-> c.flush_held, dirty_min_y |-> 0, dirty_max_y |-> fb_height,
               graphics_active |-> c.graphics_active,
               vt_state |-> c.vt_state, vt_params |-> c.vt_params, vt_nparams |-> c.vt_nparams]
      BY <3>1 DEF Safe
    <3>3. Safe(d) /\ Kept(c, d) /\ SameCursor(c, d) /\ SameVt(c, d) /\ d.shadow = c.shadow
      BY <1>0, <3>2 DEF Safe, Kept, SameCursor, SameVt
    <3>4. \A y \in Line : Fresh(d, y, stray)
      BY <1>0, <2>3, <3>2 DEF Fresh, Due
    <3> QED
      BY <3>3, <3>4
  <2> QED
    BY <2>1, <2>2, <2>3 DEF Safe
<1>2. BodiesShown(d, stray)
  BY <1>1, RowLines DEF BodiesShown, Kept
<1>3. d.graphics_active \/ CursorFresh(d, stray)
  <2>1. Foot(d) \in Line
    BY <1>1, RowLines DEF Safe, Foot
  <2> QED
    BY <1>1, <2>1 DEF CursorFresh, Kept, Fresh
<1> QED
  BY <1>1, <1>2, <1>3 DEF AllShown

LEMMA FlushRowShows ==
  ASSUME NEW stray, NEW c, Safe(c), OthersShown(c, stray), NEW d, d = FlushRow(c)
  PROVE  /\ Safe(d) /\ Kept(c, d) /\ SameCursor(c, d) /\ SameVt(c, d) /\ d.shadow = c.shadow
         /\ AllShown(d, stray)
<1> DEFINE y0 == 2 * c.cursor_row
<1>1. y0 \in Nat /\ y0 \in Line /\ y0 + 1 \in Line /\ y0 + 2 <= fb_height /\ c.cursor_row \in Row
  BY RowLines, Sizes DEF Safe, Line
<1>2. d = flush_region(c, y0, 2)
  BY RowLines, Sizes DEF FlushRow, Safe
<1>3. /\ Safe(d) /\ Kept(c, d) /\ SameCursor(c, d) /\ SameVt(c, d) /\ d.shadow = c.shadow
      /\ \A y \in Line : Fresh(c, y, stray) \/ y \in y0 .. y0 + 2 - 1 => c.graphics_active \/ Fresh(d, y, stray)
  BY <1>1, <1>2, FlushRegion
<1>4. c.graphics_active \/ (Fresh(d, y0, stray) /\ Fresh(d, y0 + 1, stray))
  BY <1>1, <1>3
<1>5. BodiesShown(d, stray)
  BY <1>1, <1>3, <1>4, RowLines DEF OthersShown, BodiesShown, Kept
<1>6. d.graphics_active \/ CursorFresh(d, stray)
  <2>1. Foot(d) = y0 + 1
    BY <1>1, <1>3, RowLines DEF Foot, SameCursor
  <2> QED
    BY <1>3, <1>4, <2>1 DEF CursorFresh, Kept, Fresh
<1> QED
  BY <1>3, <1>5, <1>6 DEF AllShown

LEMMA KeptTrans ==
  ASSUME NEW b, NEW c, NEW d, Kept(b, c), Kept(c, d)
  PROVE  Kept(b, d)
BY DEF Kept

LEMMA SameVtTrans ==
  ASSUME NEW b, NEW c, NEW d, SameVt(b, c), SameVt(c, d)
  PROVE  SameVt(b, d)
BY DEF SameVt

LEMMA AllOthers == ASSUME NEW stray, NEW c, AllShown(c, stray) PROVE BodiesShown(c, stray)
BY DEF AllShown

LEMMA BodiesOthers == ASSUME NEW stray, NEW c, BodiesShown(c, stray) PROVE OthersShown(c, stray)
BY DEF BodiesShown, OthersShown

----------------------------------------------------------------------------
(* Moving the cursor.                                                      *)

(* The console c with its cursor elsewhere, and no wrap pending.           *)
CursorAt(c, row, col) ==
  [shadow |-> c.shadow, front |-> c.front,
   cursor_row |-> row, cursor_col |-> col, wrap_pending |-> FALSE,
   flush_held |-> c.flush_held, dirty_min_y |-> c.dirty_min_y, dirty_max_y |-> c.dirty_max_y,
   graphics_active |-> c.graphics_active,
   vt_state |-> c.vt_state, vt_params |-> c.vt_params, vt_nparams |-> c.vt_nparams]

LEMMA MoveCursor ==
  ASSUME NEW c, Safe(c), NEW row \in Row, NEW col \in Col, NEW d, d = CursorAt(c, row, col)
  PROVE  /\ Safe(d) /\ SameFlush(c, d) /\ SameVt(c, d) /\ d.shadow = c.shadow
         /\ d.cursor_row = row /\ d.cursor_col = col /\ ~d.wrap_pending
         /\ \A stray : BodiesShown(c, stray) => BodiesShown(d, stray)
         /\ \A stray : row = c.cursor_row /\ OthersShown(c, stray) => OthersShown(d, stray)
<1>1. d = [shadow |-> c.shadow, front |-> c.front,
           cursor_row |-> row, cursor_col |-> col, wrap_pending |-> FALSE,
           flush_held |-> c.flush_held, dirty_min_y |-> c.dirty_min_y, dirty_max_y |-> c.dirty_max_y,
           graphics_active |-> c.graphics_active,
           vt_state |-> c.vt_state, vt_params |-> c.vt_params, vt_nparams |-> c.vt_nparams]
  BY DEF CursorAt
<1>2. /\ d.shadow = c.shadow /\ d.front = c.front
      /\ d.cursor_row = row /\ d.cursor_col = col /\ d.wrap_pending = FALSE
      /\ d.flush_held = c.flush_held /\ d.dirty_min_y = c.dirty_min_y /\ d.dirty_max_y = c.dirty_max_y
      /\ d.graphics_active = c.graphics_active
      /\ d.vt_state = c.vt_state /\ d.vt_params = c.vt_params /\ d.vt_nparams = c.vt_nparams
  BY <1>1
<1>3. d = [shadow |-> d.shadow, front |-> d.front,
           cursor_row |-> d.cursor_row, cursor_col |-> d.cursor_col, wrap_pending |-> d.wrap_pending,
           flush_held |-> d.flush_held, dirty_min_y |-> d.dirty_min_y, dirty_max_y |-> d.dirty_max_y,
           graphics_active |-> d.graphics_active,
           vt_state |-> d.vt_state, vt_params |-> d.vt_params, vt_nparams |-> d.vt_nparams]
  BY <1>1
<1>4. Safe(d) /\ SameFlush(c, d) /\ SameVt(c, d)
  BY <1>2, <1>3 DEF Safe, SameFlush, SameVt
<1>5. ASSUME NEW stray PROVE BodiesShown(c, stray) => BodiesShown(d, stray)
  BY <1>2, <1>4, StillBodies
<1>6. ASSUME NEW stray PROVE row = c.cursor_row /\ OthersShown(c, stray) => OthersShown(d, stray)
  BY <1>2 DEF OthersShown, Fresh, Due
<1> QED
  BY <1>2, <1>4, <1>5, <1>6

(* The ways the code moves it.                                             *)
LEMMA MoveForms ==
  ASSUME NEW c, Safe(c), NEW row, NEW col
  PROVE  /\ [c EXCEPT !.cursor_row = row, !.cursor_col = col, !.wrap_pending = FALSE] = CursorAt(c, row, col)
         /\ [c EXCEPT !.cursor_col = col, !.wrap_pending = FALSE] = CursorAt(c, c.cursor_row, col)
         /\ ~c.wrap_pending => [c EXCEPT !.cursor_col = col] = CursorAt(c, c.cursor_row, col)
         /\ ~c.wrap_pending => [c EXCEPT !.cursor_row = row] = CursorAt(c, row, c.cursor_col)
<1>1. ASSUME NEW d, d = [c EXCEPT !.cursor_row = row, !.cursor_col = col, !.wrap_pending = FALSE]
      PROVE  d = CursorAt(c, row, col)
  BY <1>1 DEF CursorAt, Safe
<1>2. ASSUME NEW d, d = [c EXCEPT !.cursor_col = col, !.wrap_pending = FALSE]
      PROVE  d = CursorAt(c, c.cursor_row, col)
  BY <1>2 DEF CursorAt, Safe
<1>3. ASSUME NEW d, ~c.wrap_pending, d = [c EXCEPT !.cursor_col = col]
      PROVE  d = CursorAt(c, c.cursor_row, col)
  BY <1>3 DEF CursorAt, Safe
<1>4. ASSUME NEW d, ~c.wrap_pending, d = [c EXCEPT !.cursor_row = row]
      PROVE  d = CursorAt(c, row, c.cursor_col)
  BY <1>4 DEF CursorAt, Safe
<1> QED
  BY <1>1, <1>2, <1>3, <1>4, Zenon

LEMMA Scroll ==
  ASSUME NEW stray, NEW c, Safe(c), NEW d, d = scroll(c)
  PROVE  Safe(d) /\ Kept(c, d) /\ SameCursor(c, d) /\ SameVt(c, d) /\ BodiesShown(d, stray)
<1> DEFINE p == [y \in Line |-> IF y < fb_height - FONT_H THEN c.shadow[y + FONT_H] ELSE Empty[y]]
           e == [c EXCEPT !.shadow = p]
<1>1. Picture(p)
  <2>1. \A y \in Line : y + FONT_H \in Line \/ ~(y < fb_height - FONT_H)
    BY Sizes DEF Line
  <2>2. \A y \in Line : c.shadow[y] = [x \in Col |-> c.shadow[y][x]]
    BY DEF Safe, Picture
  <2>3. \A y \in Line : Empty[y] = [x \in Col |-> Empty[y][x]]
    BY DEF Empty
  <2>4. \A y \in Line : p[y] = [x \in Col |-> p[y][x]]
    BY <2>1, <2>2, <2>3
  <2> QED
    BY <2>4 DEF Picture
<1> HIDE DEF p
<1>2. Safe(e) /\ SameFlush(c, e) /\ SameCursor(c, e) /\ SameVt(c, e)
  BY <1>1, Redraw
<1>3. d = flush_all(e)
  BY DEF scroll, p
<1> HIDE DEF e
<1>4. Safe(d) /\ Kept(e, d) /\ SameCursor(e, d) /\ SameVt(e, d) /\ BodiesShown(d, stray)
  BY <1>2, <1>3, FlushAll
<1> QED
  BY <1>2, <1>4, SameKept, KeptTrans, SameVtTrans DEF SameCursor

LEMMA NextRowKeeps ==
  ASSUME NEW stray, NEW c, Safe(c), NEW d, d = NextRow(c)
  PROVE  /\ Safe(d) /\ Kept(c, d) /\ SameVt(c, d)
         /\ BodiesShown(c, stray) => BodiesShown(d, stray)
         /\ ~d.wrap_pending
<1> DEFINE start == [c EXCEPT !.cursor_col = 0, !.wrap_pending = FALSE]
<1>0. /\ 0 \in Col /\ c.cursor_row \in Row /\ fb_rows - 1 \in Row
      /\ c.cursor_row + 1 < fb_rows => c.cursor_row + 1 \in Row
  BY Sizes DEF Col, Row, Safe
<1>1. start = CursorAt(c, c.cursor_row, 0)
  BY MoveForms
<1>2. CASE c.cursor_row + 1 < fb_rows
  <2>1. d = [start EXCEPT !.cursor_row = c.cursor_row + 1]
    BY <1>1, <1>2 DEF NextRow, CursorAt
  <2>2. d = CursorAt(c, c.cursor_row + 1, 0)
    BY <1>1, <2>1 DEF CursorAt
  <2> HIDE DEF start
  <2>3. Safe(d) /\ SameFlush(c, d) /\ SameVt(c, d) /\ ~d.wrap_pending
        /\ (BodiesShown(c, stray) => BodiesShown(d, stray))
    BY <1>0, <1>2, <2>2, MoveCursor
  <2> QED
    BY <2>3, SameKept
<1>3. CASE ~(c.cursor_row + 1 < fb_rows)
  <2>1. Safe(start) /\ SameFlush(c, start) /\ SameVt(c, start) /\ start.cursor_col = 0 /\ ~start.wrap_pending
    <3> HIDE DEF start
    <3> QED
      BY <1>0, <1>1, MoveCursor
  <2> DEFINE s == scroll(start)
  <2>2. d = [s EXCEPT !.cursor_row = fb_rows - 1]
    BY <1>3 DEF NextRow
  <2> HIDE DEF start
  <2>3. Safe(s) /\ Kept(start, s) /\ SameCursor(start, s) /\ SameVt(start, s) /\ BodiesShown(s, stray)
    BY <2>1, Scroll
  <2> HIDE DEF s
  <2>4. s.cursor_col = 0 /\ ~s.wrap_pending
    BY <2>1, <2>3 DEF SameCursor
  <2>5. d = CursorAt(s, fb_rows - 1, 0)
    BY <2>2, <2>3, <2>4, MoveForms
  <2>6. Safe(d) /\ SameFlush(s, d) /\ SameVt(s, d) /\ BodiesShown(d, stray) /\ ~d.wrap_pending
    BY <1>0, <2>3, <2>5, MoveCursor
  <2> QED
    BY <2>1, <2>3, <2>6, SameKept, KeptTrans, SameVtTrans
<1> QED
  BY <1>2, <1>3

----------------------------------------------------------------------------
(* Characters.                                                             *)

(* What an operation on a console must do.                                 *)
Does(c, d, stray) == Safe(d) /\ Kept(c, d) /\ SameVt(c, d) /\ AllShown(d, stray)

LEMMA EmptyPicture == Picture(Empty)
BY DEF Picture, Empty

LEMMA ClearDoes ==
  ASSUME NEW stray, NEW c, Safe(c)
  PROVE  Does(c, clear(c), stray)
<1> DEFINE e == [c EXCEPT !.shadow = Empty]
           f == [e EXCEPT !.cursor_row = 0, !.cursor_col = 0, !.wrap_pending = FALSE]
           g == draw_cursor(f, TRUE)
           d == flush_all(g)
<1>0. 0 \in Row /\ 0 \in Col
  BY Sizes DEF Row, Col
<1>1. Picture(Empty)
  BY EmptyPicture
<1>2. Safe(e) /\ SameFlush(c, e) /\ SameVt(c, e)
  BY <1>1, Redraw
<1>3. clear(c) = d
  <2>1. [c EXCEPT !.shadow = Empty, !.cursor_row = 0, !.cursor_col = 0, !.wrap_pending = FALSE] = f
    BY DEF Safe
  <2> QED
    BY <2>1 DEF clear
<1> HIDE DEF e
<1>a. f = CursorAt(e, 0, 0)
  <2> HIDE DEF f, g, d
  <2>1. Safe(e)
    BY <1>2
  <2>2. f = [e EXCEPT !.cursor_row = 0, !.cursor_col = 0, !.wrap_pending = FALSE]
    BY DEF f
  <2> QED
    BY <2>1, <2>2 DEF CursorAt, Safe
<1> HIDE DEF f
<1>4. Safe(f) /\ SameFlush(e, f) /\ SameVt(e, f)
  BY <1>0, <1>2, <1>a, MoveCursor
<1>5. Safe(g) /\ SameFlush(f, g) /\ SameVt(f, g)
  BY <1>4, DrawCursor
<1> HIDE DEF g
<1>6. Safe(d) /\ Kept(g, d) /\ SameVt(g, d) /\ AllShown(d, stray)
  BY <1>5, FlushAll
<1> HIDE DEF d
<1>7. Kept(c, d) /\ SameVt(c, d)
  BY <1>2, <1>4, <1>5, <1>6, SameKept, KeptTrans, SameVtTrans
<1> QED
  BY <1>3, <1>6, <1>7 DEF Does

(* Drawing the cursor and flushing its row.                                *)
LEMMA ShowDoes ==
  ASSUME NEW stray, NEW c, Safe(c), OthersShown(c, stray), NEW show
  PROVE  Does(c, FlushRow(draw_cursor(c, show)), stray)
<1> DEFINE e == draw_cursor(c, show)
           d == FlushRow(e)
<1>1. Safe(e) /\ SameFlush(c, e) /\ SameVt(c, e) /\ OthersShown(e, stray)
  BY DrawCursor
<1> HIDE DEF e
<1>2. Safe(d) /\ Kept(e, d) /\ SameVt(e, d) /\ AllShown(d, stray)
  BY <1>1, FlushRowShows
<1> HIDE DEF d
<1>3. Does(c, d, stray)
  BY <1>1, <1>2, SameKept, KeptTrans, SameVtTrans DEF Does
<1> QED
  BY <1>3 DEF d, e

LEMMA DoesAfter ==
  ASSUME NEW stray, NEW b, NEW c, NEW d, Kept(b, c), SameVt(b, c), Does(c, d, stray)
  PROVE  Does(b, d, stray)
BY KeptTrans, SameVtTrans DEF Does

LEMMA CarriageReturnDoes ==
  ASSUME NEW stray, NEW c, Safe(c), BodiesShown(c, stray)
  PROVE  Does(c, CarriageReturn(c), stray)
<1> DEFINE e == [c EXCEPT !.cursor_col = 0, !.wrap_pending = FALSE]
           d == draw_cursor(e, TRUE)
<1>0. 0 \in Col /\ c.cursor_row \in Row
  BY Sizes DEF Safe, Col
<1>1. e = CursorAt(c, c.cursor_row, 0)
  BY MoveForms
<1>a. CarriageReturn(c) = d
  BY DEF CarriageReturn
<1> HIDE DEF e
<1>2. Safe(e) /\ SameFlush(c, e) /\ SameVt(c, e) /\ BodiesShown(e, stray) /\ e.cursor_col = 0
  BY <1>0, <1>1, MoveCursor
<1>3. Safe(d) /\ SameFlush(e, d) /\ SameCursor(e, d) /\ SameVt(e, d) /\ BodiesShown(d, stray)
  BY <1>2, DrawCursor
<1> HIDE DEF d
<1>5. AllShown(d, stray)
  BY <1>2, <1>3 DEF AllShown, CursorFresh, SameCursor
<1> QED
  BY <1>a, <1>2, <1>3, <1>5, SameKept, KeptTrans, SameVtTrans DEF Does

LEMMA BackspaceDoes ==
  ASSUME NEW stray, NEW c, Safe(c), BodiesShown(c, stray)
  PROVE  Does(c, Backspace(c), stray)
<1>1. OthersShown(c, stray)
  BY BodiesOthers
<1>2. CASE ~(c.cursor_col > 0)
  <2>1. Backspace(c) = FlushRow(draw_cursor(c, TRUE))
    BY <1>2 DEF Backspace
  <2> QED
    BY <1>1, <2>1, ShowDoes
<1>3. CASE c.cursor_col > 0
  <2> DEFINE back == [c EXCEPT !.cursor_col = c.cursor_col - 1, !.wrap_pending = FALSE]
             e == draw_char(back, back.cursor_col, back.cursor_row, " ")
  <2>0. c.cursor_col - 1 \in Col /\ c.cursor_row \in Row
    BY <1>3, Sizes DEF Safe, Col
  <2>1. back = CursorAt(c, c.cursor_row, c.cursor_col - 1)
    BY MoveForms
  <2>3. Backspace(c) = FlushRow(draw_cursor(e, TRUE))
    BY <1>3 DEF Backspace, Safe
  <2> HIDE DEF back
  <2>2. Safe(back) /\ SameFlush(c, back) /\ SameVt(c, back) /\ OthersShown(back, stray)
    BY <1>1, <2>0, <2>1, MoveCursor
  <2>4. Safe(e) /\ SameFlush(back, e) /\ SameVt(back, e) /\ OthersShown(e, stray)
    BY <2>2, DrawChar
  <2> HIDE DEF e
  <2>5. Does(e, Backspace(c), stray)
    BY <2>3, <2>4, ShowDoes
  <2>6. Kept(c, e) /\ SameVt(c, e)
    BY <2>2, <2>4, SameKept, KeptTrans, SameVtTrans
  <2> QED
    BY <2>5, <2>6, DoesAfter
<1>4. c.cursor_col \in Int
  BY DEF Safe, Col
<1> QED
  BY <1>2, <1>3, <1>4

LEMMA FlushBodies ==
  ASSUME NEW stray, NEW c, Safe(c), BodiesShown(c, stray), NEW y0 \in Nat, NEW rows \in Nat, rows # 0, y0 + rows <= fb_height,
         NEW d, d = flush_region(c, y0, rows)
  PROVE  Safe(d) /\ Kept(c, d) /\ SameVt(c, d) /\ BodiesShown(d, stray)
<1>1. /\ Safe(d) /\ Kept(c, d) /\ SameVt(c, d)
      /\ \A y \in Line : Fresh(c, y, stray) => c.graphics_active \/ Fresh(d, y, stray)
  BY FlushRegion
<1> QED
  BY <1>1, RowLines DEF BodiesShown, Kept

LEMMA LineFeedDoes ==
  ASSUME NEW stray, NEW c, Safe(c), BodiesShown(c, stray)
  PROVE  Does(c, LineFeed(c), stray)
<1> DEFINE next == NextRow(c)
           left == IF next.cursor_row = c.cursor_row THEN next ELSE flush_region(next, c.cursor_row * FONT_H, FONT_H)
           d == FlushRow(draw_cursor(left, TRUE))
<1>1. Safe(next) /\ Kept(c, next) /\ SameVt(c, next) /\ BodiesShown(next, stray)
  BY NextRowKeeps
<1>2. LineFeed(c) = d
  BY DEF LineFeed
<1>3. /\ 2 * c.cursor_row \in Nat /\ 2 * c.cursor_row + 2 <= fb_height
      /\ c.cursor_row * FONT_H = 2 * c.cursor_row /\ FONT_H = 2
  BY RowLines, Sizes DEF Safe, Line
<1> HIDE DEF next
<1>4. Safe(left) /\ Kept(c, left) /\ SameVt(c, left) /\ BodiesShown(left, stray)
  <2>1. CASE next.cursor_row = c.cursor_row
    BY <1>1, <2>1
  <2>2. CASE next.cursor_row # c.cursor_row
    <3>1. left = flush_region(next, 2 * c.cursor_row, 2)
      BY <1>3, <2>2
    <3> HIDE DEF left
    <3>2. Safe(left) /\ Kept(next, left) /\ SameVt(next, left) /\ BodiesShown(left, stray)
      BY <1>1, <1>3, <3>1, FlushBodies
    <3> QED
      BY <1>1, <3>2, KeptTrans, SameVtTrans
  <2> QED
    BY <2>1, <2>2
<1> HIDE DEF left
<1>5. Does(left, d, stray)
  BY <1>4, BodiesOthers, ShowDoes
<1> QED
  BY <1>2, <1>4, <1>5, DoesAfter

(* A wrap is pending after the last column.                                *)
LEMMA WrapPending ==
  ASSUME NEW stray, NEW c, Safe(c), c.cursor_col = fb_cols - 1, NEW d, d = [c EXCEPT !.wrap_pending = TRUE]
  PROVE  /\ Safe(d) /\ SameFlush(c, d) /\ SameVt(c, d)
         /\ OthersShown(c, stray) => OthersShown(d, stray)
<1>1. d = [shadow |-> c.shadow, front |-> c.front,
           cursor_row |-> c.cursor_row, cursor_col |-> c.cursor_col, wrap_pending |-> TRUE,
           flush_held |-> c.flush_held, dirty_min_y |-> c.dirty_min_y, dirty_max_y |-> c.dirty_max_y,
           graphics_active |-> c.graphics_active,
           vt_state |-> c.vt_state, vt_params |-> c.vt_params, vt_nparams |-> c.vt_nparams]
  BY DEF Safe
<1>2. /\ d.shadow = c.shadow /\ d.front = c.front
      /\ d.cursor_row = c.cursor_row /\ d.cursor_col = c.cursor_col /\ d.wrap_pending = TRUE
      /\ d.flush_held = c.flush_held /\ d.dirty_min_y = c.dirty_min_y /\ d.dirty_max_y = c.dirty_max_y
      /\ d.graphics_active = c.graphics_active
      /\ d.vt_state = c.vt_state /\ d.vt_params = c.vt_params /\ d.vt_nparams = c.vt_nparams
  BY <1>1
<1>3. d = [shadow |-> d.shadow, front |-> d.front,
           cursor_row |-> d.cursor_row, cursor_col |-> d.cursor_col, wrap_pending |-> d.wrap_pending,
           flush_held |-> d.flush_held, dirty_min_y |-> d.dirty_min_y, dirty_max_y |-> d.dirty_max_y,
           graphics_active |-> d.graphics_active,
           vt_state |-> d.vt_state, vt_params |-> d.vt_params, vt_nparams |-> d.vt_nparams]
  BY <1>1
<1>4. Safe(d) /\ SameFlush(c, d) /\ SameVt(c, d)
  BY <1>2, <1>3 DEF Safe, SameFlush, SameVt
<1>5. OthersShown(c, stray) => OthersShown(d, stray)
  BY <1>2 DEF OthersShown, Fresh, Due
<1> QED
  BY <1>4, <1>5

LEMMA GlyphDoes ==
  ASSUME NEW stray, NEW c, Safe(c), BodiesShown(c, stray), NEW ch
  PROVE  Does(c, Glyph(c, ch), stray)
<1> DEFINE at    == IF c.wrap_pending THEN NextRow(c) ELSE c
           drawn == draw_char(at, at.cursor_col, at.cursor_row, ch)
           after == IF at.cursor_col + 1 < fb_cols
                    THEN [drawn EXCEPT !.cursor_col = @ + 1]
                    ELSE [drawn EXCEPT !.wrap_pending = TRUE]
           d == FlushRow(draw_cursor(after, TRUE))
<1>1. Safe(at) /\ Kept(c, at) /\ SameVt(c, at) /\ BodiesShown(at, stray) /\ ~at.wrap_pending
  <2>1. CASE c.wrap_pending
    <3>1. at = NextRow(c)
      BY <2>1
    <3> HIDE DEF at
    <3> QED
      BY <3>1, NextRowKeeps
  <2>2. CASE ~c.wrap_pending
    BY <2>2 DEF Kept, SameVt
  <2> QED
    BY <2>1, <2>2
<1>2. Glyph(c, ch) = d
  BY DEF Glyph
<1> HIDE DEF at
<1>3. /\ Safe(drawn) /\ SameFlush(at, drawn) /\ SameCursor(at, drawn) /\ SameVt(at, drawn)
      /\ OthersShown(drawn, stray)
  BY <1>1, BodiesOthers, DrawChar
<1>4. drawn.cursor_row = at.cursor_row /\ drawn.cursor_col = at.cursor_col /\ ~drawn.wrap_pending
  BY <1>1, <1>3 DEF SameCursor
<1> HIDE DEF drawn
<1>5. at.cursor_col \in Nat /\ at.cursor_col <= fb_cols - 1 /\ fb_cols \in Nat
  BY <1>1, Sizes DEF Safe, Col
<1>6. Safe(after) /\ SameFlush(drawn, after) /\ SameVt(drawn, after) /\ OthersShown(after, stray)
  <2>1. CASE at.cursor_col + 1 < fb_cols
    <3>1. after = [drawn EXCEPT !.cursor_col = drawn.cursor_col + 1]
      BY <1>3, <2>1 DEF Safe
    <3>2. drawn.cursor_col + 1 \in Col /\ drawn.cursor_row \in Row
      BY <1>3, <1>4, <1>5, <2>1 DEF Col, Safe
    <3> HIDE DEF after
    <3>3. after = CursorAt(drawn, drawn.cursor_row, drawn.cursor_col + 1)
      BY <1>3, <1>4, <3>1, MoveForms
    <3> QED
      BY <1>3, <3>2, <3>3, MoveCursor
  <2>2. CASE ~(at.cursor_col + 1 < fb_cols)
    <3>1. after = [drawn EXCEPT !.wrap_pending = TRUE]
      BY <2>2
    <3>2. drawn.cursor_col = fb_cols - 1
      BY <1>4, <1>5, <2>2
    <3> HIDE DEF after
    <3> QED
      BY <1>3, <3>1, <3>2, WrapPending
  <2> QED
    BY <2>1, <2>2
<1> HIDE DEF after
<1>7. Does(after, d, stray)
  BY <1>6, ShowDoes
<1>8. Kept(c, after) /\ SameVt(c, after)
  BY <1>1, <1>3, <1>6, SameKept, KeptTrans, SameVtTrans
<1> QED
  BY <1>2, <1>7, <1>8, DoesAfter

LEMMA PutcharDoes ==
  ASSUME NEW stray, NEW c, Safe(c), BodiesShown(c, stray), NEW ch
  PROVE  Does(c, putchar_inner(c, ch), stray)
<1>1. /\ Does(c, CarriageReturn(c), stray) /\ Does(c, Backspace(c), stray) /\ Does(c, LineFeed(c), stray) /\ Does(c, Glyph(c, ch), stray)
  BY CarriageReturnDoes, BackspaceDoes, LineFeedDoes, GlyphDoes
<1>2. \/ putchar_inner(c, ch) = CarriageReturn(c) \/ putchar_inner(c, ch) = Backspace(c)
      \/ putchar_inner(c, ch) = LineFeed(c) \/ putchar_inner(c, ch) = Glyph(c, ch)
  BY DEF putchar_inner
<1> QED
  BY <1>1, <1>2

LEMMA SetCursorDoes ==
  ASSUME NEW stray, NEW c, Safe(c), BodiesShown(c, stray), NEW row \in Nat, NEW col \in Nat
  PROVE  Does(c, set_cursor(c, row, col), stray)
<1> DEFINE e == draw_cursor(c, FALSE)
           r == Min({row, fb_rows - 1})
           x == Min({col, fb_cols - 1})
           f == [e EXCEPT !.cursor_row = r, !.cursor_col = x, !.wrap_pending = FALSE]
           d == FlushRow(draw_cursor(f, TRUE))
<1>1. r \in Row /\ x \in Col
  <2>1. fb_rows - 1 \in Nat /\ fb_cols - 1 \in Nat
    BY Sizes
  <2>2. r = (IF row <= fb_rows - 1 THEN row ELSE fb_rows - 1) /\ x = (IF col <= fb_cols - 1 THEN col ELSE fb_cols - 1)
    BY <2>1, MinPair
  <2> HIDE DEF r, x
  <2> QED
    BY <2>1, <2>2 DEF Row, Col
<1>2. set_cursor(c, row, col) = d
  BY DEF set_cursor
<1>3. Safe(e) /\ SameFlush(c, e) /\ SameVt(c, e) /\ BodiesShown(e, stray)
  BY DrawCursor
<1> HIDE DEF e, r, x
<1>4. f = CursorAt(e, r, x)
  <2>1. f = [e EXCEPT !.cursor_row = r, !.cursor_col = x, !.wrap_pending = FALSE]
    OBVIOUS
  <2> HIDE DEF f, d
  <2> QED
    BY <1>3, <2>1 DEF CursorAt, Safe
<1> HIDE DEF f
<1>5. Safe(f) /\ SameFlush(e, f) /\ SameVt(e, f) /\ BodiesShown(f, stray)
  BY <1>1, <1>3, <1>4, MoveCursor
<1>6. Does(f, d, stray)
  BY <1>5, BodiesOthers, ShowDoes
<1> QED
  BY <1>2, <1>3, <1>5, <1>6, SameKept, KeptTrans, SameVtTrans, DoesAfter

LEMMA ClearToEolDoes ==
  ASSUME NEW stray, NEW c, Safe(c), BodiesShown(c, stray)
  PROVE  Does(c, clear_to_eol(c), stray)
<1> DEFINE e == draw_cursor(c, FALSE)
           p == [y \in Line |->
                  IF y \div FONT_H # e.cursor_row THEN e.shadow[y]
                  ELSE [x \in Col |-> IF x < e.cursor_col THEN e.shadow[y][x] ELSE {}]]
           f == [e EXCEPT !.shadow = p]
           d == FlushRow(draw_cursor(f, TRUE))
<1>1. Safe(e) /\ SameFlush(c, e) /\ SameVt(c, e) /\ BodiesShown(e, stray)
  BY DrawCursor
<1>2. clear_to_eol(c) = d
  BY DEF clear_to_eol, Blanked
<1> HIDE DEF e
<1>3. Picture(p) /\ \A row \in Row : row # e.cursor_row => p[2 * row] = e.shadow[2 * row]
  <2>1. ASSUME NEW row \in Row PROVE 2 * row \in Line /\ (2 * row) \div FONT_H = row
    BY RowLines, Sizes
  <2>2. \A y \in Line : e.shadow[y] = [x \in Col |-> e.shadow[y][x]]
    BY <1>1 DEF Safe, Picture
  <2>3. Picture(p)
    BY <2>2 DEF Picture
  <2> QED
    BY <2>1, <2>3
<1> HIDE DEF p
<1>4. Safe(f) /\ f.shadow = p /\ SameFlush(e, f) /\ SameCursor(e, f) /\ SameVt(e, f)
  BY <1>1, <1>3, Redraw
<1> HIDE DEF f
<1>5. OthersShown(f, stray)
  BY <1>1, <1>3, <1>4, BodiesOthers, StillOthers
<1>6. Does(f, d, stray)
  BY <1>4, <1>5, ShowDoes
<1> QED
  BY <1>1, <1>2, <1>4, <1>6, SameKept, KeptTrans, SameVtTrans, DoesAfter

LEMMA ShowCursorDoes ==
  ASSUME NEW stray, NEW c, Safe(c), BodiesShown(c, stray), NEW show
  PROVE  Does(c, show_cursor(c, show), stray)
BY BodiesOthers, ShowDoes DEF show_cursor

----------------------------------------------------------------------------
(* Escape sequences.                                                       *)

(* The console c with another state of the parser.                         *)
VtAt(c, state, params, n) ==
  [shadow |-> c.shadow, front |-> c.front,
   cursor_row |-> c.cursor_row, cursor_col |-> c.cursor_col, wrap_pending |-> c.wrap_pending,
   flush_held |-> c.flush_held, dirty_min_y |-> c.dirty_min_y, dirty_max_y |-> c.dirty_max_y,
   graphics_active |-> c.graphics_active,
   vt_state |-> state, vt_params |-> params, vt_nparams |-> n]

LEMMA VtForms ==
  ASSUME NEW c, Safe(c), NEW state, NEW params, NEW n
  PROVE  /\ To(c, state) = VtAt(c, state, c.vt_params, c.vt_nparams)
         /\ [c EXCEPT !.vt_params = params] = VtAt(c, c.vt_state, params, c.vt_nparams)
         /\ [c EXCEPT !.vt_nparams = n] = VtAt(c, c.vt_state, c.vt_params, n)
<1>1. ASSUME NEW d, d = To(c, state)
      PROVE  d = VtAt(c, state, c.vt_params, c.vt_nparams)
  BY <1>1 DEF To, VtAt, Safe
<1>2. ASSUME NEW d, d = [c EXCEPT !.vt_params = params]
      PROVE  d = VtAt(c, c.vt_state, params, c.vt_nparams)
  BY <1>2 DEF VtAt, Safe
<1>3. ASSUME NEW d, d = [c EXCEPT !.vt_nparams = n]
      PROVE  d = VtAt(c, c.vt_state, c.vt_params, n)
  BY <1>3 DEF VtAt, Safe
<1> QED
  BY <1>1, <1>2, <1>3, Zenon

LEMMA VtStart ==
  ASSUME NEW c, Safe(c), NEW state, NEW n, NEW d, d = [To(c, state) EXCEPT !.vt_nparams = n]
  PROVE  d = VtAt(c, state, c.vt_params, n)
<1>1. To(c, state) = VtAt(c, state, c.vt_params, c.vt_nparams)
  BY VtForms
<1> QED
  BY <1>1 DEF VtAt

LEMMA VtEnd ==
  ASSUME NEW c, Safe(c), NEW d, d = Forget(c)
  PROVE  d = VtAt(c, "normal", NoParams, 0)
<1>1. To(c, "normal") = VtAt(c, "normal", c.vt_params, c.vt_nparams)
  BY VtForms
<1>2. d = [VtAt(c, "normal", c.vt_params, c.vt_nparams) EXCEPT !.vt_nparams = 0, !.vt_params = NoParams]
  BY <1>1 DEF Forget
<1> QED
  BY <1>2 DEF VtAt

(* What a byte of an escape sequence must do.                              *)
Goes(c, d, stray) == Safe(d) /\ Kept(c, d) /\ AllShown(d, stray) /\ Parsing(d)

LEMMA VtGoes ==
  ASSUME NEW stray, NEW c, Safe(c), AllShown(c, stray),
         NEW state \in VtState, NEW params \in [1 .. VT_MAX_PARAMS -> Nat], NEW n \in 0 .. VT_MAX_PARAMS,
         state \in {"csi", "qmark"} => n # 0,
         NEW d, d = VtAt(c, state, params, n)
  PROVE  Goes(c, d, stray)
<1>1. d = [shadow |-> c.shadow, front |-> c.front,
           cursor_row |-> c.cursor_row, cursor_col |-> c.cursor_col, wrap_pending |-> c.wrap_pending,
           flush_held |-> c.flush_held, dirty_min_y |-> c.dirty_min_y, dirty_max_y |-> c.dirty_max_y,
           graphics_active |-> c.graphics_active,
           vt_state |-> state, vt_params |-> params, vt_nparams |-> n]
  BY DEF VtAt
<1>2. /\ d.shadow = c.shadow /\ SameFlush(c, d)
      /\ d.cursor_row = c.cursor_row /\ d.cursor_col = c.cursor_col
      /\ d.vt_state = state /\ d.vt_params = params /\ d.vt_nparams = n
  BY <1>1 DEF SameFlush
<1>3. Safe(d)
  BY <1>1 DEF Safe
<1>4. Parsing(d)
  BY <1>2 DEF Parsing
<1>5. AllShown(d, stray)
  BY <1>2 DEF AllShown, BodiesShown, CursorFresh, Fresh, Due, Foot, SameFlush
<1> QED
  BY <1>2, <1>3, <1>4, <1>5, SameKept DEF Goes

LEMMA MonusNat == ASSUME NEW a \in Nat, NEW b \in Nat PROVE Monus(a, b) \in Nat
BY DEF Monus

LEMMA ParamNat ==
  ASSUME NEW c, Parsing(c)
  PROVE  /\ Param(c, 1) \in Nat /\ Count(c) \in Nat
         /\ c.vt_nparams >= 2 => Param(c, 2) \in Nat
<1>1. VT_MAX_PARAMS \in Nat /\ 1 \in 1 .. VT_MAX_PARAMS /\ (c.vt_nparams >= 2 => 2 \in 1 .. VT_MAX_PARAMS)
  BY Sizes DEF Parsing
<1>2. Param(c, 1) \in Nat /\ (c.vt_nparams >= 2 => Param(c, 2) \in Nat)
  BY <1>1 DEF Parsing, Param
<1>3. Count(c) \in Nat
  BY <1>2, MaxPair DEF Count
<1> QED
  BY <1>2, <1>3

LEMMA DoesNothing == ASSUME NEW stray, NEW c, Safe(c), AllShown(c, stray) PROVE Does(c, c, stray)
BY DEF Does, Kept, SameVt

LEMMA CommandDoes ==
  ASSUME NEW stray, NEW c, Safe(c), Parsing(c), AllShown(c, stray), NEW ch
  PROVE  Does(c, Command(c, ch), stray) /\ Does(c, PrivateCommand(c, ch), stray)
<1>1. BodiesShown(c, stray) /\ Does(c, c, stray)
  BY AllOthers, DoesNothing
<1>2. /\ c.cursor_row \in Nat /\ c.cursor_col \in Nat
      /\ Count(c) \in Nat /\ Param(c, 1) \in Nat /\ (c.vt_nparams >= 2 => Param(c, 2) \in Nat)
  BY ParamNat, RowLines DEF Safe, Col
<1>3. Does(c, Position(c), stray)
  <2>1. Monus(Param(c, 1), 1) \in Nat /\ (c.vt_nparams >= 2 => Monus(Param(c, 2), 1) \in Nat)
    BY <1>2, MonusNat
  <2> QED
    BY <1>1, <2>1, SetCursorDoes DEF Position
<1>4. /\ Does(c, set_cursor(c, Monus(c.cursor_row, Count(c)), c.cursor_col), stray)
      /\ Does(c, set_cursor(c, c.cursor_row + Count(c), c.cursor_col), stray)
      /\ Does(c, set_cursor(c, c.cursor_row, c.cursor_col + Count(c)), stray)
      /\ Does(c, set_cursor(c, c.cursor_row, Monus(c.cursor_col, Count(c))), stray)
  <2>1. Monus(c.cursor_row, Count(c)) \in Nat /\ Monus(c.cursor_col, Count(c)) \in Nat
    BY <1>2, MonusNat
  <2>2. c.cursor_row + Count(c) \in Nat /\ c.cursor_col + Count(c) \in Nat
    BY <1>2
  <2> QED
    BY <1>1, <1>2, <2>1, <2>2, SetCursorDoes
<1>5. Does(c, clear(c), stray) /\ Does(c, clear_to_eol(c), stray)
  BY <1>1, ClearDoes, ClearToEolDoes
<1>6. \/ Command(c, ch) = Position(c)
      \/ Command(c, ch) = set_cursor(c, Monus(c.cursor_row, Count(c)), c.cursor_col)
      \/ Command(c, ch) = set_cursor(c, c.cursor_row + Count(c), c.cursor_col)
      \/ Command(c, ch) = set_cursor(c, c.cursor_row, c.cursor_col + Count(c))
      \/ Command(c, ch) = set_cursor(c, c.cursor_row, Monus(c.cursor_col, Count(c)))
      \/ Command(c, ch) = clear(c) \/ Command(c, ch) = clear_to_eol(c) \/ Command(c, ch) = c
  BY DEF Command
<1>7. Does(c, Command(c, ch), stray)
  BY <1>1, <1>3, <1>4, <1>5, <1>6
<1>8. Does(c, PrivateCommand(c, ch), stray)
  <2>1. Does(c, show_cursor(c, ch = "h"), stray)
    BY <1>1, ShowCursorDoes
  <2>2. PrivateCommand(c, ch) = show_cursor(c, ch = "h") \/ PrivateCommand(c, ch) = c
    BY DEF PrivateCommand
  <2> QED
    BY <1>1, <2>1, <2>2
<1> QED
  BY <1>7, <1>8

LEMMA DigitNat == ASSUME NEW ch \in DOMAIN Digit PROVE Digit[ch] \in Nat
BY DEF Digit

LEMMA NoParamsType == NoParams \in [1 .. VT_MAX_PARAMS -> Nat]
BY DEF NoParams

(* Digits, separators and the end of a sequence.                           *)
LEMMA SequenceGoes ==
  ASSUME NEW stray, NEW c, Safe(c), Parsing(c), AllShown(c, stray), c.vt_state \in {"csi", "qmark"},
         NEW ch, NEW end, Does(c, end, stray)
  PROVE  Goes(c, Sequence(c, ch, end), stray)
<1>1. /\ c.vt_state \in VtState /\ c.vt_params \in [1 .. VT_MAX_PARAMS -> Nat]
      /\ c.vt_nparams \in 1 .. VT_MAX_PARAMS /\ VT_MAX_PARAMS \in Nat /\ MaxParam \in Nat
  BY Sizes DEF Parsing
<1>2. ASSUME ch \in DOMAIN Digit PROVE Goes(c, vt_accumulate_digit(c, ch), stray)
  <2> DEFINE n == c.vt_nparams
             v == Min({c.vt_params[n] * 10 + Digit[ch], MaxParam})
             q == [c.vt_params EXCEPT ![n] = v]
             d == vt_accumulate_digit(c, ch)
  <2>1. c.vt_params[n] * 10 + Digit[ch] \in Nat
    <3>1. c.vt_params[n] \in Nat
      BY <1>1
    <3>2. Digit[ch] \in Nat
      BY <1>2, DigitNat
    <3> QED
      BY ONLY <3>1, <3>2
  <2>2. v \in Nat
    <3> DEFINE w == c.vt_params[n] * 10 + Digit[ch]
    <3>1. w \in Nat /\ MaxParam \in Nat
      BY <1>1, <2>1
    <3> HIDE DEF w
    <3>2. Min({w, MaxParam}) \in Nat
      BY ONLY <3>1, MinPair
    <3> QED
      BY <3>2 DEF w
  <2>3. d = [c EXCEPT !.vt_params = q]
    <3>1. d = [c EXCEPT !.vt_params = [c.vt_params EXCEPT ![n] = Min({@ * 10 + Digit[ch], MaxParam})]]
      BY DEF vt_accumulate_digit
    <3>2. q = [c.vt_params EXCEPT ![n] = Min({@ * 10 + Digit[ch], MaxParam})]
      BY <1>1
    <3> HIDE DEF d, q
    <3> QED
      BY <3>1, <3>2
  <2>4. q \in [1 .. VT_MAX_PARAMS -> Nat]
    <3> HIDE DEF v, n
    <3> QED
      BY <1>1, <2>2
  <2> HIDE DEF q, d
  <2>5. d = VtAt(c, c.vt_state, q, c.vt_nparams)
    BY <2>3, VtForms
  <2>6. Goes(c, d, stray)
    BY <1>1, <2>4, <2>5, VtGoes
  <2> QED
    BY <2>6 DEF d
<1>3. Goes(c, NextParam(c), stray)
  <2> DEFINE n == Min({c.vt_nparams + 1, VT_MAX_PARAMS})
  <2>1. n \in 1 .. VT_MAX_PARAMS
    BY <1>1, MinPair
  <2>2. NextParam(c) = [c EXCEPT !.vt_nparams = n]
    BY DEF NextParam, Safe
  <2> HIDE DEF n
  <2>3. NextParam(c) = VtAt(c, c.vt_state, c.vt_params, n)
    BY <2>2, VtForms
  <2> QED
    BY <1>1, <2>1, <2>3, VtGoes
<1>4. Goes(c, Forget(end), stray)
  <2>1. Safe(end) /\ AllShown(end, stray) /\ Kept(c, end)
    BY DEF Does
  <2>2. Forget(end) = VtAt(end, "normal", NoParams, 0)
    BY <2>1, VtEnd
  <2>3. Goes(end, Forget(end), stray)
    BY <1>1, <2>1, <2>2, NoParamsType, VtGoes DEF VtState
  <2> QED
    BY <2>1, <2>3, KeptTrans DEF Goes
<1> QED
  BY <1>2, <1>3, <1>4 DEF Sequence

LEMMA ProcessGoes ==
  ASSUME NEW stray, NEW c, Safe(c), Parsing(c), AllShown(c, stray), NEW ch
  PROVE  Goes(c, vt_process(c, ch), stray)
<1> DEFINE d == vt_process(c, ch)
<1>1. /\ c.vt_state \in VtState /\ c.vt_params \in [1 .. VT_MAX_PARAMS -> Nat]
      /\ c.vt_nparams \in 0 .. VT_MAX_PARAMS /\ 1 \in 0 .. VT_MAX_PARAMS
      /\ VtState = {"normal", "esc", "csi", "qmark"}
  BY Sizes DEF Parsing, VtState
<1>2. CASE c.vt_state = "normal"
  <2>1. CASE ch = "ESC"
    <3>1. d = To(c, "esc")
      BY <1>2, <2>1 DEF vt_process
    <3>2. d = VtAt(c, "esc", c.vt_params, c.vt_nparams)
      BY <3>1, VtForms
    <3> QED
      BY <1>1, <3>2, VtGoes
  <2>2. CASE ch # "ESC"
    <3> DEFINE e == draw_cursor(c, FALSE)
    <3>1. d = putchar_inner(e, ch)
      BY <1>2, <2>2 DEF vt_process
    <3>2. Safe(e) /\ SameFlush(c, e) /\ SameVt(c, e) /\ BodiesShown(e, stray)
      BY AllOthers, DrawCursor
    <3> HIDE DEF e
    <3>3. Does(e, d, stray)
      BY <3>1, <3>2, PutcharDoes
    <3>4. Does(c, d, stray)
      BY <3>2, <3>3, SameKept, DoesAfter
    <3> HIDE DEF d
    <3>5. Goes(c, d, stray)
      BY <3>4 DEF Does, SameVt, Parsing, Goes
    <3> QED
      BY <3>5 DEF d
  <2> QED
    BY <2>1, <2>2
<1>3. CASE c.vt_state = "esc"
  <2>1. CASE ch = "["
    <3>1. d = [To(c, "csi") EXCEPT !.vt_nparams = 1]
      BY <1>3, <2>1 DEF vt_process
    <3> HIDE DEF d
    <3>2. d = VtAt(c, "csi", c.vt_params, 1)
      BY <3>1, VtStart
    <3>3. Goes(c, d, stray)
      BY <1>1, <3>2, VtGoes
    <3> QED
      BY <3>3 DEF d
  <2>2. CASE ch # "["
    <3>1. d = To(c, "normal")
      BY <1>3, <2>2 DEF vt_process
    <3>2. d = VtAt(c, "normal", c.vt_params, c.vt_nparams)
      BY <3>1, VtForms
    <3> QED
      BY <1>1, <3>2, VtGoes
  <2> QED
    BY <2>1, <2>2
<1>4. CASE c.vt_state = "csi"
  <2>1. CASE ch = "?"
    <3>1. d = To(c, "qmark")
      BY <1>4, <2>1 DEF vt_process
    <3>2. d = VtAt(c, "qmark", c.vt_params, c.vt_nparams) /\ c.vt_nparams # 0
      BY <1>4, <3>1, VtForms DEF Parsing
    <3> QED
      BY <1>1, <3>2, VtGoes
  <2>2. CASE ch # "?"
    <3>1. d = Sequence(c, ch, Command(c, ch))
      BY <1>4, <2>2 DEF vt_process, vt_handle_csi
    <3> QED
      BY <1>4, <3>1, CommandDoes, SequenceGoes
  <2> QED
    BY <2>1, <2>2
<1>5. CASE c.vt_state = "qmark"
  <2>1. d = Sequence(c, ch, PrivateCommand(c, ch))
    BY <1>5 DEF vt_process, vt_handle_qmark
  <2> QED
    BY <1>5, <2>1, CommandDoes, SequenceGoes
<1> QED
  BY <1>1, <1>2, <1>3, <1>4, <1>5

----------------------------------------------------------------------------
(* Writing a string.                                                       *)

(* Every set of natural numbers has a least element.                       *)
LEMMA LeastNumber ==
  ASSUME NEW S \in SUBSET Nat, S # {}
  PROVE  \E m \in S : \A o \in S : m <= o
<1> DEFINE Down(x) == {y \in S : y <= x}
           Downs == {Down(x) : x \in S}
           R == StrictSubsetOrdering(Nat)
<1>1. \A x \in S : Down(x) \in FiniteSubsetsOf(Nat)
  <2> SUFFICES ASSUME NEW x \in S PROVE Down(x) \in FiniteSubsetsOf(Nat)
    OBVIOUS
  <2>1. x \in Nat /\ Down(x) \in SUBSET Nat /\ \A y \in Down(x) : y <= x
    OBVIOUS
  <2> HIDE DEF Down
  <2>2. IsFiniteSet(Down(x))
    BY <2>1, FS_BoundedSetOfNaturals
  <2> QED
    BY <2>1, <2>2 DEF FiniteSubsetsOf
<1>2. Downs \subseteq FiniteSubsetsOf(Nat) /\ Downs # {}
  <2> HIDE DEF Down
  <2> QED
    BY <1>1
<1>3. \E D \in Downs : \A E \in Downs : ~ <<E, D>> \in R
  <2> HIDE DEF Downs, R
  <2>1. IsWellFoundedOn(StrictSubsetOrdering(Nat), FiniteSubsetsOf(Nat))
    BY FS_StrictSubsetOrderingWellFounded
  <2> QED
    BY <1>2, <2>1, WFMin DEF R
<1>4. PICK m \in S : \A o \in S : ~ <<Down(o), Down(m)>> \in R
  <2> HIDE DEF Down, R
  <2> QED
    BY <1>3
<1>5. ASSUME NEW o \in S, o < m
      PROVE  FALSE
  <2>0. o \in Nat /\ m \in Nat /\ o < m
    BY <1>5
  <2>1. Down(o) \subseteq Down(m) /\ m \in Down(m) /\ m \notin Down(o)
    <3>1. \A y \in S : y \in Nat
      OBVIOUS
    <3>2. \A y \in S : y <= o => y <= m
      BY <2>0, <3>1
    <3>3. m <= m /\ ~(m <= o)
      BY <2>0
    <3> QED
      BY <3>2, <3>3
  <2>2. Down(o) \in SUBSET Nat /\ Down(m) \in SUBSET Nat
    OBVIOUS
  <2> HIDE DEF Down
  <2>3. <<Down(o), Down(m)>> \in StrictSubsetOrdering(Nat)
    BY <2>1, <2>2 DEF StrictSubsetOrdering
  <2> QED
    BY <1>4, <2>3
<1> QED
  BY <1>4, <1>5

(* A fold over s, as a function of the places it has been over.            *)
Folded(f, c, s, n) ==
  f = [t \in SUBSET (1 .. n) |-> IF t = {} THEN c ELSE vt_process(f[t \ {Max(t)}], s[Max(t)])]

LEMMA MaxLast ==
  ASSUME NEW n \in Nat, NEW t \in SUBSET (1 .. n + 1), n + 1 \in t
  PROVE  Max(t) = n + 1 /\ t \ {n + 1} \in SUBSET (1 .. n)
<1>1. \A y \in t : n + 1 >= y
  OBVIOUS
<1>2. \A x \in t : (\A y \in t : x >= y) => x = n + 1
  BY <1>1
<1>3. Max(t) \in t /\ \A y \in t : Max(t) >= y
  BY <1>1 DEF Max
<1>4. t \ {n + 1} \in SUBSET (1 .. n)
  OBVIOUS
<1> QED
  BY <1>2, <1>3, <1>4

LEMMA FoldFirst ==
  ASSUME NEW c, NEW s
  PROVE  \E f : Folded(f, c, s, 0)
<1> DEFINE f == [t \in SUBSET (1 .. 0) |-> c]
<1>1. \A t \in SUBSET (1 .. 0) : t = {}
  OBVIOUS
<1>2. f = [t \in SUBSET (1 .. 0) |-> IF t = {} THEN c ELSE vt_process(f[t \ {Max(t)}], s[Max(t)])]
  BY <1>1
<1> QED
  BY <1>2 DEF Folded

LEMMA FoldNext ==
  ASSUME NEW c, NEW s, NEW n \in Nat, NEW f, Folded(f, c, s, n)
  PROVE  \E g : Folded(g, c, s, n + 1)
<1> DEFINE g == [t \in SUBSET (1 .. n + 1) |->
                   IF n + 1 \in t THEN vt_process(f[t \ {n + 1}], s[n + 1]) ELSE f[t]]
           h == [t \in SUBSET (1 .. n + 1) |-> IF t = {} THEN c ELSE vt_process(g[t \ {Max(t)}], s[Max(t)])]
<1>1. ASSUME NEW t \in SUBSET (1 .. n + 1) PROVE g[t] = h[t]
  <2>1. CASE n + 1 \in t
    <3>1. Max(t) = n + 1 /\ t \ {n + 1} \in SUBSET (1 .. n + 1) /\ n + 1 \notin t \ {n + 1}
      BY <2>1, MaxLast
    <3>2. g[t \ {n + 1}] = f[t \ {n + 1}]
      BY <3>1
    <3> QED
      BY <2>1, <3>1, <3>2
  <2>2. CASE n + 1 \notin t
    <3>1. t \in SUBSET (1 .. n)
      BY <2>2
    <3>2. t \ {Max(t)} \in SUBSET (1 .. n) /\ t \ {Max(t)} \in SUBSET (1 .. n + 1) /\ n + 1 \notin t \ {Max(t)}
      BY <2>2, <3>1
    <3>3. g[t] = f[t] /\ g[t \ {Max(t)}] = f[t \ {Max(t)}]
      BY <2>2, <3>2
    <3>4. f[t] = IF t = {} THEN c ELSE vt_process(f[t \ {Max(t)}], s[Max(t)])
      BY <3>1 DEF Folded
    <3> QED
      BY <3>3, <3>4
  <2> QED
    BY <2>1, <2>2
<1>2. g = h
  <2>1. g = [t \in SUBSET (1 .. n + 1) |-> g[t]] /\ h = [t \in SUBSET (1 .. n + 1) |-> h[t]]
    OBVIOUS
  <2> HIDE DEF g, h
  <2> QED
    BY <1>1, <2>1
<1>3. Folded(g, c, s, n + 1)
  <2> HIDE DEF g
  <2> QED
    BY <1>2 DEF Folded
<1> QED
  BY <1>3

LEMMA FoldExists ==
  ASSUME NEW c, NEW s, NEW n \in Nat
  PROVE  \E f : Folded(f, c, s, n)
<1> DEFINE Bad == {m \in Nat : ~ \E f : Folded(f, c, s, m)}
<1>1. SUFFICES ASSUME Bad # {} PROVE FALSE
  OBVIOUS
<1>2. PICK m \in Bad : \A o \in Bad : m <= o
  BY <1>1, LeastNumber
<1>3. m \in Nat /\ m # 0
  BY <1>2, FoldFirst
<1>4. m - 1 \in Nat /\ m - 1 \notin Bad /\ (m - 1) + 1 = m
  BY <1>2, <1>3
<1>5. \E f : Folded(f, c, s, (m - 1) + 1)
  BY <1>4, FoldNext
<1> QED
  BY <1>2, <1>4, <1>5

(* Every prefix of the string goes well.                                   *)
LEMMA FoldGoes ==
  ASSUME NEW stray, NEW c, Goes(c, c, stray), NEW s, NEW n \in Nat, NEW f, Folded(f, c, s, n), NEW m \in 0 .. n
  PROVE  \A t \in SUBSET (1 .. m) : Goes(c, f[t], stray)
<1> DEFINE Bad == {k \in Nat : k <= n /\ ~ \A t \in SUBSET (1 .. k) : Goes(c, f[t], stray)}
<1>1. SUFFICES ASSUME Bad # {} PROVE FALSE
  BY DEF Bad
<1>2. PICK k \in Bad : \A o \in Bad : k <= o
  BY <1>1, LeastNumber
<1>3. k \in Nat /\ k <= n /\ ~ \A t \in SUBSET (1 .. k) : Goes(c, f[t], stray)
  BY <1>2
<1>4. PICK t \in SUBSET (1 .. k) : ~ Goes(c, f[t], stray)
  BY <1>3
<1> HIDE DEF Bad
<1>5. f[t] = IF t = {} THEN c ELSE vt_process(f[t \ {Max(t)}], s[Max(t)])
  <2>1. t \in SUBSET (1 .. n)
    BY <1>3, <1>4
  <2> QED
    BY <2>1 DEF Folded
<1>6. t # {}
  BY <1>4, <1>5
<1>7. k # 0
  <2>1. 1 .. 0 = {}
    OBVIOUS
  <2> QED
    BY <1>4, <1>6, <2>1
<1>8. k - 1 \in Nat /\ k - 1 \notin Bad /\ (k - 1) + 1 = k /\ k - 1 <= n
  BY <1>2, <1>3, <1>7
<1>9. \A u \in SUBSET (1 .. k - 1) : Goes(c, f[u], stray)
  BY <1>8 DEF Bad
<1>10. k \in t
  BY <1>3, <1>4, <1>9
<1>11. Max(t) = k /\ t \ {k} \in SUBSET (1 .. k - 1)
  BY <1>4, <1>8, <1>10, MaxLast
<1>12. f[t] = vt_process(f[t \ {k}], s[k]) /\ Goes(c, f[t \ {k}], stray)
  BY <1>5, <1>6, <1>9, <1>11
<1>13. Goes(f[t \ {k}], f[t], stray)
  BY <1>12, ProcessGoes DEF Goes
<1> QED
  BY <1>4, <1>12, <1>13, KeptTrans DEF Goes

LEMMA FoldIs ==
  ASSUME NEW c, NEW s, NEW n \in Nat, DOMAIN s = 1 .. n
  PROVE  \E f : Folded(f, c, s, n) /\ FoldLeft(vt_process, c, s) = f[1 .. n]
<1> DEFINE f == CHOOSE g : g = [t \in SUBSET DOMAIN s |-> IF t = {} THEN c ELSE vt_process(g[t \ {Max(t)}], s[Max(t)])]
<1>1. FoldLeft(vt_process, c, s) = f[DOMAIN s]
  BY Zenon DEF FoldLeft, MapThenFoldSet
<1>2. \E g : g = [t \in SUBSET DOMAIN s |-> IF t = {} THEN c ELSE vt_process(g[t \ {Max(t)}], s[Max(t)])]
  <2>1. PICK g : Folded(g, c, s, n)
    BY FoldExists
  <2>2. g = [t \in SUBSET DOMAIN s |-> IF t = {} THEN c ELSE vt_process(g[t \ {Max(t)}], s[Max(t)])]
    BY <2>1 DEF Folded
  <2> QED
    BY <2>2
<1>3. f = [t \in SUBSET DOMAIN s |-> IF t = {} THEN c ELSE vt_process(f[t \ {Max(t)}], s[Max(t)])]
  BY <1>2, Zenon
<1> HIDE DEF f
<1> QED
  BY <1>1, <1>3 DEF Folded

LEMMA Hold ==
  ASSUME NEW stray, NEW c, Safe(c), Parsing(c), AllShown(c, stray), ~c.flush_held, NEW d, d = flush_hold(c)
  PROVE  /\ Safe(d) /\ Parsing(d) /\ AllShown(d, stray) /\ d.flush_held
         /\ d.graphics_active = c.graphics_active /\ d.front = c.front
         /\ d.shadow = c.shadow /\ SameCursor(c, d) /\ SameVt(c, d)
<1>1. d = [shadow |-> c.shadow, front |-> c.front,
           cursor_row |-> c.cursor_row, cursor_col |-> c.cursor_col, wrap_pending |-> c.wrap_pending,
           flush_held |-> TRUE, dirty_min_y |-> 0, dirty_max_y |-> 0,
           graphics_active |-> c.graphics_active,
           vt_state |-> c.vt_state, vt_params |-> c.vt_params, vt_nparams |-> c.vt_nparams]
  BY DEF flush_hold, Safe
<1>2. /\ d.shadow = c.shadow /\ d.front = c.front
      /\ d.cursor_row = c.cursor_row /\ d.cursor_col = c.cursor_col /\ d.wrap_pending = c.wrap_pending
      /\ d.flush_held = TRUE /\ d.dirty_min_y = 0 /\ d.dirty_max_y = 0
      /\ d.graphics_active = c.graphics_active
      /\ d.vt_state = c.vt_state /\ d.vt_params = c.vt_params /\ d.vt_nparams = c.vt_nparams
  BY <1>1
<1>3. d = [shadow |-> d.shadow, front |-> d.front,
           cursor_row |-> d.cursor_row, cursor_col |-> d.cursor_col, wrap_pending |-> d.wrap_pending,
           flush_held |-> d.flush_held, dirty_min_y |-> d.dirty_min_y, dirty_max_y |-> d.dirty_max_y,
           graphics_active |-> d.graphics_active,
           vt_state |-> d.vt_state, vt_params |-> d.vt_params, vt_nparams |-> d.vt_nparams]
  BY <1>1
<1>4. Safe(d)
  <2>1. 0 \in Nat /\ 0 <= 0 /\ 0 <= fb_height
    BY Sizes
  <2> QED
    BY <1>2, <1>3, <2>1 DEF Safe
<1>5. Parsing(d)
  BY <1>2 DEF Parsing
<1>6. AllShown(d, stray)
  BY <1>2 DEF AllShown, BodiesShown, CursorFresh, Fresh, Due, Foot
<1> QED
  BY <1>2, <1>4, <1>5, <1>6 DEF SameCursor, SameVt

LEMMA Release ==
  ASSUME NEW stray, NEW c, Safe(c), Parsing(c), AllShown(c, stray), c.flush_held, NEW d, d = flush_release(c)
  PROVE  /\ Safe(d) /\ Parsing(d) /\ AllShown(d, stray) /\ ~d.flush_held
         /\ d.graphics_active = c.graphics_active
         /\ c.graphics_active => d.front = c.front
         /\ d.shadow = c.shadow /\ SameCursor(c, d) /\ SameVt(c, d)
<1> DEFINE open == [c EXCEPT !.flush_held = FALSE]
           f == [y \in Line |-> IF y \in c.dirty_min_y .. c.dirty_max_y - 1 THEN c.shadow[y] ELSE c.front[y]]
           front == IF c.dirty_min_y < c.dirty_max_y /\ ~c.graphics_active THEN f ELSE c.front
<1>1. open = [shadow |-> c.shadow, front |-> c.front,
              cursor_row |-> c.cursor_row, cursor_col |-> c.cursor_col, wrap_pending |-> c.wrap_pending,
              flush_held |-> FALSE, dirty_min_y |-> c.dirty_min_y, dirty_max_y |-> c.dirty_max_y,
              graphics_active |-> c.graphics_active,
              vt_state |-> c.vt_state, vt_params |-> c.vt_params, vt_nparams |-> c.vt_nparams]
  <2>1. ASSUME NEW o, o = [c EXCEPT !.flush_held = FALSE]
        PROVE  o = [shadow |-> c.shadow, front |-> c.front,
              cursor_row |-> c.cursor_row, cursor_col |-> c.cursor_col, wrap_pending |-> c.wrap_pending,
              flush_held |-> FALSE, dirty_min_y |-> c.dirty_min_y, dirty_max_y |-> c.dirty_max_y,
              graphics_active |-> c.graphics_active,
              vt_state |-> c.vt_state, vt_params |-> c.vt_params, vt_nparams |-> c.vt_nparams]
    BY <2>1 DEF Safe
  <2> QED
    BY <2>1, Zenon
<1>2. d = [shadow |-> c.shadow, front |-> front,
           cursor_row |-> c.cursor_row, cursor_col |-> c.cursor_col, wrap_pending |-> c.wrap_pending,
           flush_held |-> FALSE, dirty_min_y |-> c.dirty_min_y, dirty_max_y |-> c.dirty_max_y,
           graphics_active |-> c.graphics_active,
           vt_state |-> c.vt_state, vt_params |-> c.vt_params, vt_nparams |-> c.vt_nparams]
  <2>0. c.dirty_min_y \in Nat /\ c.dirty_max_y \in Nat
    BY DEF Safe
  <2>1. CASE c.dirty_min_y < c.dirty_max_y /\ ~c.graphics_active
    <3>1. d = CopyLines(open, c.dirty_min_y .. c.dirty_min_y + (c.dirty_max_y - c.dirty_min_y) - 1)
      <4>1. d = flush_region(open, c.dirty_min_y, c.dirty_max_y - c.dirty_min_y)
        BY <2>1 DEF flush_release
      <4>2. ~open.graphics_active /\ ~open.flush_held
        BY <1>1, <2>1
      <4> HIDE DEF open
      <4> QED
        BY <4>1, <4>2 DEF flush_region
    <3>2. c.dirty_min_y + (c.dirty_max_y - c.dirty_min_y) - 1 = c.dirty_max_y - 1
      BY <2>0
    <3>3. d = [open EXCEPT !.front = f]
      <4>1. open.shadow = c.shadow /\ open.front = c.front
        BY <1>1
      <4>2. d = CopyLines(open, c.dirty_min_y .. c.dirty_max_y - 1)
        BY <3>1, <3>2
      <4> HIDE DEF open
      <4> QED
        BY <4>1, <4>2 DEF CopyLines
    <3>4. front = f
      BY <2>1
    <3> HIDE DEF open, f, front
    <3> QED
      BY <1>1, <3>3, <3>4
  <2>2. CASE ~(c.dirty_min_y < c.dirty_max_y /\ ~c.graphics_active)
    <3>1. d = open
      BY <1>1, <2>2 DEF flush_release, flush_region
    <3>2. front = c.front
      BY <2>2
    <3> HIDE DEF open, front
    <3> QED
      BY <1>1, <3>1, <3>2
  <2> QED
    BY <2>1, <2>2
<1>3. \A y \in Line : f[y] = IF y \in c.dirty_min_y .. c.dirty_max_y - 1 THEN c.shadow[y] ELSE c.front[y]
  OBVIOUS
<1>4. /\ c.graphics_active => front = c.front
      /\ \A y \in Line : ~c.graphics_active =>
           \/ front[y] = c.shadow[y]
           \/ ~Due(c, y) /\ front[y] = c.front[y]
  <2>1. c.dirty_min_y \in Nat /\ c.dirty_max_y \in Nat /\ c.dirty_min_y <= c.dirty_max_y
    BY DEF Safe
  <2>2. ASSUME NEW y \in Line, ~c.graphics_active
        PROVE  front[y] = c.shadow[y] \/ (~Due(c, y) /\ front[y] = c.front[y])
    <3>1. CASE c.dirty_min_y < c.dirty_max_y
      <4>1. front = f
        BY <2>2, <3>1
      <4>2. y \in Int
        BY Sizes DEF Line
      <4> HIDE DEF f, front
      <4> QED
        BY <1>3, <2>1, <4>1, <4>2 DEF Due
    <3>2. CASE ~(c.dirty_min_y < c.dirty_max_y)
      <4>1. front = c.front
        BY <3>2
      <4>2. y \in Int
        BY Sizes DEF Line
      <4> HIDE DEF f, front
      <4> QED
        BY <2>1, <3>2, <4>1, <4>2 DEF Due
    <3> QED
      BY <3>1, <3>2
  <2> QED
    BY <2>2
<1> HIDE DEF open, f, front
<1>5. /\ d.shadow = c.shadow /\ d.front = front
      /\ d.cursor_row = c.cursor_row /\ d.cursor_col = c.cursor_col /\ d.wrap_pending = c.wrap_pending
      /\ d.flush_held = FALSE /\ d.dirty_min_y = c.dirty_min_y /\ d.dirty_max_y = c.dirty_max_y
      /\ d.graphics_active = c.graphics_active
      /\ d.vt_state = c.vt_state /\ d.vt_params = c.vt_params /\ d.vt_nparams = c.vt_nparams
  BY <1>2
<1>6. d = [shadow |-> d.shadow, front |-> d.front,
           cursor_row |-> d.cursor_row, cursor_col |-> d.cursor_col, wrap_pending |-> d.wrap_pending,
           flush_held |-> d.flush_held, dirty_min_y |-> d.dirty_min_y, dirty_max_y |-> d.dirty_max_y,
           graphics_active |-> d.graphics_active,
           vt_state |-> d.vt_state, vt_params |-> d.vt_params, vt_nparams |-> d.vt_nparams]
  BY <1>2
<1>7. Safe(d)
  BY <1>5, <1>6 DEF Safe
<1>8. Parsing(d)
  BY <1>5 DEF Parsing
<1>9. BodiesShown(d, stray)
  BY <1>4, <1>5, RowLines DEF AllShown, BodiesShown, Fresh
<1>10. d.graphics_active \/ CursorFresh(d, stray)
  <2>1. Foot(d) = Foot(c) /\ Foot(c) \in Line
    BY <1>5, RowLines DEF Foot, Safe
  <2> QED
    BY <1>4, <1>5, <2>1 DEF AllShown, CursorFresh
<1> QED
  BY <1>4, <1>5, <1>7, <1>8, <1>9, <1>10 DEF AllShown, SameCursor, SameVt

----------------------------------------------------------------------------
(* The invariant, which says between calls that all is shown, and on the   *)
(* way what is shown and what is due.                                      *)

Ready(c, stray) == Safe(c) /\ Parsing(c) /\ AllShown(c, stray) /\ ~c.flush_held

LEMMA PrintReady ==
  ASSUME NEW stray, NEW c, Ready(c, stray), NEW s \in Text
  PROVE  Ready(print(c, s), stray) /\ Kept(c, print(c, s))
<1> DEFINE h == flush_hold(c)
           e == FoldLeft(vt_process, h, s)
           d == flush_release(e)
<1>1. Safe(c) /\ Parsing(c) /\ AllShown(c, stray) /\ ~c.flush_held
  BY DEF Ready
<1>2. Len(s) \in Nat /\ DOMAIN s = 1 .. Len(s)
  BY TextAssumption
<1>3. print(c, s) = d
  BY DEF print
<1> HIDE DEF h
<1>4. /\ Safe(h) /\ Parsing(h) /\ AllShown(h, stray) /\ h.flush_held
      /\ h.graphics_active = c.graphics_active /\ h.front = c.front
  BY <1>1, Hold DEF h
<1>5. Goes(h, h, stray)
  BY <1>4 DEF Goes, Kept
<1>6. PICK f : Folded(f, h, s, Len(s)) /\ e = f[1 .. Len(s)]
  BY <1>2, FoldIs
<1>7. Goes(h, e, stray)
  <2>1. Len(s) \in 0 .. Len(s) /\ 1 .. Len(s) \in SUBSET (1 .. Len(s))
    BY <1>2
  <2> QED
    BY <1>2, <1>5, <1>6, <2>1, FoldGoes
<1> HIDE DEF e
<1>8. /\ Safe(d) /\ Parsing(d) /\ AllShown(d, stray) /\ ~d.flush_held
      /\ d.graphics_active = e.graphics_active
      /\ e.graphics_active => d.front = e.front
  BY <1>4, <1>7, Release DEF Goes, Kept
<1>9. Kept(c, d)
  BY <1>1, <1>4, <1>7, <1>8 DEF Goes, Kept, Safe
<1> QED
  BY <1>3, <1>8, <1>9 DEF Ready

LEMMA PutcharReady ==
  ASSUME NEW stray, NEW c, Ready(c, stray), NEW ch
  PROVE  Ready(vt_process(c, ch), stray) /\ Kept(c, vt_process(c, ch))
BY ProcessGoes DEF Ready, Goes, Kept

LEMMA ClearReady ==
  ASSUME NEW stray, NEW c, Ready(c, stray)
  PROVE  Ready(clear(c), stray) /\ Kept(c, clear(c))
BY ClearDoes DEF Ready, Does, Kept, SameVt, Parsing

LEMMA NewReady == ASSUME NEW stray PROVE Ready(NewConsole, stray) /\ ~NewConsole.graphics_active
<1> DEFINE c == [shadow |-> Empty, front |-> Empty, cursor_row |-> 0, cursor_col |-> 0, wrap_pending |-> FALSE,
                 flush_held |-> FALSE, dirty_min_y |-> 0, dirty_max_y |-> 0, graphics_active |-> FALSE,
                 vt_state |-> "normal", vt_params |-> NoParams, vt_nparams |-> 0]
           d == clear(c)
<1>1. 0 \in Row /\ 0 \in Col /\ fb_height \in Nat /\ 0 \in 0 .. VT_MAX_PARAMS
  BY Sizes DEF Row, Col
<1>2. Picture(Empty)
  BY EmptyPicture
<1>3. Safe(c)
  BY <1>1, <1>2 DEF Safe
<1>4. Parsing(c) /\ ~c.flush_held /\ ~c.graphics_active
  BY <1>1, NoParamsType DEF Parsing, VtState
<1>5. NewConsole = d
  BY DEF NewConsole
<1> HIDE DEF c
<1>6. Does(c, d, stray)
  BY <1>3, ClearDoes
<1> HIDE DEF d
<1>7. Ready(d, stray) /\ ~d.graphics_active
  BY <1>4, <1>6 DEF Ready, Does, Kept, SameVt, Parsing
<1> QED
  BY <1>5, <1>7

(* What the operations of the console do to it.                            *)
LEMMA ConsoleSteps ==
  ASSUME NEW stray, Ready(con, stray), ConsoleNext
  PROVE  Ready(con', stray) /\ Kept(con, con')
<1>1. CASE \E ch \in Key : Putchar(ch)
  BY <1>1, PutcharReady DEF Putchar
<1>2. CASE \E text \in Text : Write(text)
  BY <1>2, PrintReady DEF Write
<1>3. CASE Cls
  BY <1>3, ClearReady DEF Cls
<1> QED
  BY <1>1, <1>2, <1>3 DEF ConsoleNext

LEMMA ReadyTyped == ASSUME NEW stray, Ready(con, stray) PROVE ConsoleTypeOK
BY DEF Ready, Safe, Parsing, ConsoleTypeOK

LEMMA ReadyShown == ASSUME NEW stray, Ready(con, stray) PROVE ShownBut(stray)
<1>1. ~con.flush_held /\ AllShown(con, stray)
  BY DEF Ready
<1>2. Foot(con) = Body(con.cursor_row) + FONT_H - 1
  BY DEF Foot, Body
<1>3. ~con.graphics_active =>
        \A row \in Row : Body(row) \notin stray => con.front[Body(row)] = con.shadow[Body(row)]
  BY <1>1 DEF AllShown, BodiesShown, Fresh, Due
<1>4. ~con.graphics_active /\ con.cursor_col # 0 /\ Foot(con) \notin stray =>
        con.front[Foot(con)][con.cursor_col] = con.shadow[Foot(con)][con.cursor_col]
  BY <1>1 DEF AllShown, CursorFresh, Due
<1> QED
  BY <1>1, <1>2, <1>3, <1>4 DEF ShownBut

----------------------------------------------------------------------------
(* Sequences, one behind the other.                                        *)

(* The first n sequences of ss, one behind the other.                      *)
Flattened(f, ss, n) == f = [i \in 1 .. n |-> IF i = 1 THEN ss[i] ELSE f[i - 1] \o ss[i]]

LEMMA FlatExists == ASSUME NEW ss, NEW n \in Nat PROVE \E f : Flattened(f, ss, n)
<1> DEFINE Bad == {m \in Nat : ~ \E f : Flattened(f, ss, m)}
<1>1. SUFFICES ASSUME Bad # {} PROVE FALSE
  OBVIOUS
<1>2. PICK m \in Bad : \A o \in Bad : m <= o
  BY <1>1, LeastNumber
<1>3. m # 0
  <2>1. Flattened(<<>>, ss, 0)
    <3>1. 1 .. 0 = {}
      OBVIOUS
    <3> QED
      BY <3>1 DEF Flattened
  <2> QED
    BY <1>2, <2>1
<1>4. m \in Nat /\ m - 1 \in Nat /\ m - 1 \notin Bad
  BY <1>2, <1>3
<1>5. PICK f : Flattened(f, ss, m - 1)
  BY <1>4
<1> DEFINE g == [i \in 1 .. m |-> IF i = m THEN IF m = 1 THEN ss[m] ELSE f[m - 1] \o ss[m] ELSE f[i]]
           h == [i \in 1 .. m |-> IF i = 1 THEN ss[i] ELSE g[i - 1] \o ss[i]]
<1>6. ASSUME NEW i \in 1 .. m PROVE g[i] = h[i]
  <2>1. i # 1 => i - 1 \in 1 .. m - 1 /\ g[i - 1] = f[i - 1]
    BY <1>4
  <2>2. i # m => f[i] = IF i = 1 THEN ss[i] ELSE f[i - 1] \o ss[i]
    <3> SUFFICES ASSUME i # m PROVE f[i] = IF i = 1 THEN ss[i] ELSE f[i - 1] \o ss[i]
      OBVIOUS
    <3>1. i \in 1 .. m - 1
      BY <1>4
    <3> QED
      BY <1>5, <3>1 DEF Flattened
  <2> QED
    BY <2>1, <2>2
<1>7. g = h
  <2>1. g = [i \in 1 .. m |-> g[i]] /\ h = [i \in 1 .. m |-> h[i]]
    OBVIOUS
  <2> HIDE DEF g, h
  <2> QED
    BY <1>6, <2>1
<1>8. Flattened(g, ss, m)
  <2> HIDE DEF g
  <2> QED
    BY <1>7 DEF Flattened
<1> QED
  BY <1>2, <1>8

LEMMA FlattenIs ==
  ASSUME NEW ss, Len(ss) \in Nat, Len(ss) # 0
  PROVE  \E f : Flattened(f, ss, Len(ss)) /\ FlattenSeq(ss) = f[Len(ss)]
<1> DEFINE f == CHOOSE g : g = [i \in 1 .. Len(ss) |-> IF i = 1 THEN ss[i] ELSE g[i - 1] \o ss[i]]
<1>1. FlattenSeq(ss) = f[Len(ss)]
  BY Zenon DEF FlattenSeq
<1>2. \E g : g = [i \in 1 .. Len(ss) |-> IF i = 1 THEN ss[i] ELSE g[i - 1] \o ss[i]]
  BY FlatExists DEF Flattened
<1>3. f = [i \in 1 .. Len(ss) |-> IF i = 1 THEN ss[i] ELSE f[i - 1] \o ss[i]]
  BY <1>2, Zenon
<1> HIDE DEF f
<1> QED
  BY <1>1, <1>3 DEF Flattened

(* It depends on those sequences only, and is a sequence of their members. *)
LEMMA FlatSame ==
  ASSUME NEW ss, NEW tt, NEW n \in Nat, NEW m \in Nat, NEW f, NEW g, Flattened(f, ss, n), Flattened(g, tt, m),
         n <= m, \A i \in 1 .. n : ss[i] = tt[i]
  PROVE  \A i \in 1 .. n : f[i] = g[i]
<1> DEFINE Bad == {i \in Nat : i \in 1 .. n /\ f[i] # g[i]}
<1>1. SUFFICES ASSUME Bad # {} PROVE FALSE
  OBVIOUS
<1>2. PICK i \in Bad : \A o \in Bad : i <= o
  BY <1>1, LeastNumber
<1>3. i \in 1 .. n /\ i \in 1 .. m
  BY <1>2
<1>4. f[i] = IF i = 1 THEN ss[i] ELSE f[i - 1] \o ss[i]
  BY <1>3 DEF Flattened
<1>5. g[i] = IF i = 1 THEN tt[i] ELSE g[i - 1] \o tt[i]
  BY <1>3 DEF Flattened
<1>6. i # 1 => f[i - 1] = g[i - 1]
  <2> SUFFICES ASSUME i # 1 PROVE f[i - 1] = g[i - 1]
    OBVIOUS
  <2>1. i - 1 \in Nat /\ i - 1 \in 1 .. n /\ i - 1 \notin Bad
    BY <1>2, <1>3
  <2> QED
    BY <2>1
<1> QED
  BY <1>2, <1>3, <1>4, <1>5, <1>6

LEMMA FlatType ==
  ASSUME NEW S, NEW ss \in Seq(Seq(S)), NEW f, Flattened(f, ss, Len(ss))
  PROVE  \A i \in 1 .. Len(ss) : f[i] \in Seq(S)
<1> DEFINE Bad == {i \in Nat : i \in 1 .. Len(ss) /\ f[i] \notin Seq(S)}
<1>1. SUFFICES ASSUME Bad # {} PROVE FALSE
  OBVIOUS
<1>2. PICK i \in Bad : \A o \in Bad : i <= o
  BY <1>1, LeastNumber
<1>3. i \in 1 .. Len(ss) /\ ss[i] \in Seq(S) /\ Len(ss) \in Nat
  BY <1>2
<1>4. f[i] = IF i = 1 THEN ss[i] ELSE f[i - 1] \o ss[i]
  BY <1>3 DEF Flattened
<1>5. i # 1 => f[i - 1] \in Seq(S)
  <2> SUFFICES ASSUME i # 1 PROVE f[i - 1] \in Seq(S)
    OBVIOUS
  <2>1. i - 1 \in Nat /\ i - 1 \in 1 .. Len(ss) /\ i - 1 \notin Bad
    BY <1>2, <1>3
  <2> QED
    BY <2>1
<1>6. f[i] \in Seq(S)
  BY <1>3, <1>4, <1>5, ConcatProperties
<1> QED
  BY <1>2, <1>6

LEMMA FlattenType == ASSUME NEW S, NEW ss \in Seq(Seq(S)), ss # <<>> PROVE FlattenSeq(ss) \in Seq(S)
<1>1. Len(ss) \in Nat /\ Len(ss) # 0
  OBVIOUS
<1>2. PICK f : Flattened(f, ss, Len(ss)) /\ FlattenSeq(ss) = f[Len(ss)]
  BY <1>1, FlattenIs
<1> QED
  BY <1>1, <1>2, FlatType

LEMMA FlattenOne == ASSUME NEW x PROVE FlattenSeq(<<x>>) = x
<1>1. Len(<<x>>) = 1 /\ <<x>>[1] = x
  OBVIOUS
<1>2. PICK f : Flattened(f, <<x>>, 1) /\ FlattenSeq(<<x>>) = f[1]
  <2>1. Len(<<x>>) \in Nat /\ Len(<<x>>) # 0
    BY <1>1
  <2>2. \E f : Flattened(f, <<x>>, Len(<<x>>)) /\ FlattenSeq(<<x>>) = f[Len(<<x>>)]
    BY <2>1, FlattenIs
  <2> QED
    BY <1>1, <2>2
<1> QED
  BY <1>1, <1>2 DEF Flattened

(* The last sequence comes last.                                           *)
LEMMA FlattenNext ==
  ASSUME NEW ss, NEW tt, NEW n \in Nat, n # 0, Len(ss) = n, Len(tt) = n + 1, \A i \in 1 .. n : ss[i] = tt[i]
  PROVE  FlattenSeq(tt) = FlattenSeq(ss) \o tt[n + 1]
<1>1. n + 1 \in Nat /\ n + 1 # 0 /\ n <= n + 1 /\ n \in 1 .. n
  OBVIOUS
<1>2. PICK f : Flattened(f, ss, n) /\ FlattenSeq(ss) = f[n]
  BY FlattenIs
<1>3. PICK g : Flattened(g, tt, n + 1) /\ FlattenSeq(tt) = g[n + 1]
  BY <1>1, FlattenIs
<1>4. g[n] = f[n]
  <2>1. Flattened(f, ss, n) /\ Flattened(g, tt, n + 1) /\ \A i \in 1 .. n : ss[i] = tt[i]
    BY <1>2, <1>3
  <2>2. \A i \in 1 .. n : f[i] = g[i]
    BY ONLY <1>1, <2>1, n \in Nat, FlatSame
  <2> QED
    BY <1>1, <2>2
<1>5. g[n + 1] = g[n] \o tt[n + 1]
  <2>1. n + 1 \in 1 .. n + 1 /\ n + 1 # 1 /\ (n + 1) - 1 = n
    OBVIOUS
  <2>2. g[n + 1] = IF n + 1 = 1 THEN tt[n + 1] ELSE g[(n + 1) - 1] \o tt[n + 1]
    BY ONLY <1>3, <2>1 DEF Flattened
  <2> QED
    BY ONLY <2>1, <2>2
<1> QED
  BY <1>2, <1>3, <1>4, <1>5

LEMMA FlattenAppend ==
  ASSUME NEW X, NEW ss \in Seq(X), ss # <<>>, NEW x \in X
  PROVE  FlattenSeq(Append(ss, x)) = FlattenSeq(ss) \o x
<1>1. /\ Len(ss) \in Nat /\ Len(ss) # 0 /\ Len(Append(ss, x)) = Len(ss) + 1 /\ Append(ss, x)[Len(ss) + 1] = x
      /\ \A i \in 1 .. Len(ss) : ss[i] = Append(ss, x)[i]
  OBVIOUS
<1> QED
  BY <1>1, FlattenNext

----------------------------------------------------------------------------
(* The lines of a text.                                                    *)

(* The lines of a text, one character after the other: as a function of    *)
(* the places the fold has been over.                                      *)
WithChar(ls, ch) == IF ch = "\n" THEN Append(ls, <<>>) ELSE [ls EXCEPT ![Len(ls)] = Append(@, ch)]

Split(f, s, n) ==
  f = [t \in SUBSET (1 .. n) |-> IF t = {} THEN << <<>> >> ELSE WithChar(f[t \ {Max(t)}], s[Max(t)])]

LEMMA SplitNext ==
  ASSUME NEW s, NEW n \in Nat, NEW f, Split(f, s, n)
  PROVE  \E g : Split(g, s, n + 1)
<1> DEFINE g == [t \in SUBSET (1 .. n + 1) |->
                   IF n + 1 \in t THEN WithChar(f[t \ {n + 1}], s[n + 1]) ELSE f[t]]
           h == [t \in SUBSET (1 .. n + 1) |-> IF t = {} THEN << <<>> >> ELSE WithChar(g[t \ {Max(t)}], s[Max(t)])]
<1>1. ASSUME NEW t \in SUBSET (1 .. n + 1) PROVE g[t] = h[t]
  <2>1. CASE n + 1 \in t
    <3>1. Max(t) = n + 1 /\ t \ {n + 1} \in SUBSET (1 .. n + 1) /\ n + 1 \notin t \ {n + 1}
      BY <2>1, MaxLast
    <3>2. g[t \ {n + 1}] = f[t \ {n + 1}]
      BY <3>1
    <3> QED
      BY <2>1, <3>1, <3>2
  <2>2. CASE n + 1 \notin t
    <3>1. t \in SUBSET (1 .. n)
      BY <2>2
    <3>2. t \ {Max(t)} \in SUBSET (1 .. n) /\ t \ {Max(t)} \in SUBSET (1 .. n + 1) /\ n + 1 \notin t \ {Max(t)}
      BY <2>2, <3>1
    <3>3. g[t] = f[t] /\ g[t \ {Max(t)}] = f[t \ {Max(t)}]
      BY <2>2, <3>2
    <3>4. f[t] = IF t = {} THEN << <<>> >> ELSE WithChar(f[t \ {Max(t)}], s[Max(t)])
      BY <3>1 DEF Split
    <3> QED
      BY <3>3, <3>4
  <2> QED
    BY <2>1, <2>2
<1>2. g = h
  <2>1. g = [t \in SUBSET (1 .. n + 1) |-> g[t]] /\ h = [t \in SUBSET (1 .. n + 1) |-> h[t]]
    OBVIOUS
  <2> HIDE DEF g, h
  <2> QED
    BY <1>1, <2>1
<1>3. Split(g, s, n + 1)
  <2> HIDE DEF g
  <2> QED
    BY <1>2 DEF Split
<1> QED
  BY <1>3

LEMMA SplitExists ==
  ASSUME NEW s, NEW n \in Nat
  PROVE  \E f : Split(f, s, n)
<1> DEFINE Bad == {m \in Nat : ~ \E f : Split(f, s, m)}
<1>1. SUFFICES ASSUME Bad # {} PROVE FALSE
  OBVIOUS
<1>2. PICK m \in Bad : \A o \in Bad : m <= o
  BY <1>1, LeastNumber
<1>3. \E f : Split(f, s, 0)
  <2> DEFINE f == [t \in SUBSET (1 .. 0) |-> << <<>> >>]
  <2>1. \A t \in SUBSET (1 .. 0) : t = {}
    OBVIOUS
  <2>2. f = [t \in SUBSET (1 .. 0) |-> IF t = {} THEN << <<>> >> ELSE WithChar(f[t \ {Max(t)}], s[Max(t)])]
    BY <2>1
  <2> QED
    BY <2>2 DEF Split
<1>4. m \in Nat /\ m # 0
  BY <1>2, <1>3
<1>5. m - 1 \in Nat /\ m - 1 \notin Bad /\ (m - 1) + 1 = m
  BY <1>2, <1>4
<1>6. \E f : Split(f, s, (m - 1) + 1)
  BY <1>5, SplitNext
<1> QED
  BY <1>2, <1>5, <1>6

LEMMA LinesIs ==
  ASSUME NEW s, NEW n \in Nat, DOMAIN s = 1 .. n
  PROVE  \E f : Split(f, s, n) /\ Lines(s) = f[1 .. n]
<1> DEFINE f == CHOOSE g : g = [t \in SUBSET DOMAIN s |->
                  IF t = {} THEN << <<>> >>
                  ELSE IF s[Max(t)] = "\n" THEN Append(g[t \ {Max(t)}], <<>>)
                       ELSE [g[t \ {Max(t)}] EXCEPT ![Len(g[t \ {Max(t)}])] = Append(@, s[Max(t)])]]
<1>1. Lines(s) = f[DOMAIN s]
  BY Zenon DEF Lines, FoldLeft, MapThenFoldSet
<1>2. \E g : g = [t \in SUBSET DOMAIN s |->
                  IF t = {} THEN << <<>> >>
                  ELSE IF s[Max(t)] = "\n" THEN Append(g[t \ {Max(t)}], <<>>)
                       ELSE [g[t \ {Max(t)}] EXCEPT ![Len(g[t \ {Max(t)}])] = Append(@, s[Max(t)])]]
  <2>1. PICK g : Split(g, s, n)
    BY SplitExists
  <2> QED
    BY <2>1 DEF Split, WithChar
<1>3. f = [t \in SUBSET DOMAIN s |->
             IF t = {} THEN << <<>> >>
             ELSE IF s[Max(t)] = "\n" THEN Append(f[t \ {Max(t)}], <<>>)
                  ELSE [f[t \ {Max(t)}] EXCEPT ![Len(f[t \ {Max(t)}])] = Append(@, s[Max(t)])]]
  BY <1>2, Zenon
<1> HIDE DEF f
<1> QED
  BY <1>1, <1>3 DEF Split, WithChar

(* The lines of the first n characters do not depend on the others.        *)
LEMMA SplitSame ==
  ASSUME NEW s, NEW r, NEW n \in Nat, NEW m \in Nat, NEW f, NEW g, Split(f, s, n), Split(g, r, m),
         n <= m, \A i \in 1 .. n : s[i] = r[i]
  PROVE  f[1 .. n] = g[1 .. n]
<1> DEFINE Bad == {i \in Nat : i <= n /\ f[1 .. i] # g[1 .. i]}
<1>1. SUFFICES ASSUME Bad # {} PROVE FALSE
  OBVIOUS
<1>2. PICK i \in Bad : \A o \in Bad : i <= o
  BY <1>1, LeastNumber
<1>3. i \in Nat /\ i <= n /\ f[1 .. i] # g[1 .. i] /\ 1 .. i \in SUBSET (1 .. n) /\ 1 .. i \in SUBSET (1 .. m)
  BY <1>2
<1> DEFINE t == 1 .. i
<1>4. f[t] = IF t = {} THEN << <<>> >> ELSE WithChar(f[t \ {Max(t)}], s[Max(t)])
  BY <1>3 DEF Split
<1>5. g[t] = IF t = {} THEN << <<>> >> ELSE WithChar(g[t \ {Max(t)}], r[Max(t)])
  BY <1>3 DEF Split
<1>6. i # 0
  <2>1. 1 .. 0 = {}
    OBVIOUS
  <2> QED
    BY <1>3, <1>4, <1>5, <2>1
<1>7. i - 1 \in Nat /\ i - 1 <= n /\ i - 1 \notin Bad /\ (i - 1) + 1 = i
  BY <1>2, <1>3, <1>6
<1>8. f[1 .. i - 1] = g[1 .. i - 1]
  BY <1>7
<1>9. Max(t) = i /\ t \ {i} = 1 .. i - 1 /\ t # {}
  <2>1. i \in t /\ t \in SUBSET (1 .. (i - 1) + 1) /\ (i - 1) + 1 \in t
    BY <1>3, <1>6
  <2>2. Max(t) = (i - 1) + 1
    BY <1>7, <2>1, MaxLast
  <2>3. t \ {i} = 1 .. i - 1
    BY <1>3, <1>6
  <2> QED
    BY <1>7, <2>1, <2>2, <2>3
<1>10. s[i] = r[i]
  BY <1>3, <1>6
<1> QED
  BY <1>3, <1>4, <1>5, <1>8, <1>9, <1>10

LEMMA LinesEmpty == Lines(<<>>) = << <<>> >>
<1>1. DOMAIN <<>> = 1 .. 0
  OBVIOUS
<1>2. PICK f : Split(f, <<>>, 0) /\ Lines(<<>>) = f[1 .. 0]
  BY <1>1, LinesIs
<1>3. 1 .. 0 = {} /\ {} \in SUBSET (1 .. 0)
  OBVIOUS
<1> QED
  BY <1>2, <1>3 DEF Split

LEMMA LinesNext ==
  ASSUME NEW s, NEW r, NEW n \in Nat, DOMAIN s = 1 .. n, DOMAIN r = 1 .. n + 1, \A i \in 1 .. n : s[i] = r[i]
  PROVE  Lines(r) = WithChar(Lines(s), r[n + 1])
<1>1. n + 1 \in Nat /\ n <= n + 1 /\ n + 1 \in 1 .. n + 1 /\ 1 .. n + 1 \in SUBSET (1 .. n + 1)
      /\ (1 .. n + 1) \ {n + 1} = 1 .. n /\ 1 .. n + 1 # {}
  OBVIOUS
<1>2. PICK f : Split(f, s, n) /\ Lines(s) = f[1 .. n]
  BY LinesIs
<1>3. PICK g : Split(g, r, n + 1) /\ Lines(r) = g[1 .. n + 1]
  BY <1>1, LinesIs
<1>4. Split(f, s, n) /\ Split(g, r, n + 1)
  BY <1>2, <1>3
<1>5. f[1 .. n] = g[1 .. n]
  BY ONLY <1>1, <1>4, n \in Nat, \A i \in 1 .. n : s[i] = r[i], SplitSame
<1>6. Max(1 .. n + 1) = n + 1
  BY <1>1, MaxLast
<1>7. g[1 .. n + 1] = WithChar(g[1 .. n], r[n + 1])
  <2> DEFINE t == 1 .. n + 1
  <2>1. g[t] = IF t = {} THEN << <<>> >> ELSE WithChar(g[t \ {Max(t)}], r[Max(t)])
    BY <1>1, <1>4 DEF Split
  <2> QED
    BY <1>1, <1>6, <2>1
<1> QED
  BY <1>2, <1>3, <1>5, <1>7

----------------------------------------------------------------------------
(* The rows a line is wrapped into.                                        *)

(* A line of q rows, the last of r characters.                             *)
LEMMA RowCount ==
  ASSUME NEW w \in Nat, w # 0, NEW q \in Nat, q # 0, NEW r \in 1 .. w, NEW n, n = (q - 1) * w + r
  PROVE  n \in Nat /\ n # 0 /\ (n + w - 1) \div w = q
<1> DEFINE p == (q - 1) * w
           a == n + w - 1
           d == a \div w
           m == a % w
<1>1. p \in Nat /\ q * w = p + w
  OBVIOUS
<1>2. a = q * w + (r - 1) /\ a \in Nat
  BY <1>1
<1>3. d \in Nat /\ m \in Nat /\ m < w /\ a = d * w + m
  BY <1>2
<1> HIDE DEF p, a, d, m
<1>4. d * w \in Nat /\ q * w \in Nat
  BY <1>3
<1>5. ~(d < q)
  <2> SUFFICES ASSUME d < q PROVE FALSE
    OBVIOUS
  <2>1. PICK k \in Nat : q = d + 1 + k
    BY <1>3
  <2>2. q * w = d * w + w + k * w /\ k * w \in Nat
    BY <1>3, <2>1
  <2> QED
    BY <1>2, <1>3, <1>4, <2>2
<1>6. ~(d > q)
  <2> SUFFICES ASSUME d > q PROVE FALSE
    OBVIOUS
  <2>1. PICK k \in Nat : d = q + 1 + k
    BY <1>3
  <2>2. d * w = q * w + w + k * w /\ k * w \in Nat
    BY <1>3, <2>1
  <2> QED
    BY <1>2, <1>3, <1>4, <2>2
<1>7. d = q
  BY <1>3, <1>5, <1>6
<1>8. n \in Nat /\ n # 0
  BY <1>1 DEF p
<1> QED
  BY <1>7, <1>8 DEF d, a

LEMMA Rows ==
  ASSUME NEW w \in Nat, w # 0, NEW n \in Nat, n # 0
  PROVE  \E q \in Nat \ {0}, r \in 1 .. w : n = (q - 1) * w + r
<1> DEFINE d == (n - 1) \div w
           m == (n - 1) % w
<1>1. n - 1 \in Nat
  OBVIOUS
<1>2. d \in Nat /\ m \in Nat /\ m < w /\ n - 1 = d * w + m
  BY <1>1
<1> HIDE DEF d, m
<1>3. d + 1 \in Nat \ {0} /\ m + 1 \in 1 .. w /\ n = ((d + 1) - 1) * w + (m + 1)
  BY <1>2
<1> QED
  BY <1>3

(* Where the rows of a line begin.                                         *)
Wrapped(i) == i * fb_cols

LEMMA WrappedNat == ASSUME NEW i \in Nat PROVE Wrapped(i) \in Nat
<1>1. fb_cols \in Nat
  BY Sizes
<1> QED
  BY <1>1 DEF Wrapped

LEMMA WrappedNext == ASSUME NEW q \in Nat \ {0} PROVE Wrapped(q) = Wrapped(q - 1) + fb_cols
<1> DEFINE w == fb_cols
<1>1. w \in Nat
  BY Sizes
<1> HIDE DEF w
<1>2. q * w = (q - 1) * w + w
  BY <1>1
<1> QED
  BY <1>2 DEF Wrapped, w

LEMMA WrappedZero == Wrapped(0) = 0
<1>1. fb_cols \in Nat
  BY Sizes
<1> QED
  BY <1>1 DEF Wrapped

(* A line of q rows, the last of r characters.                             *)
Filled(s, q, r) == q \in Nat \ {0} /\ r \in 1 .. fb_cols /\ Len(s) = Wrapped(q - 1) + r

LEMMA RowsFilled ==
  ASSUME NEW s, Len(s) \in Nat, Len(s) # 0
  PROVE  \E q, r : Filled(s, q, r)
<1>1. fb_cols \in Nat /\ fb_cols # 0
  BY Sizes
<1>2. PICK q \in Nat \ {0}, r \in 1 .. fb_cols : Len(s) = (q - 1) * fb_cols + r
  BY ONLY <1>1, Len(s) \in Nat, Len(s) # 0, Rows
<1>3. Filled(s, q, r)
  BY <1>2 DEF Wrapped, Filled
<1> QED
  BY <1>3

LEMMA PiecesForm ==
  ASSUME NEW C, NEW s \in Seq(C), NEW q, NEW r, Filled(s, q, r)
  PROVE  /\ Pieces(s) \in Seq(Seq(C)) /\ Len(Pieces(s)) = q
         /\ Pieces(s)[q] = SubSeq(s, Wrapped(q - 1) + 1, Len(s)) /\ Len(Pieces(s)[q]) = r
         /\ \A i \in 1 .. q - 1 : /\ Pieces(s)[i] = SubSeq(s, Wrapped(i - 1) + 1, Wrapped(i))
                                  /\ Wrapped(i) <= Wrapped(q - 1)
<1>0. q \in Nat \ {0} /\ r \in 1 .. fb_cols /\ Len(s) = (q - 1) * fb_cols + r
  BY DEF Filled, Wrapped
<1> USE <1>0
<1> DEFINE w == fb_cols
           P == Pieces(s)
           Piece(i) == SubSeq(s, (i - 1) * w + 1, Min({i * w, Len(s)}))
<1>1. w \in Nat /\ w # 0
  BY Sizes
<1> HIDE DEF w
<1>2. Len(s) \in Nat /\ Len(s) # 0 /\ (Len(s) + w - 1) \div w = q
  BY <1>1, RowCount DEF w
<1>3. P = [i \in 1 .. q |-> Piece(i)]
  <2>1. s # <<>>
    BY <1>2
  <2> QED
    BY <1>2, <2>1 DEF Pieces, w
<1>a. \A i \in 1 .. q : P[i] = SubSeq(s, (i - 1) * w + 1, Min({i * w, Len(s)}))
  <2> HIDE DEF P
  <2> QED
    BY ONLY <1>3
<1> HIDE DEF P
<1>4. (q - 1) * w \in Nat /\ q * w = (q - 1) * w + w
  BY <1>1
<1>5. Min({q * w, Len(s)}) = Len(s)
  <2>1. q * w \in Int /\ Len(s) \in Int /\ q * w >= Len(s)
    BY <1>1, <1>2, <1>4 DEF w
  <2> QED
    BY <2>1, MinPair
<1>6. ASSUME NEW i \in 1 .. q - 1
      PROVE  /\ (i - 1) * w \in Nat /\ i * w \in Nat /\ i * w = (i - 1) * w + w /\ i * w <= (q - 1) * w
             /\ Min({i * w, Len(s)}) = i * w
  <2>1. (i - 1) * w \in Nat /\ i * w \in Nat /\ i * w = (i - 1) * w + w
    BY <1>1
  <2>2. PICK k \in Nat : q - 1 = i + k
    <3>1. (q - 1) - i \in Nat /\ q - 1 = i + ((q - 1) - i)
      OBVIOUS
    <3> QED
      BY <3>1
  <2>3. (q - 1) * w = i * w + k * w /\ k * w \in Nat
    BY <1>1, <2>2
  <2>4. i * w <= (q - 1) * w
    BY <1>4, <2>1, <2>3
  <2>5. i * w <= Len(s)
    BY <1>1, <1>4, <2>1, <2>4 DEF w
  <2> QED
    BY <1>2, <2>1, <2>4, <2>5, MinPair
<1>7. ASSUME NEW i \in 1 .. q - 1 PROVE P[i] = SubSeq(s, (i - 1) * w + 1, i * w)
  <2>1. i \in 1 .. q /\ Min({i * w, Len(s)}) = i * w
    BY <1>6
  <2> QED
    BY ONLY <1>a, <2>1
<1>8. P[q] = SubSeq(s, (q - 1) * w + 1, Len(s))
  <2>1. q \in 1 .. q
    OBVIOUS
  <2> QED
    BY ONLY <1>a, <1>5, <2>1
<1>9. \A i \in 1 .. Len(s) : s[i] \in C
  OBVIOUS
<1>10. P[q] \in Seq(C) /\ Len(P[q]) = r
  <2>1. (q - 1) * w + 1 \in Int /\ Len(s) \in Int /\ (q - 1) * w + 1 <= Len(s)
        /\ Len(s) - ((q - 1) * w + 1) + 1 = r
    BY <1>2, <1>4 DEF w
  <2>2. \A i \in (q - 1) * w + 1 .. Len(s) : s[i] \in C
    BY <1>4, <1>9
  <2> QED
    BY <1>8, <2>1, <2>2, SubSeqProperties
<1>11. ASSUME NEW i \in 1 .. q - 1 PROVE P[i] \in Seq(C)
  <2>1. (i - 1) * w + 1 \in Int /\ i * w \in Int
    <3>1. (i - 1) * w \in Nat /\ i * w \in Nat
      BY <1>6
    <3> QED
      BY <3>1
  <2>2. \A j \in (i - 1) * w + 1 .. i * w : s[j] \in C
    BY <1>1, <1>2, <1>4, <1>6, <1>9 DEF w
  <2>3. P[i] = SubSeq(s, (i - 1) * w + 1, i * w)
    BY <1>7
  <2> QED
    BY ONLY <2>1, <2>2, <2>3, SubSeqProperties
<1>12. P \in Seq(Seq(C)) /\ Len(P) = q
  <2>1. \A i \in 1 .. q : P[i] \in Seq(C)
    BY <1>10, <1>11
  <2>2. P \in [1 .. q -> Seq(C)]
    <3>1. P = [i \in 1 .. q |-> P[i]]
      BY ONLY <1>3
    <3> QED
      BY ONLY <2>1, <3>1
  <2> QED
    BY <2>2
<1> QED
  BY <1>4, <1>6, <1>7, <1>8, <1>10, <1>12 DEF P, w, Wrapped

LEMMA PiecesEmpty == Pieces(<<>>) = << <<>> >>
BY DEF Pieces

(* A character more extends the last row, or begins another one.           *)
LEMMA PiecesShort ==
  ASSUME NEW C, NEW s \in Seq(C), Len(s) <= fb_cols
  PROVE  Pieces(s) = <<s>>
<1>1. CASE s = <<>>
  BY <1>1 DEF Pieces
<1>2. CASE s # <<>>
  <2>1. Filled(s, 1, Len(s)) /\ Wrapped(1 - 1) + 1 = 1
    BY <1>2, WrappedZero, Sizes DEF Filled
  <2>2. Pieces(s) \in Seq(Seq(C)) /\ Len(Pieces(s)) = 1 /\ Pieces(s)[1] = SubSeq(s, Wrapped(1 - 1) + 1, Len(s))
    BY <2>1, PiecesForm
  <2>3. SubSeq(s, 1, Len(s)) = s
    OBVIOUS
  <2>4. Pieces(s)[1] = s
    BY <2>1, <2>2, <2>3
  <2> QED
    BY <2>2, <2>4
<1> QED
  BY <1>1, <1>2

LEMMA PiecesType ==
  ASSUME NEW C, NEW s \in Seq(C)
  PROVE  /\ Pieces(s) \in Seq(Seq(C)) /\ Pieces(s) # <<>>
         /\ Len(Pieces(s)[Len(Pieces(s))]) <= fb_cols
<1>1. CASE s = <<>>
  <2>1. Pieces(s) = << <<>> >> /\ fb_cols \in Nat
    BY <1>1, PiecesEmpty, Sizes
  <2> QED
    BY <2>1
<1>2. CASE s # <<>>
  <2>1. PICK q, r : Filled(s, q, r)
    <3>1. Len(s) \in Nat /\ Len(s) # 0
      BY <1>2
    <3> QED
      BY <3>1, RowsFilled
  <2>2. Pieces(s) \in Seq(Seq(C)) /\ Len(Pieces(s)) = q /\ Len(Pieces(s)[q]) = r
    BY <2>1, PiecesForm
  <2>3. q \in Nat \ {0} /\ r \in 1 .. fb_cols /\ fb_cols \in Nat
    BY <2>1, Sizes DEF Filled
  <2> QED
    BY <2>2, <2>3
<1> QED
  BY <1>1, <1>2

LEMMA AppendFacts ==
  ASSUME NEW C, NEW s \in Seq(C), NEW c \in C
  PROVE  /\ Append(s, c) \in Seq(C) /\ Len(Append(s, c)) = Len(s) + 1 /\ Len(s) \in Nat
         /\ Append(s, c)[Len(s) + 1] = c
         /\ \A i \in 1 .. Len(s) : Append(s, c)[i] = s[i]
OBVIOUS

LEMMA OneElement == ASSUME NEW C, NEW s \in Seq(C), Len(s) = 1 PROVE s = <<s[1]>>
OBVIOUS

LEMMA SubSeqAppend ==
  ASSUME NEW C, NEW s \in Seq(C), NEW c \in C, NEW a \in Nat, a # 0
  PROVE  /\ \A b \in Nat : b <= Len(s) => SubSeq(Append(s, c), a, b) = SubSeq(s, a, b)
         /\ a <= Len(s) + 1 => SubSeq(Append(s, c), a, Len(s) + 1) = Append(SubSeq(s, a, Len(s)), c)
<1> DEFINE t == Append(s, c)
           n == Len(s)
<1>1. n \in Nat /\ t \in Seq(C) /\ Len(t) = n + 1 /\ t[n + 1] = c /\ \A i \in 1 .. n : t[i] = s[i] /\ s[i] \in C
  OBVIOUS
<1> HIDE DEF t, n
<1>2. ASSUME NEW b \in Nat, b <= n PROVE SubSeq(t, a, b) = SubSeq(s, a, b)
  <2>1. \A i \in a .. b : t[i] = s[i] /\ s[i] \in C
    BY <1>1, <1>2
  <2>2. /\ SubSeq(t, a, b) \in Seq(C) /\ Len(SubSeq(t, a, b)) = IF a <= b THEN b - a + 1 ELSE 0
        /\ \A i \in 1 .. b - a + 1 : SubSeq(t, a, b)[i] = t[a + i - 1]
    BY ONLY <2>1, a \in Nat, b \in Nat, SubSeqProperties
  <2>3. /\ SubSeq(s, a, b) \in Seq(C) /\ Len(SubSeq(s, a, b)) = IF a <= b THEN b - a + 1 ELSE 0
        /\ \A i \in 1 .. b - a + 1 : SubSeq(s, a, b)[i] = s[a + i - 1]
    BY ONLY <2>1, a \in Nat, b \in Nat, SubSeqProperties
  <2>4. \A i \in 1 .. Len(SubSeq(t, a, b)) : SubSeq(t, a, b)[i] = SubSeq(s, a, b)[i]
    <3> SUFFICES ASSUME NEW i \in 1 .. Len(SubSeq(t, a, b)) PROVE SubSeq(t, a, b)[i] = SubSeq(s, a, b)[i]
      OBVIOUS
    <3>1. i \in 1 .. b - a + 1 /\ a + i - 1 \in a .. b
      BY <2>2
    <3> QED
      BY <2>1, <2>2, <2>3, <3>1
  <2> QED
    BY <2>2, <2>3, <2>4, SeqEqual
<1>3. ASSUME a <= n + 1 PROVE SubSeq(t, a, n + 1) = Append(SubSeq(s, a, n), c)
  <2> DEFINE u == SubSeq(t, a, n + 1)
             v == SubSeq(s, a, n)
  <2>1. \A i \in a .. n + 1 : t[i] \in C
    BY <1>1
  <2>2. u \in Seq(C) /\ Len(u) = n + 1 - a + 1 /\ \A i \in 1 .. n + 1 - a + 1 : u[i] = t[a + i - 1]
    BY <1>1, <1>3, <2>1, SubSeqProperties
  <2>3. v \in Seq(C) /\ Len(v) = n - a + 1 /\ \A i \in 1 .. n - a + 1 : v[i] = s[a + i - 1]
    <3>1. \A i \in a .. n : s[i] \in C
      BY <1>1
    <3>2. v \in Seq(C) /\ Len(v) = (IF a <= n THEN n - a + 1 ELSE 0) /\ \A i \in 1 .. n - a + 1 : v[i] = s[a + i - 1]
      BY <1>1, <3>1, SubSeqProperties
    <3> QED
      BY <1>1, <1>3, <3>2
  <2> HIDE DEF u, v
  <2>4. Append(v, c) \in Seq(C) /\ Len(Append(v, c)) = n + 1 - a + 1
    BY <1>1, <1>3, <2>3
  <2>5. ASSUME NEW i \in 1 .. n + 1 - a + 1 PROVE u[i] = Append(v, c)[i]
    <3>1. CASE i <= n - a + 1
      <4>1. i \in 1 .. n - a + 1 /\ a + i - 1 \in 1 .. n
        BY <1>1, <3>1
      <4> QED
        BY <1>1, <2>2, <2>3, <4>1
    <3>2. CASE i = n - a + 2
      <4>1. a + i - 1 = n + 1 /\ i = Len(v) + 1
        BY <1>1, <2>3, <3>2
      <4>2. Append(v, c)[Len(v) + 1] = c
        BY <2>3, AppendFacts
      <4>3. Append(v, c)[i] = c
        BY <4>1, <4>2
      <4>4. u[i] = t[n + 1]
        BY ONLY <2>2, <4>1, i \in 1 .. n + 1 - a + 1
      <4>5. t[n + 1] = c
        BY <1>1
      <4> QED
        BY ONLY <4>3, <4>4, <4>5
    <3>3. n \in Nat
      BY <1>1
    <3>4. i <= n - a + 1 \/ i = n - a + 2
      BY ONLY <3>3, a \in Nat, i \in 1 .. n + 1 - a + 1
    <3> QED
      BY <3>1, <3>2, <3>4
  <2>6. u = Append(v, c)
    BY <2>2, <2>4, <2>5, SeqEqual
  <2> QED
    BY <2>6 DEF u, v
<1> QED
  BY <1>2, <1>3 DEF t, n

LEMMA PiecesNext ==
  ASSUME NEW C, NEW s \in Seq(C), NEW c \in C, NEW P, P = Pieces(s), NEW n, n = Len(P)
  PROVE  /\ Len(P[n]) < fb_cols => Pieces(Append(s, c)) = [P EXCEPT ![n] = Append(P[n], c)]
         /\ Len(P[n]) = fb_cols => Pieces(Append(s, c)) = Append(P, <<c>>)
<1> DEFINE t == Append(s, c)
<1>1. fb_cols \in Nat /\ fb_cols # 0
  BY Sizes
<1>2. t \in Seq(C) /\ Len(t) = Len(s) + 1 /\ Len(s) \in Nat /\ t[Len(t)] = c
  OBVIOUS
<1>3. CASE s = <<>>
  <2>1. P = << <<>> >> /\ n = 1 /\ P[n] = <<>> /\ Len(P[n]) = 0
    BY <1>3, PiecesEmpty
  <2>2. Pieces(t) = <<t>> /\ t = <<c>>
    <3>1. t \in Seq(C) /\ Len(t) <= fb_cols
      BY <1>1, <1>2, <1>3
    <3>2. Pieces(t) = <<t>>
      BY ONLY <3>1, PiecesShort
    <3> QED
      BY <1>3, <3>2
  <2>3. [P EXCEPT ![n] = Append(P[n], c)] = << <<c>> >>
    BY ONLY <2>1
  <2> QED
    BY <1>1, <2>1, <2>2, <2>3
<1>4. CASE s # <<>>
  <2>1. PICK q, r : Filled(s, q, r)
    <3>1. Len(s) \in Nat /\ Len(s) # 0
      BY <1>2, <1>4
    <3> QED
      BY <3>1, RowsFilled
  <2>2. /\ P \in Seq(Seq(C)) /\ n = q /\ Len(P) = q
        /\ P[q] = SubSeq(s, Wrapped(q - 1) + 1, Len(s)) /\ Len(P[q]) = r
        /\ \A i \in 1 .. q - 1 : /\ P[i] = SubSeq(s, Wrapped(i - 1) + 1, Wrapped(i))
                                 /\ Wrapped(i) <= Wrapped(q - 1)
    BY <2>1, PiecesForm
  <2>q. q \in Nat \ {0} /\ r \in 1 .. fb_cols /\ Len(s) = Wrapped(q - 1) + r /\ q - 1 \in Nat
    BY <2>1 DEF Filled
  <2>o. Wrapped(q - 1) \in Nat /\ Wrapped(q) = Wrapped(q - 1) + fb_cols
    BY <2>q, WrappedNat, WrappedNext
  <2>3. \A a \in Nat \ {0}, b \in Nat : b <= Len(s) => SubSeq(t, a, b) = SubSeq(s, a, b)
    BY SubSeqAppend
  <2>4. ASSUME NEW i \in 1 .. q - 1 PROVE SubSeq(t, Wrapped(i - 1) + 1, Wrapped(i)) = P[i]
    <3>1. Wrapped(i - 1) + 1 \in Nat \ {0} /\ Wrapped(i) \in Nat /\ Wrapped(i) <= Len(s)
      <4>1. i - 1 \in Nat /\ i \in Nat
        BY <2>q
      <4>2. Wrapped(i - 1) \in Nat /\ Wrapped(i) \in Nat
        BY <4>1, WrappedNat
      <4>3. Wrapped(i) <= Wrapped(q - 1)
        BY <2>2
      <4> QED
        BY SMTT(30), <1>1, <1>2, <2>q, <2>o, <4>2, <4>3
    <3>2. P[i] = SubSeq(s, Wrapped(i - 1) + 1, Wrapped(i))
      BY <2>2
    <3> QED
      BY ONLY <2>3, <3>1, <3>2
  <2>5. CASE r < fb_cols
    <3>1. Filled(t, q, r + 1)
      BY <1>1, <1>2, <2>q, <2>o, <2>5 DEF Filled
    <3> DEFINE T == Pieces(t)
    <3>2. /\ T \in Seq(Seq(C)) /\ Len(T) = q /\ T[q] = SubSeq(t, Wrapped(q - 1) + 1, Len(t))
          /\ \A i \in 1 .. q - 1 : T[i] = SubSeq(t, Wrapped(i - 1) + 1, Wrapped(i))
      BY <1>2, <3>1, PiecesForm
    <3>3. T[q] = Append(P[q], c)
      <4>1. Wrapped(q - 1) + 1 \in Nat /\ Wrapped(q - 1) + 1 # 0 /\ Wrapped(q - 1) + 1 <= Len(s) + 1
        BY <1>1, <1>2, <2>q, <2>o
      <4>2. SubSeq(t, Wrapped(q - 1) + 1, Len(s) + 1) = Append(SubSeq(s, Wrapped(q - 1) + 1, Len(s)), c)
        BY ONLY <4>1, s \in Seq(C), c \in C, SubSeqAppend
      <4> QED
        BY ONLY <1>2, <2>2, <3>2, <4>2
    <3> HIDE DEF T
    <3>4. T = [P EXCEPT ![q] = Append(P[q], c)]
      <4> DEFINE U == [P EXCEPT ![q] = Append(P[q], c)]
      <4>0. P[q] \in Seq(C)
        <5>1. P \in Seq(Seq(C)) /\ Len(P) = q
          BY <2>2
        <5> QED
          BY ONLY <5>1, <2>q
      <4>1. P[q] \in Seq(C) /\ Append(P[q], c) \in Seq(C)
        BY <4>0
      <4>2. U \in Seq(Seq(C)) /\ Len(U) = q /\ U[q] = Append(P[q], c) /\ \A i \in 1 .. q - 1 : U[i] = P[i]
        BY ONLY <2>2, <4>1, <2>q
      <4> HIDE DEF U
      <4>3. \A i \in 1 .. Len(T) : T[i] = U[i]
        <5> SUFFICES ASSUME NEW i \in 1 .. Len(T) PROVE T[i] = U[i]
          OBVIOUS
        <5>1. CASE i = q
          BY <3>3, <4>2, <5>1
        <5>2. CASE i # q
          <6>1. i \in 1 .. q - 1
            BY <2>q, <3>2, <5>2
          <6>2. T[i] = SubSeq(t, Wrapped(i - 1) + 1, Wrapped(i)) /\ U[i] = P[i]
            BY ONLY <3>2, <4>2, <6>1
          <6> QED
            BY <2>4, <6>1, <6>2
        <5> QED
          BY <5>1, <5>2
      <4>4. T = U
        BY ONLY <3>2, <4>2, <4>3, SeqEqual
      <4> QED
        BY <4>4 DEF U
    <3> QED
      <4>1. Pieces(Append(s, c)) = [P EXCEPT ![n] = Append(P[n], c)]
        BY <2>2, <3>4 DEF T
      <4>2. Len(P[n]) # fb_cols
        <5>1. n = q /\ Len(P[q]) = r
          BY <2>2
        <5>2. Len(P[n]) = r
          BY ONLY <5>1
        <5> QED
          BY ONLY <1>1, <2>q, <5>2, <2>5
      <4> QED
        BY <4>1, <4>2
  <2>6. CASE r = fb_cols
    <3>1. PICK o \in Nat \ {0} : o = q + 1
      BY <2>q
    <3>2. Wrapped(q) = Wrapped(q - 1) + fb_cols /\ o - 1 = q /\ q \in Nat
      BY <2>q, <2>o, <3>1
    <3>3. Len(s) = Wrapped(q) /\ Len(t) = Wrapped(o - 1) + 1 /\ Filled(t, o, 1)
      BY <1>1, <1>2, <2>q, <2>o, <2>6, <3>2 DEF Filled
    <3> DEFINE T == Pieces(t)
    <3>4. /\ T \in Seq(Seq(C)) /\ Len(T) = o /\ T[o] = SubSeq(t, Wrapped(o - 1) + 1, Len(t))
          /\ \A i \in 1 .. o - 1 : T[i] = SubSeq(t, Wrapped(i - 1) + 1, Wrapped(i))
      BY ZenonT(60), <1>2, <3>3, PiecesForm
    <3>5. T[o] = <<c>>
      <4>1. Wrapped(o - 1) + 1 = Len(t) /\ Len(t) \in 1 .. Len(t) /\ t[Len(t)] = c
        BY <1>2, <3>3
      <4>2. SubSeq(t, Len(t), Len(t)) = <<t[Len(t)]>>
        <5>1. SubSeq(t, Len(t), Len(t)) \in Seq(C) /\ Len(SubSeq(t, Len(t), Len(t))) = 1
              /\ SubSeq(t, Len(t), Len(t))[1] = t[Len(t)]
          BY ONLY t \in Seq(C), Len(t) \in 1 .. Len(t), <4>1
        <5> QED
          BY <5>1, OneElement
      <4> QED
        BY <3>4, <4>1, <4>2
    <3> HIDE DEF T
    <3>6. \A i \in 1 .. q - 1 : T[i] = P[i]
      <4> SUFFICES ASSUME NEW i \in 1 .. q - 1 PROVE T[i] = P[i]
        OBVIOUS
      <4>1. i \in 1 .. o - 1
        BY <3>2
      <4>2. T[i] = SubSeq(t, Wrapped(i - 1) + 1, Wrapped(i))
        BY ONLY <3>4, <4>1
      <4> QED
        BY <2>4, <4>2
    <3>7. T[q] = P[q]
      <4>1. T[q] = SubSeq(t, Wrapped(q - 1) + 1, Wrapped(q))
        <5>1. q \in 1 .. o - 1
          BY <2>q, <3>2
        <5> QED
          BY ONLY <3>4, <5>1
      <4>2. Wrapped(q - 1) + 1 \in Nat \ {0} /\ Wrapped(q) \in Nat /\ Wrapped(q) <= Len(s)
        BY <1>2, <2>o, <3>3
      <4> QED
        BY ONLY ZenonT(60), <2>2, <2>3, <3>3, <4>1, <4>2
    <3>8. T = Append(P, <<c>>)
      <4>1. <<c>> \in Seq(C)
        OBVIOUS
      <4>2. Append(P, <<c>>) \in Seq(Seq(C)) /\ Len(Append(P, <<c>>)) = o /\ Append(P, <<c>>)[o] = <<c>>
            /\ \A i \in 1 .. q : Append(P, <<c>>)[i] = P[i]
        BY ONLY <2>2, <3>1, <4>1, <2>q
      <4>3. \A i \in 1 .. Len(T) : T[i] = Append(P, <<c>>)[i]
        <5> SUFFICES ASSUME NEW i \in 1 .. Len(T) PROVE T[i] = Append(P, <<c>>)[i]
          OBVIOUS
        <5>1. i = o \/ i = q \/ i \in 1 .. q - 1
          BY <2>q, <3>1, <3>4
        <5>2. CASE i = o
          BY <3>5, <4>2, <5>2
        <5>3. CASE i = q
          <6>1. q \in 1 .. q
            BY <2>q
          <6> QED
            BY <3>7, <4>2, <5>3, <6>1
        <5>4. CASE i \in 1 .. q - 1
          <6>1. i \in 1 .. q
            BY <2>q, <5>4
          <6> QED
            BY ONLY <3>6, <4>2, <5>4, <6>1
        <5> QED
          BY <5>1, <5>2, <5>3, <5>4
      <4> QED
        BY ONLY <3>4, <4>2, <4>3, SeqEqual
    <3> QED
      <4>1. Pieces(Append(s, c)) = Append(P, <<c>>)
        BY <3>8 DEF T
      <4>2. ~(Len(P[n]) < fb_cols)
        <5>1. n = q /\ Len(P[q]) = r
          BY <2>2
        <5>2. Len(P[n]) = r
          BY ONLY <5>1
        <5> QED
          BY ONLY <1>1, <2>q, <5>2, <2>6
      <4> QED
        BY <4>1, <4>2
  <2> QED
    BY <1>1, <2>q, <2>2, <2>5, <2>6
<1> QED
  BY <1>3, <1>4

LEMMA WithCharType ==
  ASSUME NEW C, NEW ls \in Seq(Seq(C)), ls # <<>>, NEW ch \in C
  PROVE  WithChar(ls, ch) \in Seq(Seq(C)) /\ WithChar(ls, ch) # <<>>
<1>1. CASE ch = "\n"
  <2>1. <<>> \in Seq(C)
    OBVIOUS
  <2>2. Append(ls, <<>>) \in Seq(Seq(C)) /\ Append(ls, <<>>) # <<>>
    BY <2>1
  <2> QED
    BY <1>1, <2>2 DEF WithChar
<1>2. CASE ch # "\n"
  <2>1. Len(ls) \in 1 .. Len(ls) /\ ls[Len(ls)] \in Seq(C)
    OBVIOUS
  <2>2. Append(ls[Len(ls)], ch) \in Seq(C)
    BY <2>1
  <2> DEFINE x == Append(ls[Len(ls)], ch)
  <2> HIDE DEF x
  <2>3. [ls EXCEPT ![Len(ls)] = x] \in Seq(Seq(C)) /\ [ls EXCEPT ![Len(ls)] = x] # <<>>
    <3>1. x \in Seq(C)
      BY <2>2 DEF x
    <3>2. [ls EXCEPT ![Len(ls)] = x] \in Seq(Seq(C)) /\ Len([ls EXCEPT ![Len(ls)] = x]) = Len(ls)
      BY <2>1, <3>1
    <3> QED
      BY <2>1, <3>2
  <2> QED
    BY <1>2, <2>3 DEF WithChar, x
<1> QED
  BY <1>1, <1>2

(* The lines of a text are a sequence of texts, and there is one.          *)
LEMMA LinesType ==
  ASSUME NEW C, NEW s \in Seq(C)
  PROVE  Lines(s) \in Seq(Seq(C)) /\ Lines(s) # <<>>
<1> DEFINE T(n) == [i \in 1 .. n |-> s[i]]
           Fine(n) == Lines(T(n)) \in Seq(Seq(C)) /\ Lines(T(n)) # <<>>
           S == {n \in Nat : n <= Len(s) /\ ~Fine(n)}
<1>1. Fine(0)
  <2>1. T(0) = <<>>
    OBVIOUS
  <2>2. << <<>> >> \in Seq(Seq(C)) /\ << <<>> >> # <<>>
    OBVIOUS
  <2> QED
    BY <2>1, <2>2, LinesEmpty
<1>2. ASSUME NEW n \in Nat, n + 1 <= Len(s), Fine(n) PROVE Fine(n + 1)
  <2>1. s[n + 1] \in C /\ T(n + 1)[n + 1] = s[n + 1]
    BY <1>2
  <2>2. DOMAIN T(n) = 1 .. n /\ DOMAIN T(n + 1) = 1 .. n + 1 /\ \A i \in 1 .. n : T(n)[i] = T(n + 1)[i]
    OBVIOUS
  <2>3. PICK x, y : x = T(n) /\ y = T(n + 1)
    OBVIOUS
  <2>4. /\ DOMAIN x = 1 .. n /\ DOMAIN y = 1 .. n + 1 /\ \A i \in 1 .. n : x[i] = y[i]
        /\ y[n + 1] \in C /\ Lines(x) \in Seq(Seq(C)) /\ Lines(x) # <<>>
    BY <1>2, <2>1, <2>2, <2>3
  <2>5. Lines(y) = WithChar(Lines(x), y[n + 1])
    BY ONLY <2>4, n \in Nat, LinesNext
  <2>6. Lines(y) \in Seq(Seq(C)) /\ Lines(y) # <<>>
    BY <2>4, <2>5, WithCharType
  <2> QED
    BY <2>3, <2>6
<1>3. T(Len(s)) = s
  OBVIOUS
<1> HIDE DEF T
<1>4. S = {}
  <2> SUFFICES ASSUME S # {} PROVE FALSE
    OBVIOUS
  <2>1. S \in SUBSET Nat
    OBVIOUS
  <2>2. PICK m \in S : \A o \in S : m <= o
    BY <2>1, LeastNumber
  <2> HIDE DEF Fine
  <2>3. m \in Nat /\ m <= Len(s) /\ ~Fine(m)
    BY <2>2
  <2>4. m # 0
    BY <1>1, <2>3
  <2>5. m - 1 \in Nat /\ m - 1 \notin S
    BY <2>2, <2>3, <2>4
  <2>6. Fine(m - 1) /\ (m - 1) + 1 = m
    BY <2>3, <2>5
  <2>7. Fine((m - 1) + 1)
    BY <1>2, <2>3, <2>5, <2>6
  <2> QED
    BY <2>3, <2>6, <2>7
<1>5. Fine(Len(s))
  BY <1>4
<1> QED
  BY <1>3, <1>5

----------------------------------------------------------------------------
(* The rows of text that lines are laid out in.                            *)
Rowed(ls) == FlattenSeq([i \in 1 .. Len(ls) |-> Pieces(ls[i])])
All(s) == Rowed(Lines(s))

LEMMA AllPieces ==
  ASSUME NEW C, NEW ls \in Seq(Seq(C)), NEW ps, ps = [i \in 1 .. Len(ls) |-> Pieces(ls[i])]
  PROVE  ps \in Seq(Seq(Seq(C))) /\ Len(ps) = Len(ls) /\ \A i \in 1 .. Len(ls) : ps[i] = Pieces(ls[i])
<1>1. \A i \in 1 .. Len(ls) : Pieces(ls[i]) \in Seq(Seq(C))
  BY PiecesType
<1> QED
  BY <1>1

LEMMA RowedType == ASSUME NEW C, NEW ls \in Seq(Seq(C)), ls # <<>> PROVE Rowed(ls) \in Seq(Seq(C))
<1>1. PICK ps : ps = [i \in 1 .. Len(ls) |-> Pieces(ls[i])]
  OBVIOUS
<1>2. ps \in Seq(Seq(Seq(C))) /\ Len(ps) = Len(ls)
  BY <1>1, AllPieces
<1>3. ps # <<>>
  BY <1>2
<1>4. FlattenSeq(ps) \in Seq(Seq(C))
  BY <1>2, <1>3, FlattenType
<1> QED
  BY <1>1, <1>4 DEF Rowed

(* The rows of the last line come last.                                    *)
LEMMA RowedNext ==
  ASSUME NEW C, NEW ls \in Seq(Seq(C)), NEW ks \in Seq(Seq(C)), NEW n \in Nat, n # 0, Len(ls) = n, Len(ks) = n + 1,
         \A i \in 1 .. n : ls[i] = ks[i]
  PROVE  Rowed(ks) = Rowed(ls) \o Pieces(ks[n + 1])
<1>1. PICK ps, qs : ps = [i \in 1 .. Len(ls) |-> Pieces(ls[i])] /\ qs = [i \in 1 .. Len(ks) |-> Pieces(ks[i])]
  OBVIOUS
<1>2. /\ Len(ps) = n /\ Len(qs) = n + 1 /\ \A i \in 1 .. n : ps[i] = Pieces(ls[i])
      /\ \A i \in 1 .. n + 1 : qs[i] = Pieces(ks[i])
  BY <1>1, AllPieces
<1>3. \A i \in 1 .. n : ps[i] = qs[i]
  <2> SUFFICES ASSUME NEW i \in 1 .. n PROVE ps[i] = qs[i]
    OBVIOUS
  <2>1. i \in 1 .. n + 1 /\ ls[i] = ks[i]
    OBVIOUS
  <2> QED
    BY ONLY <1>2, <2>1, i \in 1 .. n
<1>4. qs[n + 1] = Pieces(ks[n + 1])
  <2>1. n + 1 \in 1 .. n + 1
    OBVIOUS
  <2> QED
    BY ONLY <1>2, <2>1
<1>5. FlattenSeq(qs) = FlattenSeq(ps) \o qs[n + 1]
  BY SMTT(30), <1>2, <1>3, FlattenNext
<1> QED
  BY <1>1, <1>4, <1>5 DEF Rowed

LEMMA RowedOne == ASSUME NEW x PROVE Rowed(<<x>>) = Pieces(x)
<1>1. [i \in 1 .. Len(<<x>>) |-> Pieces(<<x>>[i])] = <<Pieces(x)>>
  OBVIOUS
<1> QED
  BY <1>1, FlattenOne DEF Rowed

LEMMA RowedSplit ==
  ASSUME NEW C, NEW ls \in Seq(Seq(C)), NEW n \in Nat, Len(ls) = n + 1
  PROVE  \E pre \in Seq(Seq(C)) : \A ks \in Seq(Seq(C)) :
           Len(ks) = n + 1 /\ (\A i \in 1 .. n : ls[i] = ks[i]) => Rowed(ks) = pre \o Pieces(ks[n + 1])
<1>1. CASE n = 0
  <2>1. <<>> \in Seq(Seq(C))
    OBVIOUS
  <2>2. ASSUME NEW ks \in Seq(Seq(C)), Len(ks) = n + 1 PROVE Rowed(ks) = <<>> \o Pieces(ks[n + 1])
    <3>1. ks = <<ks[1]>> /\ ks[1] \in Seq(C) /\ n + 1 = 1
      BY <1>1, <2>2, OneElement
    <3>2. Pieces(ks[1]) \in Seq(Seq(C))
      BY <3>1, PiecesType
    <3>3. <<>> \o Pieces(ks[1]) = Pieces(ks[1])
      BY <3>2
    <3>4. Rowed(ks) = Pieces(ks[1])
      BY ONLY <3>1, RowedOne
    <3> QED
      BY <3>1, <3>3, <3>4
  <2> QED
    BY <2>1, <2>2
<1>2. CASE n # 0
  <2>1. PICK fs : fs = SubSeq(ls, 1, n)
    OBVIOUS
  <2>2. fs \in Seq(Seq(C)) /\ Len(fs) = n /\ \A i \in 1 .. n : fs[i] = ls[i]
    BY <2>1
  <2>3. fs # <<>>
    BY <1>2, <2>2
  <2>4. Rowed(fs) \in Seq(Seq(C))
    BY <2>2, <2>3, RowedType
  <2>5. ASSUME NEW ks \in Seq(Seq(C)), Len(ks) = n + 1, \A i \in 1 .. n : ls[i] = ks[i]
        PROVE  Rowed(ks) = Rowed(fs) \o Pieces(ks[n + 1])
    <3>1. \A i \in 1 .. n : fs[i] = ks[i]
      BY <2>2, <2>5
    <3> QED
      BY ZenonT(60), <1>2, <2>2, <2>5, <3>1, RowedNext
  <2> QED
    BY <2>4, <2>5
<1> QED
  BY <1>1, <1>2

----------------------------------------------------------------------------
(* A character more at the end of a text.                                  *)

(* A sequence with another last element.                                   *)
WithLast(s, x) == [s EXCEPT ![Len(s)] = x]

LEMMA ExceptLast ==
  ASSUME NEW X, NEW a \in Seq(X), a # <<>>, NEW x \in X, NEW d, d = [a EXCEPT ![Len(a)] = x]
  PROVE  /\ d \in Seq(X) /\ Len(d) = Len(a) /\ Len(a) \in Nat /\ Len(a) # 0 /\ d[Len(a)] = x
         /\ \A i \in 1 .. Len(a) - 1 : d[i] = a[i]
OBVIOUS

LEMMA ConcatFacts ==
  ASSUME NEW X, NEW a \in Seq(X), NEW b \in Seq(X), NEW e, e = a \o b
  PROVE  /\ e \in Seq(X) /\ Len(e) = Len(a) + Len(b)
         /\ \A i \in 1 .. Len(a) + Len(b) : e[i] = IF i <= Len(a) THEN a[i] ELSE b[i - Len(a)]
OBVIOUS

LEMMA ConcatEnd ==
  ASSUME NEW X, NEW a \in Seq(X), NEW b \in Seq(X), b # <<>>, NEW ab, ab = a \o b
  PROVE  ab \in Seq(X) /\ Len(ab) # 0 /\ ab[Len(ab)] = b[Len(b)]
<1>1. ab \in Seq(X) /\ Len(ab) = Len(a) + Len(b) /\ Len(a) \in Nat /\ Len(b) \in Nat /\ Len(b) # 0
  OBVIOUS
<1>2. \A i \in 1 .. Len(ab) : ab[i] = IF i <= Len(a) THEN a[i] ELSE b[i - Len(a)]
  OBVIOUS
<1>3. ab[Len(ab)] = b[Len(b)]
  <2>1. Len(ab) \in 1 .. Len(ab) /\ ~(Len(ab) <= Len(a)) /\ Len(ab) - Len(a) = Len(b)
    BY <1>1
  <2> QED
    BY ONLY <1>2, <2>1
<1> QED
  BY <1>1, <1>3

LEMMA ConcatAppend ==
  ASSUME NEW X, NEW a \in Seq(X), NEW b \in Seq(X), NEW x \in X
  PROVE  a \o Append(b, x) = Append(a \o b, x)
OBVIOUS

LEMMA ConcatWith ==
  ASSUME NEW X, NEW a \in Seq(X), NEW b \in Seq(X), b # <<>>, NEW x \in X
  PROVE  a \o WithLast(b, x) = WithLast(a \o b, x)
<1>0. PICK ab : ab = a \o b
  OBVIOUS
<1>1. ab \in Seq(X) /\ Len(ab) = Len(a) + Len(b) /\ Len(a) \in Nat /\ Len(b) \in Nat /\ Len(b) # 0
  BY <1>0, ConcatFacts
<1>2. \A i \in 1 .. Len(ab) : ab[i] = IF i <= Len(a) THEN a[i] ELSE b[i - Len(a)]
  BY <1>0, <1>1, ConcatFacts
<1>5. PICK c : c = [b EXCEPT ![Len(b)] = x]
  OBVIOUS
<1>6. c \in Seq(X) /\ Len(c) = Len(b) /\ c[Len(b)] = x /\ \A i \in 1 .. Len(b) - 1 : c[i] = b[i]
  BY <1>1, <1>5
<1>7. PICK d : d = [ab EXCEPT ![Len(ab)] = x]
  OBVIOUS
<1>8. d \in Seq(X) /\ Len(d) = Len(ab) /\ d[Len(ab)] = x /\ \A i \in 1 .. Len(ab) - 1 : d[i] = ab[i]
  <2>1. ab \in Seq(X) /\ ab # <<>>
    BY <1>1
  <2> QED
    BY ONLY <1>7, <2>1, x \in X, ExceptLast
<1>9. PICK e : e = a \o c
  OBVIOUS
<1>10. e \in Seq(X) /\ Len(e) = Len(ab) /\ \A i \in 1 .. Len(ab) : e[i] = IF i <= Len(a) THEN a[i] ELSE c[i - Len(a)]
  <2>1. c \in Seq(X) /\ Len(c) = Len(b)
    BY <1>6
  <2>2. /\ e \in Seq(X) /\ Len(e) = Len(a) + Len(c)
        /\ \A i \in 1 .. Len(a) + Len(c) : e[i] = IF i <= Len(a) THEN a[i] ELSE c[i - Len(a)]
    <3>1. c \in Seq(X)
      BY <2>1
    <3> QED
      BY ONLY <1>9, <3>1, a \in Seq(X), ConcatFacts
  <2>3. Len(a) + Len(c) = Len(ab)
    BY <1>1, <2>1
  <2> QED
    BY ONLY <2>2, <2>3
<1>11. ASSUME NEW i \in 1 .. Len(ab) PROVE e[i] = d[i]
  <2>1. CASE i = Len(ab)
    <3>1. ~(i <= Len(a)) /\ i - Len(a) = Len(b)
      BY <1>1, <2>1
    <3>2. e[i] = c[i - Len(a)]
      BY <1>10, <3>1
    <3>3. e[i] = x
      BY <1>6, <3>1, <3>2
    <3> QED
      BY <1>8, <2>1, <3>3
  <2>2. CASE i # Len(ab)
    <3>1. i \in 1 .. Len(ab) - 1 /\ (i > Len(a) => i - Len(a) \in 1 .. Len(b) - 1)
      BY <1>1, <2>2
    <3>2. d[i] = IF i <= Len(a) THEN a[i] ELSE b[i - Len(a)]
      BY ONLY <1>2, <1>8, <3>1, i \in 1 .. Len(ab)
    <3>3. e[i] = IF i <= Len(a) THEN a[i] ELSE c[i - Len(a)]
      BY ONLY <1>10, i \in 1 .. Len(ab)
    <3>4. i > Len(a) => c[i - Len(a)] = b[i - Len(a)]
      BY ONLY <1>6, <3>1
    <3>5. i <= Len(a) \/ i > Len(a)
      BY <1>1, <3>1
    <3>6. CASE i <= Len(a)
      BY ONLY <3>2, <3>3, <3>6
    <3>7. CASE i > Len(a)
      <4>1. ~(i <= Len(a))
        BY <1>1, <3>1, <3>7
      <4> QED
        BY ONLY <3>2, <3>3, <3>4, <3>7, <4>1
    <3> QED
      BY <3>5, <3>6, <3>7
  <2> QED
    BY <2>1, <2>2
<1>12. e = d
  BY <1>8, <1>10, <1>11, SeqEqual
<1>13. a \o WithLast(b, x) = WithLast(ab, x)
  BY ONLY <1>5, <1>7, <1>9, <1>12 DEF WithLast
<1> QED
  BY ONLY <1>0, <1>13

(* The last row is the last piece of the last line.                        *)
LEMMA LastPiece ==
  ASSUME NEW C, NEW ls \in Seq(Seq(C)), ls # <<>>, NEW all, all = Rowed(ls)
  PROVE  /\ all \in Seq(Seq(C)) /\ Len(all) \in Nat /\ Len(all) # 0
         /\ Len(all[Len(all)]) \in Nat /\ Len(all[Len(all)]) <= fb_cols
         /\ Len(ls[Len(ls)]) <= fb_cols => all[Len(all)] = ls[Len(ls)]
<1>1. PICK n \in Nat : Len(ls) = n + 1
  <2>1. Len(ls) - 1 \in Nat /\ Len(ls) = (Len(ls) - 1) + 1
    OBVIOUS
  <2> QED
    BY <2>1
<1>2. PICK pre \in Seq(Seq(C)) : Rowed(ls) = pre \o Pieces(ls[n + 1])
  BY <1>1, RowedSplit
<1>3. ls[n + 1] \in Seq(C)
  BY <1>1
<1>4. PICK P : P = Pieces(ls[n + 1])
  OBVIOUS
<1>5. P \in Seq(Seq(C)) /\ P # <<>> /\ Len(P[Len(P)]) <= fb_cols
  BY <1>3, <1>4, PiecesType
<1>6. P[Len(P)] \in Seq(C)
  <2>1. P \in Seq(Seq(C)) /\ P # <<>>
    BY <1>5
  <2> QED
    BY ONLY <2>1
<1>7. all = pre \o P /\ <<>> \in Seq(C)
  BY <1>2, <1>4
<1>8. all \in Seq(Seq(C)) /\ Len(all) # 0 /\ all[Len(all)] = P[Len(P)]
  <2>1. P \in Seq(Seq(C)) /\ P # <<>> /\ pre \in Seq(Seq(C))
    BY <1>5
  <2> QED
    BY ONLY <1>7, <2>1, ConcatEnd
<1>9. Len(ls[n + 1]) <= fb_cols => P[Len(P)] = ls[n + 1]
  <2> HAVE Len(ls[n + 1]) <= fb_cols
  <2>1. P = <<ls[n + 1]>>
    BY <1>3, <1>4, PiecesShort
  <2> QED
    BY <2>1
<1>10. Len(all) \in Nat /\ Len(P[Len(P)]) \in Nat
  BY <1>6, <1>8
<1> QED
  BY <1>1, <1>5, <1>8, <1>9, <1>10

LEMMA RowedNewline ==
  ASSUME NEW C, NEW ls \in Seq(Seq(C)), ls # <<>>
  PROVE  Rowed(WithChar(ls, "\n")) = Append(Rowed(ls), <<>>)
<1>1. PICK ks : ks = Append(ls, <<>>)
  OBVIOUS
<1>2. <<>> \in Seq(C)
  OBVIOUS
<1>3. ks \in Seq(Seq(C)) /\ Len(ks) = Len(ls) + 1 /\ ks[Len(ls) + 1] = <<>> /\ Len(ls) \in Nat
      /\ \A i \in 1 .. Len(ls) : ls[i] = ks[i]
  BY <1>1, <1>2, AppendFacts
<1>4. Len(ls) # 0
  OBVIOUS
<1>5. Rowed(ks) = Rowed(ls) \o Pieces(ks[Len(ls) + 1])
  BY <1>3, <1>4, RowedNext
<1>6. Rowed(ks) = Rowed(ls) \o << <<>> >>
  BY <1>3, <1>5, PiecesEmpty
<1>7. Rowed(ls) \in Seq(Seq(C))
  BY RowedType
<1>8. Rowed(ls) \o << <<>> >> = Append(Rowed(ls), <<>>)
  BY <1>7
<1> QED
  BY <1>1, <1>6, <1>8 DEF WithChar

LEMMA PiecesLonger ==
  ASSUME NEW C, NEW s \in Seq(C), NEW c \in C, NEW P, P = Pieces(s)
  PROVE  /\ Len(P[Len(P)]) < fb_cols => Pieces(Append(s, c)) = WithLast(P, Append(P[Len(P)], c))
         /\ Len(P[Len(P)]) = fb_cols => Pieces(Append(s, c)) = Append(P, <<c>>)
<1>1. PICK n : n = Len(P)
  OBVIOUS
<1>2. /\ Len(P[n]) < fb_cols => Pieces(Append(s, c)) = [P EXCEPT ![n] = Append(P[n], c)]
      /\ Len(P[n]) = fb_cols => Pieces(Append(s, c)) = Append(P, <<c>>)
  BY <1>1, PiecesNext
<1> QED
  BY <1>1, <1>2 DEF WithLast

LEMMA RowedChar ==
  ASSUME NEW C, NEW ls \in Seq(Seq(C)), ls # <<>>, NEW ch \in C, ch # "\n",
         NEW all, all = Rowed(ls), NEW last, last = all[Len(all)]
  PROVE  /\ Len(last) < fb_cols => Rowed(WithChar(ls, ch)) = WithLast(all, Append(last, ch))
         /\ Len(last) = fb_cols => Rowed(WithChar(ls, ch)) = Append(all, <<ch>>)
<1>1. PICK n \in Nat : Len(ls) = n + 1
  <2>1. Len(ls) - 1 \in Nat /\ Len(ls) = (Len(ls) - 1) + 1
    OBVIOUS
  <2> QED
    BY <2>1
<1>2. PICK pre \in Seq(Seq(C)) : \A ks \in Seq(Seq(C)) :
        Len(ks) = n + 1 /\ (\A i \in 1 .. n : ls[i] = ks[i]) => Rowed(ks) = pre \o Pieces(ks[n + 1])
  BY <1>1, RowedSplit
<1>3. ls[n + 1] \in Seq(C)
  BY <1>1
<1>4. PICK P, x, y : P = Pieces(ls[n + 1]) /\ x = ls[n + 1] /\ y = Append(x, ch)
  OBVIOUS
<1>5. x \in Seq(C) /\ y \in Seq(C)
  BY <1>3, <1>4
<1>6. P \in Seq(Seq(C)) /\ P # <<>>
  BY <1>3, <1>4, PiecesType
<1>7. all = pre \o P
  BY <1>1, <1>2, <1>4
<1>8. P[Len(P)] \in Seq(C) /\ Len(P) \in Nat
  BY ONLY <1>6
<1>9. PICK z : z = Append(P[Len(P)], ch)
  OBVIOUS
<1>10. z \in Seq(C) /\ <<ch>> \in Seq(C)
  BY <1>8, <1>9
<1>11. /\ Len(all) # 0 /\ all[Len(all)] = P[Len(P)]
       /\ pre \o WithLast(P, z) = WithLast(all, z)
  <2>1. z \in Seq(C) /\ P \in Seq(Seq(C)) /\ P # <<>>
    BY <1>6, <1>10
  <2>2. pre \o WithLast(P, z) = WithLast(pre \o P, z)
    BY ONLY SMTT(30), <2>1, pre \in Seq(Seq(C)), ConcatWith
  <2>3. Len(all) # 0 /\ all[Len(all)] = P[Len(P)]
    BY ONLY <1>7, <2>1, pre \in Seq(Seq(C)), ConcatEnd
  <2> QED
    BY ONLY <1>7, <2>2, <2>3
<1>12. pre \o Append(P, <<ch>>) = Append(all, <<ch>>)
  BY ONLY SMTT(30), <1>6, <1>7, <1>10, pre \in Seq(Seq(C)), ConcatAppend
<1>13. PICK ks : ks = [ls EXCEPT ![n + 1] = y]
  OBVIOUS
<1>14. ks \in Seq(Seq(C)) /\ Len(ks) = n + 1 /\ ks[n + 1] = y /\ \A i \in 1 .. n : ls[i] = ks[i]
  BY <1>1, <1>5, <1>13
<1>15. Rowed(ks) = pre \o Pieces(y)
  BY <1>2, <1>14
<1>16. WithChar(ls, ch) = ks
  BY <1>1, <1>4, <1>13 DEF WithChar
<1>17. /\ Len(P[Len(P)]) < fb_cols => Pieces(y) = WithLast(P, z)
       /\ Len(P[Len(P)]) = fb_cols => Pieces(y) = Append(P, <<ch>>)
  <2>1. P = Pieces(x)
    BY <1>4
  <2>2. /\ Len(P[Len(P)]) < fb_cols => Pieces(Append(x, ch)) = WithLast(P, Append(P[Len(P)], ch))
        /\ Len(P[Len(P)]) = fb_cols => Pieces(Append(x, ch)) = Append(P, <<ch>>)
    BY <1>5, <2>1, PiecesLonger
  <2> QED
    BY <1>4, <1>9, <2>2
<1>18. last = P[Len(P)]
  BY <1>11
<1> QED
  BY <1>9, <1>11, <1>12, <1>15, <1>16, <1>17, <1>18

LEMMA LinesAppend ==
  ASSUME NEW C, NEW s \in Seq(C), NEW ch \in C
  PROVE  Lines(Append(s, ch)) = WithChar(Lines(s), ch)
<1>1. PICK r : r = Append(s, ch)
  OBVIOUS
<1>2. /\ Len(s) \in Nat /\ DOMAIN s = 1 .. Len(s) /\ DOMAIN r = 1 .. Len(s) + 1 /\ r[Len(s) + 1] = ch
      /\ \A i \in 1 .. Len(s) : s[i] = r[i]
  BY <1>1
<1>3. Lines(r) = WithChar(Lines(s), r[Len(s) + 1])
  BY <1>2, LinesNext
<1> QED
  BY <1>1, <1>2, <1>3

(* A character more on the page.                                           *)
LEMMA AllNext ==
  ASSUME NEW C, NEW s \in Seq(C), NEW ch \in C, NEW all, all = All(s), NEW last, last = all[Len(all)]
  PROVE  /\ ch = "\n" => All(Append(s, ch)) = Append(all, <<>>)
         /\ ch # "\n" /\ Len(last) < fb_cols => All(Append(s, ch)) = WithLast(all, Append(last, ch))
         /\ ch # "\n" /\ Len(last) = fb_cols => All(Append(s, ch)) = Append(all, <<ch>>)
<1>1. Lines(s) \in Seq(Seq(C)) /\ Lines(s) # <<>>
  BY LinesType
<1>2. Lines(Append(s, ch)) = WithChar(Lines(s), ch)
  BY LinesAppend
<1>3. CASE ch = "\n"
  BY <1>1, <1>2, <1>3, RowedNewline DEF All
<1>4. CASE ch # "\n"
  <2>1. all = Rowed(Lines(s)) /\ All(Append(s, ch)) = Rowed(WithChar(Lines(s), ch))
    BY <1>2 DEF All
  <2> QED
    BY <1>1, <1>4, <2>1, RowedChar
<1> QED
  BY <1>3, <1>4

LEMMA AllType ==
  ASSUME NEW C, NEW s \in Seq(C), NEW all, all = All(s)
  PROVE  /\ all \in Seq(Seq(C)) /\ Len(all) \in Nat /\ Len(all) # 0
         /\ Len(all[Len(all)]) \in Nat /\ Len(all[Len(all)]) <= fb_cols
         /\ Len(Lines(s)[Len(Lines(s))]) <= fb_cols => all[Len(all)] = Lines(s)[Len(Lines(s))]
<1>1. Lines(s) \in Seq(Seq(C)) /\ Lines(s) # <<>>
  BY LinesType
<1> QED
  BY <1>1, LastPiece DEF All

LEMMA AllEmpty == All(<<>>) = << <<>> >>
BY LinesEmpty, RowedOne, PiecesEmpty DEF All

----------------------------------------------------------------------------
(* The last fb_rows rows of all are on the screen.                         *)

Top(all) == IF Len(all) > fb_rows THEN Len(all) - fb_rows ELSE 0
RowText(all, row) == IF Top(all) + row < Len(all) THEN all[Top(all) + row + 1] ELSE <<>>
Drawn(piece) == [x \in Col |-> IF x < Len(piece) THEN {piece[x + 1]} \ {" "} ELSE {}]
LastRow(all) == Len(all) - Top(all) - 1

(* They are drawn, and a line to spare is blank; the cursor is behind them. *)
LaidPicture(p, all) ==
  /\ \A row \in Row : p[2 * row] = Drawn(RowText(all, row))
  /\ \A y \in Line : y >= 2 * fb_rows => p[y] = Drawn(<<>>)
LaidCursor(c, all) ==
  LET last == all[Len(all)]
  IN  /\ c.cursor_row = LastRow(all)
      /\ c.cursor_col = IF Len(last) < fb_cols THEN Len(last) ELSE fb_cols - 1
      /\ c.wrap_pending <=> Len(last) = fb_cols

(* A row that fits the screen, and one with room for a character.          *)
Narrow(x) == Len(x) \in Nat /\ Len(x) <= fb_cols
Room(x) == Len(x) \in Nat /\ Len(x) < fb_cols

(* Rows of text: at least one, and the last not longer than the screen.    *)
TextRows(all) ==
  /\ \E C : all \in Seq(Seq(C))
  /\ Len(all) \in Nat /\ Len(all) # 0
  /\ Len(all[Len(all)]) \in Nat /\ Len(all[Len(all)]) <= fb_cols

LEMMA SpareLine == fb_height <= 2 * fb_rows + 1
BY ConsoleAssumption DEF fb_rows, FONT_H

LEMMA TopIs ==
  ASSUME NEW all, TextRows(all)
  PROVE  /\ Top(all) \in Nat /\ LastRow(all) \in Row /\ LastRow(all) + 1 = Len(all) - Top(all)
         /\ Len(all) <= fb_rows => Top(all) = 0
         /\ Len(all) >= fb_rows => Top(all) = Len(all) - fb_rows /\ LastRow(all) = fb_rows - 1
BY Sizes DEF Top, LastRow, TextRows, Row

LEMMA BlankRow == ASSUME NEW x \in Col PROVE Drawn(<<>>)[x] = {}
<1>1. Len(<<>>) = 0 /\ x \in Nat
  BY Sizes DEF Col
<1>2. ~(x < Len(<<>>))
  BY <1>1
<1> QED
  BY <1>2 DEF Drawn

LEMMA BlankPage ==
  ASSUME NEW all, TextRows(all), NEW more, more = Append(all, <<>>)
  PROVE  /\ TextRows(more) /\ Len(more) = Len(all) + 1 /\ more[Len(more)] = <<>>
         /\ \A i \in 1 .. Len(all) : more[i] = all[i]
<1>1. PICK C : all \in Seq(Seq(C))
  BY DEF TextRows
<1>2. <<>> \in Seq(C)
  OBVIOUS
<1>3. /\ more \in Seq(Seq(C)) /\ Len(more) = Len(all) + 1 /\ more[Len(all) + 1] = <<>>
      /\ \A i \in 1 .. Len(all) : more[i] = all[i]
  BY <1>1, <1>2, AppendFacts
<1>4. Len(<<>>) = 0 /\ fb_cols \in Nat
  BY Sizes
<1> QED
  BY <1>3, <1>4 DEF TextRows

(* A row more.                                                             *)
LEMMA RowAppend ==
  ASSUME NEW all, TextRows(all), NEW more, TextRows(more), Len(more) = Len(all) + 1, NEW x, more[Len(more)] = x,
         \A i \in 1 .. Len(all) : more[i] = all[i], NEW row \in Row
  PROVE  /\ Len(all) < fb_rows => /\ LastRow(more) = LastRow(all) + 1
                                  /\ row # LastRow(more) => RowText(more, row) = RowText(all, row)
                                  /\ row = LastRow(more) => RowText(more, row) = x /\ RowText(all, row) = <<>>
         /\ Len(all) >= fb_rows => /\ LastRow(more) = LastRow(all)
                                   /\ row + 1 \in Row => RowText(more, row) = RowText(all, row + 1)
                                   /\ row + 1 \notin Row => RowText(more, row) = x
<1>1. fb_rows \in Nat /\ fb_rows # 0 /\ row \in Nat /\ row < fb_rows /\ (row + 1 \in Row <=> row + 1 < fb_rows)
  BY Sizes DEF Row
<1>2. Len(all) \in Nat /\ Len(all) # 0 /\ Len(more) \in Nat
  BY DEF TextRows
<1>3. PICK n : n = Len(all)
  OBVIOUS
<1>4. n \in Nat /\ n # 0 /\ Len(more) = n + 1 /\ more[n + 1] = x /\ \A i \in 1 .. n : more[i] = all[i]
  BY <1>2, <1>3
<1>5. CASE n < fb_rows
  <2>0. ~(n > fb_rows) /\ ~(n + 1 > fb_rows) /\ Len(all) = n /\ Len(more) = n + 1
    BY <1>1, <1>3, <1>4, <1>5
  <2>a. Top(all) = 0 /\ Top(more) = 0
    BY ONLY <2>0 DEF Top
  <2>1. Top(all) = 0 /\ Top(more) = 0 /\ LastRow(all) = n - 1 /\ LastRow(more) = n
    BY ONLY <1>4, <2>0, <2>a DEF LastRow
  <2>2. RowText(more, row) = IF row < n + 1 THEN more[row + 1] ELSE <<>>
    BY <1>1, <1>4, <2>1 DEF RowText
  <2>3. RowText(all, row) = IF row < n THEN all[row + 1] ELSE <<>>
    BY <1>1, <1>3, <2>1 DEF RowText
  <2>4. row < n => row + 1 \in 1 .. n
    BY <1>1, <1>4
  <2>5. row < n => more[row + 1] = all[row + 1]
    BY <1>4, <2>4
  <2> QED
    BY <1>1, <1>3, <1>4, <1>5, <2>1, <2>2, <2>3, <2>5
<1>6. CASE n >= fb_rows
  <2>1. /\ Top(all) = n - fb_rows /\ Top(more) = n + 1 - fb_rows
        /\ LastRow(all) = fb_rows - 1 /\ LastRow(more) = fb_rows - 1
    BY <1>1, <1>3, <1>4, <1>6 DEF Top, LastRow
  <2>2. PICK k \in Nat : n = fb_rows + k
    <3>1. n - fb_rows \in Nat /\ n = fb_rows + (n - fb_rows)
      BY <1>1, <1>4, <1>6
    <3> QED
      BY <3>1
  <2>3. RowText(more, row) = more[k + row + 2]
    <3>1. Top(more) + row < n + 1 /\ Top(more) + row + 1 = k + row + 2
      BY <1>1, <1>4, <2>1, <2>2
    <3> QED
      BY <1>4, <3>1 DEF RowText
  <2>4. row + 1 < fb_rows => RowText(all, row + 1) = all[k + row + 2] /\ k + row + 2 \in 1 .. n
    <3> HAVE row + 1 < fb_rows
    <3>1. Top(all) + (row + 1) < n /\ Top(all) + (row + 1) + 1 = k + row + 2 /\ k + row + 2 \in 1 .. n
      BY <1>1, <1>4, <2>1, <2>2
    <3> QED
      BY <1>3, <3>1 DEF RowText
  <2>5. row + 1 < fb_rows => more[k + row + 2] = all[k + row + 2]
    BY <1>4, <2>4
  <2>6. ~(row + 1 < fb_rows) => k + row + 2 = n + 1
    BY <1>1, <1>4, <2>2
  <2>7. ~(row + 1 < fb_rows) => RowText(more, row) = x
    BY <1>4, <2>3, <2>6
  <2>8. row + 1 < fb_rows => RowText(more, row) = RowText(all, row + 1)
    BY <2>3, <2>4, <2>5
  <2>9. ~(n < fb_rows)
    BY <1>1, <1>4, <1>6
  <2> QED
    BY <1>1, <1>3, <2>1, <2>7, <2>8, <2>9
<1> QED
  BY <1>1, <1>4, <1>5, <1>6

(* Another last row.                                                       *)
LEMMA WithPage ==
  ASSUME NEW all, TextRows(all), NEW C, all \in Seq(Seq(C)), NEW x \in Seq(C), Narrow(x),
         NEW other, other = WithLast(all, x)
  PROVE  /\ TextRows(other) /\ Len(other) = Len(all) /\ other[Len(all)] = x
         /\ Top(other) = Top(all) /\ LastRow(other) = LastRow(all)
         /\ \A row \in Row : row # LastRow(all) => RowText(other, row) = RowText(all, row)
         /\ RowText(all, LastRow(all)) = all[Len(all)] /\ RowText(other, LastRow(all)) = x
<1>1. PICK n : n = Len(all)
  OBVIOUS
<1>2. n \in Nat /\ n # 0 /\ all # <<>>
  BY <1>1 DEF TextRows
<1>3. other \in Seq(Seq(C)) /\ Len(other) = n /\ other[n] = x /\ \A i \in 1 .. n - 1 : other[i] = all[i]
  BY <1>1, <1>2, ExceptLast DEF WithLast
<1>4. TextRows(other)
  <2>1. Len(x) \in Nat
    OBVIOUS
  <2> QED
    BY <1>2, <1>3, <2>1 DEF TextRows, Narrow
<1>5. Top(other) = Top(all) /\ LastRow(other) = LastRow(all)
  BY <1>1, <1>3 DEF Top, LastRow
<1>6. PICK t : t = Top(all)
  OBVIOUS
<1>7. t \in Nat /\ LastRow(all) \in Nat /\ LastRow(all) + 1 = n - t
  BY <1>1, <1>6, TopIs DEF Row
<1>8. t + LastRow(all) < n /\ t + LastRow(all) + 1 = n
  <2>1. n \in Nat
    BY <1>2
  <2> QED
    BY ONLY <1>7, <2>1
<1>9. RowText(all, LastRow(all)) = all[n] /\ RowText(other, LastRow(all)) = other[n]
  BY <1>1, <1>3, <1>5, <1>6, <1>8 DEF RowText
<1>10. ASSUME NEW row \in Row, row # LastRow(all) PROVE RowText(other, row) = RowText(all, row)
  <2>1. row \in Nat
    BY DEF Row
  <2>2. t + row < n => t + row + 1 \in 1 .. n - 1
    BY <1>2, <1>7, <1>10, <2>1
  <2>3. t + row < n => other[t + row + 1] = all[t + row + 1]
    BY <1>3, <2>2
  <2> QED
    BY <1>1, <1>3, <1>5, <1>6, <2>3 DEF RowText
<1> QED
  BY <1>1, <1>3, <1>4, <1>5, <1>9, <1>10

----------------------------------------------------------------------------
(* What the operations do to the text on the screen.                       *)

Laid(c, all) == LaidPicture(c.shadow, all) /\ LaidCursor(c, all)

(* A cell of a line drawn.                                                 *)
InkOf(ch) == {ch} \ {" "}
Put(line, x, ink) == [line EXCEPT ![x] = ink]

LEMMA DrawnAppend ==
  ASSUME NEW C, NEW x \in Seq(C), NEW ch \in C, Room(x)
  PROVE  /\ Drawn(Append(x, ch)) = Put(Drawn(x), Len(x), InkOf(ch))
         /\ Drawn(x) = Put(Drawn(Append(x, ch)), Len(x), {})
<1>1. PICK n, y : n = Len(x) /\ y = Append(x, ch)
  OBVIOUS
<1>2. n \in Nat /\ Len(y) = n + 1 /\ y[n + 1] = ch /\ \A i \in 1 .. n : y[i] = x[i]
  BY <1>1, AppendFacts
<1>3. n \in Col
  BY <1>1, <1>2, Sizes DEF Col, Room
<1>4. PICK p, q : p = Drawn(x) /\ q = Drawn(y)
  OBVIOUS
<1>5. /\ p = [i \in Col |-> IF i < n THEN {x[i + 1]} \ {" "} ELSE {}]
      /\ q = [i \in Col |-> IF i < n + 1 THEN {y[i + 1]} \ {" "} ELSE {}]
  BY <1>1, <1>2, <1>4 DEF Drawn
<1>6. p[n] = {} /\ q[n] = InkOf(ch)
  <2>1. ~(n < n) /\ n < n + 1
    BY <1>2
  <2> QED
    BY <1>2, <1>3, <1>5, <2>1 DEF InkOf
<1>7. ASSUME NEW i \in Col, i # n PROVE p[i] = q[i]
  <2>1. i \in Nat /\ (i < n + 1 <=> i < n)
    BY <1>2, <1>7, Sizes DEF Col
  <2>2. i < n => y[i + 1] = x[i + 1]
    <3>1. i < n => i + 1 \in 1 .. n
      BY <1>2, <2>1
    <3> QED
      BY <1>2, <3>1
  <2> QED
    BY <1>5, <2>1, <2>2
<1>8. p = [i \in Col |-> p[i]] /\ q = [i \in Col |-> q[i]]
  BY ONLY <1>5
<1>9. q = [p EXCEPT ![n] = InkOf(ch)] /\ p = [q EXCEPT ![n] = {}]
  BY ONLY <1>3, <1>6, <1>7, <1>8
<1> QED
  BY ONLY <1>1, <1>4, <1>9 DEF Put

(* A cursor is drawn in the foot of its row.                               *)
LEMMA CursorLines ==
  ASSUME NEW c, Safe(c), NEW show, NEW d, d = draw_cursor(c, show)
  PROVE  \A z \in Line : z # 2 * c.cursor_row + 1 => d.shadow[z] = c.shadow[z]
<1> DEFINE y == 2 * c.cursor_row + 1
           v == IF show THEN {"_"} ELSE {}
           r == [c.shadow[y] EXCEPT ![c.cursor_col] = v]
           p == [c.shadow EXCEPT ![y] = r]
<1>1. y \in Line /\ c.cursor_row * FONT_H + FONT_H - 1 = y
  BY RowLines DEF Safe
<1>2. d.shadow = p
  BY <1>1 DEF draw_cursor, Safe
<1>3. \A z \in Line : z # y => p[z] = c.shadow[z]
  <2>1. Picture(c.shadow)
    BY DEF Safe
  <2>2. r = [c.shadow[y] EXCEPT ![c.cursor_col] = v] /\ p = [c.shadow EXCEPT ![y] = r]
    OBVIOUS
  <2> HIDE DEF y, v, r, p
  <2> QED
    BY <1>1, <2>1, <2>2, Pixel
<1> HIDE DEF p
<1> QED
  BY <1>2, <1>3

(* A character is drawn in the body and the foot of its row.               *)
LEMMA CharLines ==
  ASSUME NEW c, Safe(c), NEW ch, NEW d, d = draw_char(c, c.cursor_col, c.cursor_row, ch)
  PROVE  /\ \A z \in Line : z # 2 * c.cursor_row /\ z # 2 * c.cursor_row + 1 => d.shadow[z] = c.shadow[z]
         /\ d.shadow[2 * c.cursor_row] = Put(c.shadow[2 * c.cursor_row], c.cursor_col, InkOf(ch))
<1> DEFINE y == 2 * c.cursor_row
           ink == IF ch = " " THEN {} ELSE {ch}
           foot == IF ch \in Descender THEN ink ELSE {}
           r1 == [c.shadow[y] EXCEPT ![c.cursor_col] = ink]
           q == [c.shadow EXCEPT ![y] = r1]
           y1 == y + 1
           r2 == [q[y1] EXCEPT ![c.cursor_col] = foot]
           p == [q EXCEPT ![y1] = r2]
<1>1. y \in Line /\ y + 1 \in Line /\ c.cursor_row * FONT_H = y /\ y # y + 1
  BY RowLines DEF Safe
<1>2. d.shadow = p
  <2>1. d = [c EXCEPT !.shadow[y][c.cursor_col] = ink, !.shadow[y + 1][c.cursor_col] = foot]
    BY <1>1 DEF draw_char
  <2> HIDE DEF y, ink, foot
  <2> QED
    BY <2>1 DEF Safe
<1>3. p[y] = r1 /\ \A z \in Line : z # y /\ z # y + 1 => p[z] = c.shadow[z]
  <2>1. Picture(c.shadow)
    BY DEF Safe
  <2>2. q = [c.shadow EXCEPT ![y] = r1] /\ p = [q EXCEPT ![y1] = r2] /\ y1 = y + 1
    OBVIOUS
  <2>3. c.shadow = [z \in Line |-> c.shadow[z]]
    BY ONLY <2>1 DEF Picture
  <2> HIDE DEF y, y1, r1, q, r2, p, ink, foot
  <2>4. q = [z \in Line |-> q[z]] /\ q[y] = r1 /\ \A z \in Line : z # y => q[z] = c.shadow[z]
    BY ONLY <1>1, <2>2, <2>3
  <2>5. \A z \in Line : z # y + 1 => p[z] = q[z]
    BY ONLY <1>1, <2>2, <2>4
  <2> QED
    BY ONLY <1>1, <2>4, <2>5
<1>4. ink = InkOf(ch)
  BY DEF InkOf
<1>5. r1 = [c.shadow[y] EXCEPT ![c.cursor_col] = InkOf(ch)]
  BY <1>4
<1> HIDE DEF p, r1
<1> QED
  BY <1>2, <1>3, <1>5 DEF Put

LEMMA BodyLines ==
  ASSUME NEW r \in Row, NEW row \in Row
  PROVE  /\ 2 * row \in Line /\ 2 * row # 2 * r + 1 /\ (2 * row = 2 * r <=> row = r)
         /\ \A y \in Line : y >= 2 * fb_rows => y # 2 * r /\ y # 2 * r + 1
BY RowLines, Sizes DEF Line

(* The text is as before when its lines and the cursor are.                *)
LEMMA StillLaid ==
  ASSUME NEW all, NEW c, Safe(c), Laid(c, all), NEW d, SameCursor(c, d),
         \A z \in Line : z # 2 * c.cursor_row + 1 => d.shadow[z] = c.shadow[z]
  PROVE  Laid(d, all)
<1>1. c.cursor_row \in Row
  BY DEF Safe
<1>2. LaidPicture(d.shadow, all)
  BY <1>1, BodyLines DEF Laid, LaidPicture
<1>3. LaidCursor(d, all)
  BY DEF Laid, LaidCursor, SameCursor
<1> QED
  BY <1>2, <1>3 DEF Laid

LEMMA CursorLaid ==
  ASSUME NEW all, NEW c, Safe(c), Laid(c, all), NEW show, NEW d, d = draw_cursor(c, show)
  PROVE  Laid(d, all)
BY DrawCursor, CursorLines, StillLaid

LEMMA SameLaid ==
  ASSUME NEW all, NEW c, Laid(c, all), NEW d, SameCursor(c, d), d.shadow = c.shadow
  PROVE  Laid(d, all)
BY DEF Laid, LaidCursor, SameCursor

(* Drawing the cursor and flushing its row.                                *)
LEMMA FlushRowLaid ==
  ASSUME NEW all, NEW c, Safe(c), Laid(c, all), NEW d, d = FlushRow(c)
  PROVE  Laid(d, all)
<1>1. c.cursor_row * FONT_H \in Nat /\ FONT_H \in Nat /\ FONT_H # 0 /\ c.cursor_row * FONT_H + FONT_H <= fb_height
  BY RowLines, Sizes DEF Safe, Line
<1>2. SameCursor(c, d) /\ d.shadow = c.shadow
  BY <1>1, FlushRegion DEF FlushRow
<1> QED
  BY <1>2, SameLaid

LEMMA ShowLaid ==
  ASSUME NEW all, NEW c, Safe(c), Laid(c, all), NEW show
  PROVE  Laid(FlushRow(draw_cursor(c, show)), all)
<1>1. PICK e : e = draw_cursor(c, show)
  OBVIOUS
<1>2. Safe(e) /\ Laid(e, all)
  BY <1>1, DrawCursor, CursorLaid
<1>3. Laid(FlushRow(e), all)
  BY <1>2, FlushRowLaid
<1> QED
  BY <1>1, <1>3

----------------------------------------------------------------------------
(* The text scrolled, and the cursor in the next row.                      *)

LEMMA EmptyDrawn == ASSUME NEW y \in Line PROVE Empty[y] = Drawn(<<>>)
<1>1. Empty[y] = [x \in Col |-> {}]
  BY DEF Empty
<1>2. \A x \in Col : Drawn(<<>>)[x] = {}
  BY BlankRow
<1>3. Drawn(<<>>) = [x \in Col |-> Drawn(<<>>)[x]]
  BY DEF Drawn
<1> QED
  BY <1>1, <1>2, <1>3

LEMMA ScrollLines ==
  ASSUME NEW c, Safe(c), NEW d, d = scroll(c), NEW y \in Line
  PROVE  d.shadow[y] = IF y < fb_height - FONT_H THEN c.shadow[y + FONT_H] ELSE Empty[y]
<1> DEFINE p == [z \in Line |-> IF z < fb_height - FONT_H THEN c.shadow[z + FONT_H] ELSE Empty[z]]
           e == [c EXCEPT !.shadow = p]
<1>1. Picture(p)
  <2>1. \A z \in Line : z + FONT_H \in Line \/ ~(z < fb_height - FONT_H)
    BY Sizes DEF Line
  <2>2. \A z \in Line : c.shadow[z] = [x \in Col |-> c.shadow[z][x]]
    BY DEF Safe, Picture
  <2>3. \A z \in Line : Empty[z] = [x \in Col |-> Empty[z][x]]
    BY DEF Empty
  <2>4. \A z \in Line : p[z] = [x \in Col |-> p[z][x]]
    BY <2>1, <2>2, <2>3
  <2> QED
    BY <2>4 DEF Picture
<1>2. p[y] = IF y < fb_height - FONT_H THEN c.shadow[y + FONT_H] ELSE Empty[y]
  OBVIOUS
<1> HIDE DEF p
<1>3. Safe(e) /\ e.shadow = p
  BY <1>1, Redraw
<1>4. d = flush_all(e)
  BY DEF scroll, p
<1> HIDE DEF e
<1>5. d.shadow = p
  BY <1>3, <1>4, FlushAll
<1> QED
  BY <1>2, <1>5

(* The picture scrolled has the rows from the second on, and a blank one.  *)
LEMMA ScrollLaid ==
  ASSUME NEW all, TextRows(all), Len(all) >= fb_rows,
         NEW more, TextRows(more), Len(more) = Len(all) + 1, more[Len(more)] = <<>>,
         \A i \in 1 .. Len(all) : more[i] = all[i],
         NEW c, Safe(c), LaidPicture(c.shadow, all), NEW d, d = scroll(c)
  PROVE  LaidPicture(d.shadow, more)
<1>1. ASSUME NEW row \in Row PROVE d.shadow[2 * row] = Drawn(RowText(more, row))
  <2>1. 2 * row \in Line
    BY RowLines
  <2>2. d.shadow[2 * row] = IF 2 * row < fb_height - 2 THEN c.shadow[2 * row + 2] ELSE Empty[2 * row]
    BY <2>1, ScrollLines, Sizes
  <2>3. CASE row + 1 \in Row
    <3>1. 2 * row < fb_height - 2 /\ 2 * row + 2 = 2 * (row + 1)
      <4>1. 2 * (row + 1) + 1 \in Line /\ row \in Nat /\ fb_height \in Nat
        BY <2>3, RowLines, Sizes
      <4> QED
        BY <4>1 DEF Line
    <3>2. c.shadow[2 * (row + 1)] = Drawn(RowText(all, row + 1))
      BY <2>3 DEF LaidPicture
    <3>3. RowText(more, row) = RowText(all, row + 1)
      BY <2>3, RowAppend
    <3> QED
      BY <2>2, <3>1, <3>2, <3>3
  <2>4. CASE row + 1 \notin Row
    <3>1. RowText(more, row) = <<>>
      BY <2>4, RowAppend
    <3>2. 2 * row + 2 = 2 * fb_rows /\ row \in Nat /\ 2 * row + 2 \in Nat /\ fb_height \in Nat /\ fb_rows \in Nat
      BY <2>4, Sizes DEF Row
    <3>3. CASE 2 * row < fb_height - 2
      <4>1. 2 * row + 2 \in Line /\ 2 * row + 2 >= 2 * fb_rows
        BY ONLY <3>2, <3>3 DEF Line
      <4>2. c.shadow[2 * row + 2] = Drawn(<<>>)
        BY <4>1 DEF LaidPicture
      <4> QED
        BY <2>2, <3>1, <3>3, <4>2
    <3>4. CASE ~(2 * row < fb_height - 2)
      BY <2>1, <2>2, <3>1, <3>4, EmptyDrawn
    <3> QED
      BY <3>3, <3>4
  <2> QED
    BY <2>3, <2>4
<1>2. ASSUME NEW y \in Line, y >= 2 * fb_rows PROVE d.shadow[y] = Drawn(<<>>)
  <2>1. ~(y < fb_height - FONT_H)
    BY <1>2, SpareLine, Sizes DEF Line
  <2> QED
    BY <2>1, ScrollLines, EmptyDrawn
<1> QED
  BY <1>1, <1>2 DEF LaidPicture

LEMMA NextRowLaid ==
  ASSUME NEW all, TextRows(all), NEW c, Safe(c), Laid(c, all), NEW d, d = NextRow(c)
  PROVE  Laid(d, Append(all, <<>>)) /\ TextRows(Append(all, <<>>))
<1> DEFINE start == [c EXCEPT !.cursor_col = 0, !.wrap_pending = FALSE]
<1>0. PICK more : more = Append(all, <<>>)
  OBVIOUS
<1>1. TextRows(more) /\ Len(more) = Len(all) + 1 /\ more[Len(more)] = <<>> /\ \A i \in 1 .. Len(all) : more[i] = all[i]
  BY <1>0, BlankPage
<1>2. /\ 0 \in Col /\ c.cursor_row \in Row /\ fb_rows - 1 \in Row
      /\ c.cursor_row + 1 < fb_rows => c.cursor_row + 1 \in Row
  BY Sizes DEF Col, Row, Safe
<1>3. c.cursor_row = LastRow(all) /\ LaidPicture(c.shadow, all)
  BY DEF Laid, LaidCursor
<1>4. start = CursorAt(c, c.cursor_row, 0)
  BY MoveForms
<1>5. ASSUME d.cursor_row = LastRow(more), d.cursor_col = 0, ~d.wrap_pending PROVE LaidCursor(d, more)
  <2>1. Len(more[Len(more)]) = 0 /\ 0 < fb_cols /\ 0 # fb_cols
    BY <1>1, Sizes
  <2>2. Safe(d)
    BY NextRowKeeps
  <2>3. d.wrap_pending = FALSE
    BY <1>5, <2>2 DEF Safe
  <2> QED
    BY <1>5, <2>1, <2>3 DEF LaidCursor
<1>6. CASE c.cursor_row + 1 < fb_rows
  <2>1. d = [start EXCEPT !.cursor_row = c.cursor_row + 1]
    BY <1>4, <1>6 DEF NextRow, CursorAt
  <2>2. d = CursorAt(c, c.cursor_row + 1, 0)
    BY <1>4, <2>1 DEF CursorAt
  <2> HIDE DEF start
  <2>3. d.shadow = c.shadow /\ d.cursor_row = c.cursor_row + 1 /\ d.cursor_col = 0 /\ ~d.wrap_pending
    BY <1>2, <1>6, <2>2, MoveCursor
  <2>4. Len(all) < fb_rows
    <3>1. fb_rows \in Nat /\ Len(all) \in Nat
      BY Sizes DEF TextRows
    <3>2. Len(all) >= fb_rows => LastRow(all) = fb_rows - 1
      BY TopIs
    <3> QED
      BY <1>3, <1>6, <3>1, <3>2
  <2>5. LastRow(more) = LastRow(all) + 1
    BY <1>1, <1>2, <2>4, RowAppend
  <2>6. \A row \in Row : RowText(more, row) = RowText(all, row)
    BY <1>1, <2>4, RowAppend
  <2>7. LaidPicture(d.shadow, more)
    BY <1>3, <2>3, <2>6 DEF LaidPicture
  <2> QED
    BY <1>0, <1>1, <1>3, <1>5, <2>3, <2>5, <2>7 DEF Laid
<1>7. CASE ~(c.cursor_row + 1 < fb_rows)
  <2>1. Safe(start) /\ start.shadow = c.shadow /\ start.cursor_col = 0 /\ ~start.wrap_pending
    <3> HIDE DEF start
    <3> QED
      BY <1>2, <1>4, MoveCursor
  <2> DEFINE s == scroll(start)
  <2>2. d = [s EXCEPT !.cursor_row = fb_rows - 1]
    BY <1>7 DEF NextRow
  <2> HIDE DEF start
  <2>3. Safe(s) /\ SameCursor(start, s)
    BY <2>1, Scroll
  <2>4. Len(all) >= fb_rows /\ LastRow(all) = fb_rows - 1
    <3>1. fb_rows \in Nat /\ Len(all) \in Nat /\ LastRow(all) \in 0 .. fb_rows - 1
      BY TopIs, Sizes DEF TextRows, Row
    <3>2. LastRow(all) = fb_rows - 1
      BY <1>3, <1>7, <3>1
    <3>3. Len(all) <= fb_rows => Top(all) = 0
      BY TopIs
    <3>4. LastRow(all) + 1 = Len(all) - Top(all)
      BY TopIs
    <3> QED
      BY <3>1, <3>2, <3>3, <3>4
  <2>5. LaidPicture(s.shadow, more)
    BY <1>1, <1>3, <2>1, <2>4, ScrollLaid
  <2> HIDE DEF s
  <2>6. s.cursor_col = 0 /\ ~s.wrap_pending
    BY <2>1, <2>3 DEF SameCursor
  <2>7. d = CursorAt(s, fb_rows - 1, 0)
    BY <2>2, <2>3, <2>6, MoveForms
  <2>8. d.shadow = s.shadow /\ d.cursor_row = fb_rows - 1 /\ d.cursor_col = 0 /\ ~d.wrap_pending
    BY <1>2, <2>3, <2>7, MoveCursor
  <2>9. LastRow(more) = LastRow(all)
    BY <1>1, <1>2, <2>4, RowAppend
  <2> QED
    BY <1>0, <1>1, <1>5, <2>4, <2>5, <2>8, <2>9 DEF Laid
<1> QED
  BY <1>6, <1>7

LEMMA LineFeedLaid ==
  ASSUME NEW all, TextRows(all), NEW c, Safe(c), Laid(c, all)
  PROVE  Laid(LineFeed(c), Append(all, <<>>))
<1> DEFINE next == NextRow(c)
           left == IF next.cursor_row = c.cursor_row THEN next ELSE flush_region(next, c.cursor_row * FONT_H, FONT_H)
           d == FlushRow(draw_cursor(left, TRUE))
<1>1. Safe(next) /\ Laid(next, Append(all, <<>>))
  BY NextRowKeeps, NextRowLaid
<1>2. LineFeed(c) = d
  BY DEF LineFeed
<1>3. /\ 2 * c.cursor_row \in Nat /\ 2 * c.cursor_row + 2 <= fb_height
      /\ c.cursor_row * FONT_H = 2 * c.cursor_row /\ FONT_H = 2
  BY RowLines, Sizes DEF Safe, Line
<1> HIDE DEF next
<1>4. Safe(left) /\ Laid(left, Append(all, <<>>))
  <2>1. CASE next.cursor_row = c.cursor_row
    BY <1>1, <2>1
  <2>2. CASE next.cursor_row # c.cursor_row
    <3>1. left = flush_region(next, 2 * c.cursor_row, 2)
      BY <1>3, <2>2
    <3> HIDE DEF left
    <3>2. Safe(left) /\ SameCursor(next, left) /\ left.shadow = next.shadow
      BY <1>1, <1>3, <3>1, FlushRegion
    <3> QED
      BY <1>1, <3>2, SameLaid
  <2> QED
    BY <2>1, <2>2
<1> HIDE DEF left
<1> QED
  BY <1>2, <1>4, ShowLaid

----------------------------------------------------------------------------
(* A character printed, and one taken back.                                *)

(* A character after a row that has room.                                  *)
LEMMA PutPicture ==
  ASSUME NEW all, TextRows(all), NEW C, all \in Seq(Seq(C)), NEW ch \in C, NEW last, last = all[Len(all)], Room(last),
         NEW c, Safe(c), Laid(c, all), NEW d, d = draw_char(c, c.cursor_col, c.cursor_row, ch)
  PROVE  LaidPicture(d.shadow, WithLast(all, Append(last, ch)))
<1>1. last \in Seq(C)
  BY DEF TextRows
<1>2. PICK x, other : x = Append(last, ch) /\ other = WithLast(all, x)
  OBVIOUS
<1>3. x \in Seq(C) /\ Len(x) = Len(last) + 1
  BY <1>1, <1>2, AppendFacts
<1>4. Narrow(x)
  BY <1>1, <1>3, Sizes DEF Narrow, Room
<1>5. PICK r : r = LastRow(all)
  OBVIOUS
<1>6. /\ \A row \in Row : row # r => RowText(other, row) = RowText(all, row)
      /\ RowText(all, r) = last /\ RowText(other, r) = x
  <2>1. x \in Seq(C)
    BY <1>3
  <2>2. other = WithLast(all, x)
    BY <1>2
  <2>3. /\ \A row \in Row : row # LastRow(all) => RowText(other, row) = RowText(all, row)
        /\ RowText(all, LastRow(all)) = all[Len(all)] /\ RowText(other, LastRow(all)) = x
    BY ONLY <1>4, <2>1, <2>2, TextRows(all), all \in Seq(Seq(C)), WithPage
  <2> QED
    BY <1>5, <2>3
<1>7. c.cursor_row = r /\ c.cursor_col = Len(last) /\ r \in Row
  <2>1. c.cursor_row = r /\ c.cursor_col = Len(last)
    BY <1>5 DEF Laid, LaidCursor, Room
  <2> QED
    BY <2>1 DEF Safe
<1>8. /\ \A z \in Line : z # 2 * r /\ z # 2 * r + 1 => d.shadow[z] = c.shadow[z]
      /\ d.shadow[2 * r] = Put(c.shadow[2 * r], Len(last), InkOf(ch))
  <2>1. /\ \A z \in Line : z # 2 * c.cursor_row /\ z # 2 * c.cursor_row + 1 => d.shadow[z] = c.shadow[z]
        /\ d.shadow[2 * c.cursor_row] = Put(c.shadow[2 * c.cursor_row], c.cursor_col, InkOf(ch))
    BY CharLines
  <2>2. PICK row, col : row = c.cursor_row /\ col = c.cursor_col
    OBVIOUS
  <2>3. row = r /\ col = Len(last)
    BY <1>7, <2>2
  <2>4. /\ \A z \in Line : z # 2 * row /\ z # 2 * row + 1 => d.shadow[z] = c.shadow[z]
        /\ d.shadow[2 * row] = Put(c.shadow[2 * row], col, InkOf(ch))
    BY ONLY <2>1, <2>2
  <2> QED
    BY ONLY <2>3, <2>4
<1>9. d.shadow[2 * r] = Drawn(x)
  <2>1. c.shadow[2 * r] = Drawn(last)
    BY <1>6, <1>7 DEF Laid, LaidPicture
  <2>2. Drawn(x) = Put(Drawn(last), Len(last), InkOf(ch))
    BY <1>1, <1>2, DrawnAppend
  <2> QED
    BY <1>8, <2>1, <2>2
<1>10. ASSUME NEW row \in Row PROVE d.shadow[2 * row] = Drawn(RowText(other, row))
  <2>1. CASE row = r
    BY <1>6, <1>9, <2>1
  <2>2. CASE row # r
    <3>1. 2 * row \in Line /\ 2 * row # 2 * r + 1 /\ 2 * row # 2 * r
      BY <1>7, <2>2, BodyLines
    <3>2. c.shadow[2 * row] = Drawn(RowText(all, row))
      BY DEF Laid, LaidPicture
    <3> QED
      BY <1>6, <1>8, <2>2, <3>1, <3>2
  <2> QED
    BY <2>1, <2>2
<1>11. ASSUME NEW y \in Line, y >= 2 * fb_rows PROVE d.shadow[y] = Drawn(<<>>)
  <2>1. y # 2 * r /\ y # 2 * r + 1
    BY <1>7, <1>11, BodyLines
  <2>2. c.shadow[y] = Drawn(<<>>)
    BY <1>11 DEF Laid, LaidPicture
  <2> QED
    BY <1>8, <2>1, <2>2
<1> QED
  BY <1>2, <1>10, <1>11 DEF LaidPicture

LEMMA PutLaid ==
  ASSUME NEW all, TextRows(all), NEW C, all \in Seq(Seq(C)), NEW ch \in C, NEW last, last = all[Len(all)], Room(last),
         NEW c, Safe(c), Laid(c, all),
         NEW drawn, drawn = draw_char(c, c.cursor_col, c.cursor_row, ch),
         NEW d, d = IF c.cursor_col + 1 < fb_cols
                    THEN [drawn EXCEPT !.cursor_col = @ + 1]
                    ELSE [drawn EXCEPT !.wrap_pending = TRUE]
  PROVE  Safe(d) /\ Laid(d, WithLast(all, Append(last, ch)))
<1>1. last \in Seq(C)
  BY DEF TextRows
<1>2. PICK x, other : x = Append(last, ch) /\ other = WithLast(all, x)
  OBVIOUS
<1>3. x \in Seq(C) /\ Len(x) = Len(last) + 1 /\ Len(last) \in Nat
  BY <1>1, <1>2, AppendFacts
<1>4. Narrow(x) /\ fb_cols \in Nat /\ Len(x) <= fb_cols /\ Len(last) < fb_cols
  BY <1>1, <1>3, Sizes DEF Narrow, Room
<1>5. LastRow(other) = LastRow(all) /\ other[Len(other)] = x
  <2>1. x \in Seq(C)
    BY <1>3
  <2>2. other = WithLast(all, x)
    BY <1>2
  <2>3. Narrow(x)
    BY <1>4
  <2> QED
    BY ONLY <2>1, <2>2, <2>3, TextRows(all), all \in Seq(Seq(C)), WithPage
<1>6. c.cursor_row = LastRow(all) /\ c.cursor_col = Len(last) /\ ~c.wrap_pending
  <2>1. Len(last) # fb_cols
    BY <1>3, <1>4
  <2>2. Len(last) < fb_cols
    BY <1>4
  <2> QED
    BY <2>1, <2>2 DEF Laid, LaidCursor
<1>7. Safe(drawn) /\ SameCursor(c, drawn) /\ LaidPicture(drawn.shadow, other)
  BY <1>2, DrawChar, PutPicture
<1>8. /\ drawn.cursor_row = LastRow(all) /\ drawn.cursor_col = Len(last)
      /\ ~drawn.wrap_pending /\ drawn.cursor_row \in Row
  BY <1>6, <1>7 DEF SameCursor, Safe
<1>9. CASE c.cursor_col + 1 < fb_cols
  <2>0. PICK k : k = drawn.cursor_col + 1
    OBVIOUS
  <2>1. d = [drawn EXCEPT !.cursor_col = k]
    BY <1>7, <1>9, <2>0 DEF Safe
  <2>2. k \in Col /\ k = Len(x)
    BY <1>3, <1>4, <1>6, <1>8, <1>9, <2>0 DEF Col
  <2>a. Safe(drawn) /\ ~drawn.wrap_pending /\ drawn.cursor_row \in Row
    BY <1>7, <1>8
  <2>3. d = CursorAt(drawn, drawn.cursor_row, k)
    BY ONLY <2>a, <2>1, MoveForms
  <2>4. Safe(d) /\ d.shadow = drawn.shadow /\ d.cursor_row = drawn.cursor_row /\ d.cursor_col = k
        /\ ~d.wrap_pending
    <3>1. k \in Col
      BY <2>2
    <3> QED
      BY ONLY <2>a, <2>3, <3>1, MoveCursor
  <2>5. Len(x) < fb_cols /\ Len(x) # fb_cols /\ d.cursor_col = Len(x) /\ d.wrap_pending = FALSE
    BY <1>3, <1>4, <1>6, <1>9, <2>2, <2>4 DEF Safe
  <2>6. LaidCursor(d, other)
    BY <1>5, <1>8, <2>4, <2>5 DEF LaidCursor
  <2> QED
    BY <1>2, <1>7, <2>4, <2>6 DEF Laid
<1>10. CASE ~(c.cursor_col + 1 < fb_cols)
  <2>1. d = [drawn EXCEPT !.wrap_pending = TRUE]
    BY <1>10
  <2>2. Len(x) = fb_cols /\ drawn.cursor_col = fb_cols - 1
    BY <1>3, <1>4, <1>6, <1>8, <1>10
  <2>3. Safe(d)
    BY <1>7, <2>1, <2>2, WrapPending
  <2>4. /\ d.shadow = drawn.shadow /\ d.cursor_row = drawn.cursor_row
        /\ d.cursor_col = drawn.cursor_col /\ d.wrap_pending = TRUE
    BY <1>7, <2>1 DEF Safe
  <2>5. ~(Len(x) < fb_cols)
    BY <1>4, <2>2
  <2>6. LaidCursor(d, other)
    BY <1>5, <1>8, <2>2, <2>4, <2>5 DEF LaidCursor
  <2> QED
    BY <1>2, <1>7, <2>3, <2>4, <2>6 DEF Laid
<1> QED
  BY <1>9, <1>10

LEMMA WithBlank ==
  ASSUME NEW C, NEW all \in Seq(Seq(C)), NEW ch \in C
  PROVE  WithLast(Append(all, <<>>), Append(<<>>, ch)) = Append(all, <<ch>>)
<1>1. PICK more, x : more = Append(all, <<>>) /\ x = <<ch>>
  OBVIOUS
<1>2. <<>> \in Seq(C) /\ x \in Seq(C) /\ Append(<<>>, ch) = x
  BY <1>1
<1>3. more \in Seq(Seq(C)) /\ Len(more) = Len(all) + 1 /\ Len(all) \in Nat /\ \A i \in 1 .. Len(all) : more[i] = all[i]
  BY <1>1, <1>2, AppendFacts
<1>4. more # <<>>
  BY <1>3
<1>5. PICK d, e : d = [more EXCEPT ![Len(more)] = x] /\ e = Append(all, x)
  OBVIOUS
<1>6. d \in Seq(Seq(C)) /\ Len(d) = Len(more) /\ d[Len(more)] = x /\ \A i \in 1 .. Len(more) - 1 : d[i] = more[i]
  BY <1>2, <1>3, <1>4, <1>5, ExceptLast
<1>7. e \in Seq(Seq(C)) /\ Len(e) = Len(all) + 1 /\ e[Len(all) + 1] = x /\ \A i \in 1 .. Len(all) : e[i] = all[i]
  BY <1>2, <1>5, AppendFacts
<1>8. ASSUME NEW i \in 1 .. Len(d) PROVE d[i] = e[i]
  <2>1. CASE i = Len(all) + 1
    BY <1>3, <1>6, <1>7, <2>1
  <2>2. CASE i # Len(all) + 1
    <3>1. i \in 1 .. Len(all) /\ i \in 1 .. Len(more) - 1
      BY <1>3, <1>6, <2>2
    <3> QED
      BY <1>3, <1>6, <1>7, <3>1
  <2> QED
    BY <2>1, <2>2
<1>9. d = e
  BY <1>3, <1>6, <1>7, <1>8, SeqEqual
<1> QED
  BY <1>1, <1>2, <1>5, <1>9 DEF WithLast

LEMMA GlyphLaid ==
  ASSUME NEW all, TextRows(all), NEW C, all \in Seq(Seq(C)), NEW ch \in C, NEW last, last = all[Len(all)],
         NEW c, Safe(c), Laid(c, all)
  PROVE  /\ Len(last) < fb_cols => Laid(Glyph(c, ch), WithLast(all, Append(last, ch)))
         /\ Len(last) = fb_cols => Laid(Glyph(c, ch), Append(all, <<ch>>))
<1> DEFINE at    == IF c.wrap_pending THEN NextRow(c) ELSE c
           drawn == draw_char(at, at.cursor_col, at.cursor_row, ch)
           after == IF at.cursor_col + 1 < fb_cols
                    THEN [drawn EXCEPT !.cursor_col = @ + 1]
                    ELSE [drawn EXCEPT !.wrap_pending = TRUE]
           d == FlushRow(draw_cursor(after, TRUE))
<1>1. Glyph(c, ch) = d
  BY DEF Glyph
<1>2. c.wrap_pending <=> Len(last) = fb_cols
  BY DEF Laid, LaidCursor
<1>3. ASSUME NEW some, Safe(at), Laid(at, some), TextRows(some), some \in Seq(Seq(C)), Room(some[Len(some)])
      PROVE  Laid(d, WithLast(some, Append(some[Len(some)], ch)))
  <2>1. PICK end : end = some[Len(some)]
    OBVIOUS
  <2>2. after = IF at.cursor_col + 1 < fb_cols
                THEN [drawn EXCEPT !.cursor_col = @ + 1]
                ELSE [drawn EXCEPT !.wrap_pending = TRUE]
    OBVIOUS
  <2>3. drawn = draw_char(at, at.cursor_col, at.cursor_row, ch)
    OBVIOUS
  <2> HIDE DEF at, drawn, after
  <2>4. Safe(after) /\ Laid(after, WithLast(some, Append(end, ch)))
    BY <1>3, <2>1, <2>2, <2>3, PutLaid
  <2>5. Laid(d, WithLast(some, Append(end, ch)))
    BY <2>4, ShowLaid
  <2> QED
    BY <2>1, <2>5
<1>4. CASE Len(last) < fb_cols
  <2>1. Len(last) # fb_cols /\ Room(last)
    BY <1>4, Sizes DEF TextRows, Room
  <2>2. at = c
    BY <1>2, <2>1
  <2>3. Laid(d, WithLast(all, Append(last, ch)))
    <3> HIDE DEF at, d
    <3> QED
      BY <1>3, <2>1, <2>2
  <2> QED
    BY <1>1, <2>1, <2>3
<1>5. CASE Len(last) = fb_cols
  <2>1. ~(Len(last) < fb_cols)
    BY <1>5, Sizes
  <2>2. at = NextRow(c)
    BY <1>2, <1>5
  <2>3. PICK more : more = Append(all, <<>>)
    OBVIOUS
  <2>4. Laid(NextRow(c), more) /\ TextRows(more) /\ Safe(NextRow(c))
    BY <2>3, NextRowLaid, NextRowKeeps
  <2>5. more[Len(more)] = <<>> /\ more \in Seq(Seq(C))
    <3>1. <<>> \in Seq(C)
      OBVIOUS
    <3>2. more \in Seq(Seq(C))
      BY <2>3, <3>1, AppendFacts
    <3>3. more[Len(more)] = <<>>
      BY <2>3, BlankPage
    <3> QED
      BY <3>2, <3>3
  <2>6. Room(more[Len(more)])
    BY <2>5, Sizes DEF Room
  <2>7. Laid(d, WithLast(more, Append(more[Len(more)], ch)))
    <3> HIDE DEF at, d
    <3> QED
      BY <1>3, <2>2, <2>4, <2>5, <2>6
  <2>8. WithLast(more, Append(more[Len(more)], ch)) = Append(all, <<ch>>)
    BY <2>3, <2>5, WithBlank
  <2> QED
    BY <1>1, <2>1, <2>7, <2>8
<1> QED
  BY <1>4, <1>5

LEMMA BackspaceLaid ==
  ASSUME NEW all, TextRows(all), NEW C, all \in Seq(Seq(C)), NEW ch \in C, NEW last, last = all[Len(all)],
         NEW x, x = Append(last, ch), Room(x),
         NEW c, Safe(c), Laid(c, WithLast(all, x))
  PROVE  Laid(Backspace(c), all)
<1>1. last \in Seq(C) /\ Len(last) \in Nat
  BY DEF TextRows
<1>2. PICK more, n, r : more = WithLast(all, x) /\ n = Len(last) /\ r = LastRow(all)
  OBVIOUS
<1>3. x \in Seq(C) /\ Len(x) = n + 1 /\ n \in Nat
  BY <1>1, <1>2, AppendFacts
<1>4. Narrow(x) /\ Room(last) /\ n + 1 < fb_cols /\ fb_cols \in Nat
  BY <1>1, <1>2, <1>3, Sizes DEF Narrow, Room
<1>5. /\ Len(more) = Len(all) /\ more[Len(all)] = x /\ LastRow(more) = LastRow(all)
      /\ \A row \in Row : row # LastRow(all) => RowText(more, row) = RowText(all, row)
      /\ RowText(all, LastRow(all)) = all[Len(all)] /\ RowText(more, LastRow(all)) = x
  <2>1. x \in Seq(C)
    BY <1>3
  <2>2. more = WithLast(all, x)
    BY <1>2
  <2>3. Narrow(x)
    BY <1>4
  <2> QED
    BY ONLY <2>1, <2>2, <2>3, TextRows(all), all \in Seq(Seq(C)), WithPage
<1>6. Laid(c, more)
  BY <1>2
<1>7. c.cursor_row = r /\ c.cursor_col = n + 1 /\ c.cursor_col > 0 /\ c.cursor_col - 1 = n /\ r \in Row /\ n \in Col
  <2>1. c.cursor_row = r /\ c.cursor_col = Len(x)
    BY <1>2, <1>5, <1>6 DEF Laid, LaidCursor, Room
  <2>2. c.cursor_row \in Row
    BY DEF Safe
  <2>3. c.cursor_col = n + 1 /\ c.cursor_col > 0 /\ c.cursor_col - 1 = n
    BY <1>3, <2>1
  <2>4. n \in Col
    BY <1>3, <1>4 DEF Col
  <2> QED
    BY <2>1, <2>2, <2>3, <2>4
<1> DEFINE back == [c EXCEPT !.cursor_col = n, !.wrap_pending = FALSE]
           e == draw_char(back, back.cursor_col, back.cursor_row, " ")
<1>8. back = CursorAt(c, r, n)
  <2>1. back = CursorAt(c, c.cursor_row, n)
    BY MoveForms
  <2>2. c.cursor_row = r
    BY <1>7
  <2> HIDE DEF back
  <2> QED
    BY ONLY <2>1, <2>2
<1>9. Backspace(c) = FlushRow(draw_cursor(e, TRUE))
  <2>1. [c EXCEPT !.cursor_col = @ - 1, !.wrap_pending = FALSE] = back
    BY <1>7 DEF Safe
  <2> QED
    BY <1>7, <2>1 DEF Backspace
<1> HIDE DEF back
<1>10. Safe(back) /\ back.shadow = c.shadow /\ back.cursor_row = r /\ back.cursor_col = n /\ ~back.wrap_pending
  BY <1>7, <1>8, MoveCursor
<1>11. Safe(e) /\ SameCursor(back, e)
  BY <1>10, DrawChar
<1>12. /\ \A z \in Line : z # 2 * r /\ z # 2 * r + 1 => e.shadow[z] = c.shadow[z]
       /\ e.shadow[2 * r] = Put(c.shadow[2 * r], n, {})
  <2>1. /\ \A z \in Line : z # 2 * back.cursor_row /\ z # 2 * back.cursor_row + 1 => e.shadow[z] = back.shadow[z]
        /\ e.shadow[2 * back.cursor_row] = Put(back.shadow[2 * back.cursor_row], back.cursor_col, InkOf(" "))
    BY <1>10, CharLines
  <2>2. InkOf(" ") = {}
    BY DEF InkOf
  <2>3. PICK row, col, sh : row = back.cursor_row /\ col = back.cursor_col /\ sh = back.shadow
    OBVIOUS
  <2>4. row = r /\ col = n /\ sh = c.shadow
    BY <1>10, <2>3
  <2>5. /\ \A z \in Line : z # 2 * row /\ z # 2 * row + 1 => e.shadow[z] = sh[z]
        /\ e.shadow[2 * row] = Put(sh[2 * row], col, {})
    BY ONLY <2>1, <2>2, <2>3
  <2> QED
    BY ONLY <2>4, <2>5
<1> HIDE DEF e
<1>13. e.shadow[2 * r] = Drawn(last)
  <2>1. c.shadow[2 * r] = Drawn(x)
    BY <1>2, <1>5, <1>6, <1>7 DEF Laid, LaidPicture
  <2>2. Drawn(last) = Put(Drawn(x), n, {})
    BY <1>1, <1>2, <1>4, DrawnAppend
  <2> QED
    BY <1>12, <2>1, <2>2
<1>14. ASSUME NEW row \in Row PROVE e.shadow[2 * row] = Drawn(RowText(all, row))
  <2>1. CASE row = r
    BY <1>2, <1>5, <1>13, <2>1
  <2>2. CASE row # r
    <3>1. 2 * row \in Line /\ 2 * row # 2 * r + 1 /\ 2 * row # 2 * r
      BY <1>7, <2>2, BodyLines
    <3>2. c.shadow[2 * row] = Drawn(RowText(more, row))
      BY <1>6 DEF Laid, LaidPicture
    <3> QED
      BY <1>2, <1>5, <1>12, <2>2, <3>1, <3>2
  <2> QED
    BY <2>1, <2>2
<1>15. ASSUME NEW y \in Line, y >= 2 * fb_rows PROVE e.shadow[y] = Drawn(<<>>)
  <2>1. y # 2 * r /\ y # 2 * r + 1
    BY <1>7, <1>15, BodyLines
  <2>2. c.shadow[y] = Drawn(<<>>)
    BY <1>6, <1>15 DEF Laid, LaidPicture
  <2> QED
    BY <1>12, <2>1, <2>2
<1>16. LaidCursor(e, all)
  <2>1. e.cursor_row = r /\ e.cursor_col = n /\ e.wrap_pending = FALSE
    BY <1>10, <1>11 DEF SameCursor, Safe
  <2>2. n < fb_cols /\ n # fb_cols
    BY <1>3, <1>4
  <2> QED
    BY <1>2, <2>1, <2>2 DEF LaidCursor
<1>17. Laid(e, all)
  BY <1>14, <1>15, <1>16 DEF Laid, LaidPicture
<1> QED
  BY <1>9, <1>11, <1>17, ShowLaid

(* The screen of no text.                                                  *)
LEMMA BlankLaid ==
  ASSUME NEW c, c.shadow = Empty, c.cursor_row = 0, c.cursor_col = 0, c.wrap_pending = FALSE
  PROVE  Laid(c, << <<>> >>)
<1>1. PICK all : all = << <<>> >>
  OBVIOUS
<1>2. Len(all) = 1 /\ all[1] = <<>>
  BY <1>1
<1>3. fb_rows \in Nat /\ fb_rows # 0 /\ fb_cols \in Nat /\ fb_cols # 0
  BY Sizes
<1>4. Top(all) = 0 /\ LastRow(all) = 0
  <2>1. ~(1 > fb_rows) /\ Len(all) = 1
    BY <1>2, <1>3
  <2>2. Top(all) = 0
    BY ONLY <2>1 DEF Top
  <2> QED
    BY ONLY <2>1, <2>2 DEF LastRow
<1>5. ASSUME NEW row \in Row PROVE RowText(all, row) = <<>>
  <2>1. row \in Nat
    BY DEF Row
  <2>2. CASE row = 0
    BY <1>2, <1>4, <2>2 DEF RowText
  <2>3. CASE row # 0
    <3>1. ~(0 + row < 1)
      BY <2>1, <2>3
    <3> QED
      BY <1>2, <1>4, <3>1 DEF RowText
  <2> QED
    BY <2>2, <2>3
<1>6. LaidPicture(c.shadow, all)
  <2>1. \A row \in Row : 2 * row \in Line
    BY RowLines
  <2> QED
    BY <1>5, <2>1, EmptyDrawn DEF LaidPicture
<1>7. LaidCursor(c, all)
  <2>1. Len(all[Len(all)]) = 0
    BY <1>2
  <2> QED
    BY <1>3, <1>4, <2>1 DEF LaidCursor
<1> QED
  BY <1>1, <1>6, <1>7 DEF Laid

LEMMA ClearLaid ==
  ASSUME NEW c, Safe(c)
  PROVE  Laid(clear(c), All(<<>>))
<1> DEFINE e == [c EXCEPT !.shadow = Empty]
           f == [e EXCEPT !.cursor_row = 0, !.cursor_col = 0, !.wrap_pending = FALSE]
           g == draw_cursor(f, TRUE)
           d == flush_all(g)
<1>0. 0 \in Row /\ 0 \in Col
  BY Sizes DEF Row, Col
<1>1. Picture(Empty)
  BY EmptyPicture
<1>2. Safe(e) /\ e.shadow = Empty
  BY <1>1, Redraw
<1>3. clear(c) = d
  <2>1. [c EXCEPT !.shadow = Empty, !.cursor_row = 0, !.cursor_col = 0, !.wrap_pending = FALSE] = f
    BY DEF Safe
  <2> QED
    BY <2>1 DEF clear
<1> HIDE DEF e
<1>a. f = CursorAt(e, 0, 0)
  <2> HIDE DEF f, g, d
  <2>1. Safe(e)
    BY <1>2
  <2>2. f = [e EXCEPT !.cursor_row = 0, !.cursor_col = 0, !.wrap_pending = FALSE]
    BY DEF f
  <2> QED
    BY <2>1, <2>2 DEF CursorAt, Safe
<1> HIDE DEF f
<1>4. Safe(f) /\ f.shadow = Empty /\ f.cursor_row = 0 /\ f.cursor_col = 0 /\ ~f.wrap_pending
  BY <1>0, <1>2, <1>a, MoveCursor
<1>5. Laid(f, << <<>> >>)
  <2>1. f.wrap_pending = FALSE
    BY <1>4 DEF Safe
  <2> QED
    BY <1>4, <2>1, BlankLaid
<1>6. Safe(g) /\ Laid(g, << <<>> >>)
  BY <1>4, <1>5, DrawCursor, CursorLaid
<1> HIDE DEF g
<1>7. SameCursor(g, d) /\ d.shadow = g.shadow
  BY <1>6, FlushAll
<1> HIDE DEF d
<1>8. Laid(d, << <<>> >>)
  BY <1>6, <1>7, SameLaid
<1> QED
  BY <1>3, <1>8, AllEmpty

----------------------------------------------------------------------------
(* Text that is written.                                                   *)

Control == {"BS", "\r", "ESC"}

LEMMA PageAll ==
  ASSUME NEW C, NEW s \in Seq(C)
  PROVE  TextRows(All(s)) /\ All(s) \in Seq(Seq(C))
BY AllType DEF TextRows

LEMMA CharLaid ==
  ASSUME NEW C, NEW s \in Seq(C), NEW ch \in C, ch \notin Control, NEW c, Safe(c), Laid(c, All(s))
  PROVE  Laid(putchar_inner(c, ch), All(Append(s, ch)))
<1>1. PICK all, last : all = All(s) /\ last = all[Len(all)]
  OBVIOUS
<1>2. TextRows(all) /\ all \in Seq(Seq(C)) /\ Laid(c, all)
  BY <1>1, PageAll
<1>3. CASE ch = "\n"
  <2>1. putchar_inner(c, ch) = LineFeed(c)
    BY <1>3 DEF putchar_inner
  <2>2. Laid(LineFeed(c), Append(all, <<>>))
    BY <1>2, LineFeedLaid
  <2>3. All(Append(s, ch)) = Append(all, <<>>)
    BY <1>1, <1>3, AllNext
  <2> QED
    BY <2>1, <2>2, <2>3
<1>4. CASE ch # "\n"
  <2>1. putchar_inner(c, ch) = Glyph(c, ch)
    BY <1>4 DEF putchar_inner, Control
  <2>2. /\ Len(last) < fb_cols => Laid(Glyph(c, ch), WithLast(all, Append(last, ch)))
        /\ Len(last) = fb_cols => Laid(Glyph(c, ch), Append(all, <<ch>>))
    BY <1>1, <1>2, GlyphLaid
  <2>3. /\ Len(last) < fb_cols => All(Append(s, ch)) = WithLast(all, Append(last, ch))
        /\ Len(last) = fb_cols => All(Append(s, ch)) = Append(all, <<ch>>)
    BY <1>1, <1>4, AllNext
  <2>4. Len(last) < fb_cols \/ Len(last) = fb_cols
    BY <1>1, <1>2, Sizes DEF TextRows
  <2> QED
    BY <2>1, <2>2, <2>3, <2>4
<1> QED
  BY <1>3, <1>4

LEMMA ProcessLaid ==
  ASSUME NEW stray, NEW C, NEW s \in Seq(C), NEW ch \in C, ch \notin Control,
         NEW c, Safe(c), AllShown(c, stray), c.vt_state = "normal", Laid(c, All(s))
  PROVE  Laid(vt_process(c, ch), All(Append(s, ch))) /\ vt_process(c, ch).vt_state = "normal"
<1>1. PICK e : e = draw_cursor(c, FALSE)
  OBVIOUS
<1>2. Safe(e) /\ SameVt(c, e) /\ BodiesShown(e, stray) /\ Laid(e, All(s))
  BY <1>1, AllOthers, DrawCursor, CursorLaid
<1>3. vt_process(c, ch) = putchar_inner(e, ch)
  BY <1>1 DEF vt_process, Control
<1>4. Laid(putchar_inner(e, ch), All(Append(s, ch)))
  BY <1>2, CharLaid
<1>5. SameVt(e, putchar_inner(e, ch))
  BY <1>2, PutcharDoes DEF Does
<1> QED
  BY <1>2, <1>3, <1>4, <1>5 DEF SameVt

(* The first m characters of w behind s.                                   *)
Before(s, w, m) == s \o SubSeq(w, 1, m)

LEMMA BeforeNext ==
  ASSUME NEW C, NEW s \in Seq(C), NEW w \in Seq(C), NEW m \in Nat, m < Len(w)
  PROVE  /\ Before(s, w, m) \in Seq(C)
         /\ Before(s, w, m + 1) = Append(Before(s, w, m), w[m + 1])
<1>1. PICK p, q, x : p = SubSeq(w, 1, m) /\ q = SubSeq(w, 1, m + 1) /\ x = w[m + 1]
  OBVIOUS
<1>2. p \in Seq(C) /\ x \in C
  BY <1>1
<1>3. q = Append(p, x)
  <2>1. q \in Seq(C) /\ Len(q) = m + 1 /\ \A i \in 1 .. m + 1 : q[i] = w[i]
    BY <1>1
  <2>2. Len(p) = m /\ \A i \in 1 .. m : p[i] = w[i]
    BY <1>1
  <2>3. Append(p, x) \in Seq(C) /\ Len(Append(p, x)) = m + 1 /\ Append(p, x)[m + 1] = x
        /\ \A i \in 1 .. m : Append(p, x)[i] = p[i]
    BY <1>2, <2>2, AppendFacts
  <2>4. ASSUME NEW i \in 1 .. m + 1 PROVE q[i] = Append(p, x)[i]
    <3>1. CASE i = m + 1
      BY <1>1, <2>1, <2>3, <3>1
    <3>2. CASE i # m + 1
      <4>1. i \in 1 .. m
        BY <3>2
      <4> QED
        BY <2>1, <2>2, <2>3, <4>1
    <3> QED
      BY <3>1, <3>2
  <2> QED
    BY <2>1, <2>3, <2>4, SeqEqual
<1>4. s \o Append(p, x) = Append(s \o p, x) /\ s \o p \in Seq(C)
  BY <1>2, ConcatAppend
<1> QED
  BY <1>1, <1>3, <1>4 DEF Before

LEMMA BeforeEnds ==
  ASSUME NEW C, NEW s \in Seq(C), NEW w \in Seq(C)
  PROVE  Before(s, w, 0) = s /\ Before(s, w, Len(w)) = s \o w
<1>1. SubSeq(w, 1, 0) = <<>> /\ SubSeq(w, 1, Len(w)) = w
  OBVIOUS
<1>2. s \o <<>> = s
  OBVIOUS
<1> QED
  BY <1>1, <1>2 DEF Before

LEMMA FoldLaid ==
  ASSUME NEW stray, NEW C, NEW s \in Seq(C), NEW w \in Seq(C), \A i \in 1 .. Len(w) : w[i] \notin Control,
         NEW c, Goes(c, c, stray), c.vt_state = "normal", Laid(c, All(s)), NEW f, Folded(f, c, w, Len(w))
  PROVE  Laid(f[1 .. Len(w)], All(s \o w)) /\ f[1 .. Len(w)].vt_state = "normal"
<1> DEFINE n == Len(w)
           Fine(k) == f[1 .. k].vt_state = "normal" /\ Laid(f[1 .. k], All(Before(s, w, k)))
           Bad == {k \in Nat : k <= n /\ ~Fine(k)}
<1>1. n \in Nat
  OBVIOUS
<1>2. \A k \in 0 .. n : f[1 .. k] = IF 1 .. k = {} THEN c ELSE vt_process(f[(1 .. k) \ {Max(1 .. k)}], w[Max(1 .. k)])
  <2>1. \A k \in 0 .. n : 1 .. k \in SUBSET (1 .. n)
    BY <1>1
  <2> QED
    BY <2>1 DEF Folded
<1>3. Fine(0)
  <2>1. 1 .. 0 = {} /\ 0 \in 0 .. n
    BY <1>1
  <2>2. f[1 .. 0] = c
    BY <1>2, <2>1
  <2>3. Before(s, w, 0) = s
    BY BeforeEnds
  <2> QED
    BY <2>2, <2>3
<1>4. ASSUME NEW k \in Nat, k + 1 <= n, Fine(k) PROVE Fine(k + 1)
  <2>1. Max(1 .. k + 1) = k + 1 /\ (1 .. k + 1) \ {k + 1} = 1 .. k /\ 1 .. k + 1 # {} /\ k + 1 \in 0 .. n
    <3>1. 1 .. k + 1 \in SUBSET (1 .. k + 1) /\ k + 1 \in 1 .. k + 1
      OBVIOUS
    <3>2. Max(1 .. k + 1) = k + 1
      BY <3>1, MaxLast
    <3>3. (1 .. k + 1) \ {k + 1} = 1 .. k
      OBVIOUS
    <3>4. 1 .. k + 1 # {}
      BY <3>1
    <3>5. k + 1 \in 0 .. n
      BY <1>1, <1>4
    <3> QED
      BY ONLY <3>2, <3>3, <3>4, <3>5
  <2>2. f[1 .. k + 1] = vt_process(f[1 .. k], w[k + 1])
    BY <1>2, <2>1
  <2>3. Goes(c, f[1 .. k], stray)
    <3>1. n \in 0 .. n /\ 1 .. k \in SUBSET (1 .. n)
      BY <1>1, <1>4
    <3> QED
      BY <1>1, <3>1, FoldGoes
  <2>4. PICK d : d = f[1 .. k]
    OBVIOUS
  <2>5. Safe(d) /\ AllShown(d, stray) /\ d.vt_state = "normal" /\ Laid(d, All(Before(s, w, k)))
    BY <1>4, <2>3, <2>4 DEF Goes
  <2>6. w[k + 1] \in C /\ w[k + 1] \notin Control
    BY <1>4
  <2>7. Before(s, w, k) \in Seq(C) /\ Before(s, w, k + 1) = Append(Before(s, w, k), w[k + 1])
    BY <1>1, <1>4, BeforeNext
  <2>8. /\ Laid(vt_process(d, w[k + 1]), All(Append(Before(s, w, k), w[k + 1])))
        /\ vt_process(d, w[k + 1]).vt_state = "normal"
    BY <2>5, <2>6, <2>7, ProcessLaid
  <2> QED
    BY <2>2, <2>4, <2>7, <2>8
<1>5. Bad = {}
  <2> SUFFICES ASSUME Bad # {} PROVE FALSE
    OBVIOUS
  <2>1. PICK k \in Bad : \A o \in Bad : k <= o
    BY LeastNumber
  <2> HIDE DEF Fine
  <2>2. k \in Nat /\ k <= n /\ ~Fine(k)
    BY <2>1
  <2>3. k # 0
    BY <1>3, <2>2
  <2>4. k - 1 \in Nat /\ k - 1 \notin Bad /\ (k - 1) + 1 = k /\ k - 1 <= n
    BY <1>1, <2>1, <2>2, <2>3
  <2>5. Fine(k - 1)
    BY <2>4
  <2>6. Fine((k - 1) + 1)
    BY <1>4, <2>2, <2>4, <2>5
  <2> QED
    BY <2>2, <2>4, <2>6
<1>6. Fine(n)
  <2> HIDE DEF Fine
  <2> QED
    BY <1>1, <1>5
<1>7. Before(s, w, n) = s \o w
  BY BeforeEnds
<1> QED
  BY <1>6, <1>7

(* print holds the flushes back, which leaves the text alone.              *)
LEMMA HeldLaid ==
  ASSUME NEW stray, NEW c, Ready(c, stray), NEW h, h = flush_hold(c), NEW w, Len(w) \in Nat, DOMAIN w = 1 .. Len(w)
  PROVE  /\ Goes(h, h, stray) /\ h.shadow = c.shadow /\ SameCursor(c, h) /\ SameVt(c, h)
         /\ \E f : /\ Folded(f, h, w, Len(w))
                   /\ \A all : Laid(f[1 .. Len(w)], all) => Laid(print(c, w), all)
<1>1. Safe(c) /\ Parsing(c) /\ AllShown(c, stray) /\ ~c.flush_held
  BY DEF Ready
<1>2. Safe(h) /\ Parsing(h) /\ AllShown(h, stray) /\ h.flush_held /\ h.shadow = c.shadow /\ SameCursor(c, h) /\ SameVt(c, h)
  BY <1>1, Hold
<1>3. Goes(h, h, stray)
  BY <1>2 DEF Goes, Kept
<1>4. PICK f : Folded(f, h, w, Len(w)) /\ FoldLeft(vt_process, h, w) = f[1 .. Len(w)]
  BY FoldIs
<1>5. PICK e : e = f[1 .. Len(w)]
  OBVIOUS
<1>6. Goes(h, e, stray)
  <2>1. Len(w) \in 0 .. Len(w) /\ 1 .. Len(w) \in SUBSET (1 .. Len(w))
    OBVIOUS
  <2> QED
    BY <1>3, <1>4, <1>5, <2>1, FoldGoes
<1>7. print(c, w) = flush_release(e)
  BY <1>4, <1>5 DEF print
<1>8. print(c, w).shadow = e.shadow /\ SameCursor(e, print(c, w))
  BY <1>2, <1>6, <1>7, Release DEF Goes, Kept
<1>9. \A all : Laid(e, all) => Laid(print(c, w), all)
  BY <1>8, SameLaid
<1> QED
  BY <1>2, <1>3, <1>4, <1>5, <1>9

LEMMA PrintLaid ==
  ASSUME NEW stray, NEW C, NEW s \in Seq(C), NEW w \in Seq(C), \A i \in 1 .. Len(w) : w[i] \notin Control,
         NEW c, Ready(c, stray), c.vt_state = "normal", Laid(c, All(s))
  PROVE  Laid(print(c, w), All(s \o w))
<1>1. PICK h : h = flush_hold(c)
  OBVIOUS
<1>2. Len(w) \in Nat /\ DOMAIN w = 1 .. Len(w)
  OBVIOUS
<1>3. PICK f : /\ Folded(f, h, w, Len(w))
               /\ \A all : Laid(f[1 .. Len(w)], all) => Laid(print(c, w), all)
  BY <1>1, <1>2, HeldLaid
<1>4. Goes(h, h, stray) /\ h.vt_state = "normal" /\ Laid(h, All(s))
  BY <1>1, <1>2, HeldLaid, SameLaid DEF SameVt
<1> QED
  BY <1>3, <1>4, FoldLaid

(* A character taken back of a line shorter than the screen.               *)
LEMMA TakenBack ==
  ASSUME NEW stray, NEW C, NEW s \in Seq(C), Len(Last(Lines(s))) \in 1 .. fb_cols - 1,
         NEW c, Safe(c), AllShown(c, stray), c.vt_state = "normal", Laid(c, All(s))
  PROVE  Front(s) \in Seq(C) /\ Laid(vt_process(c, "BS"), All(Front(s)))
<1>1. PICK ls : ls = Lines(s)
  OBVIOUS
<1>2. s # <<>>
  <2>1. Lines(<<>>) = << <<>> >> /\ Last(<< <<>> >>) = <<>> /\ Len(<<>>) = 0
    BY LinesEmpty DEF Last
  <2> QED
    BY <2>1
<1>3. PICK b, ch : b = Front(s) /\ ch = s[Len(s)]
  OBVIOUS
<1>4. b \in Seq(C) /\ ch \in C /\ s = Append(b, ch)
  BY <1>2, <1>3 DEF Front
<1>5. PICK ks : ks = Lines(b)
  OBVIOUS
<1>6. ks \in Seq(Seq(C)) /\ ks # <<>> /\ ls = WithChar(ks, ch)
  BY <1>1, <1>4, <1>5, LinesType, LinesAppend
<1>7. PICK end : end = ks[Len(ks)]
  OBVIOUS
<1>8. end \in Seq(C) /\ Len(end) \in Nat
  BY <1>6, <1>7
<1>9. Len(ls[Len(ls)]) \in 1 .. fb_cols - 1
  BY <1>1 DEF Last
<1>10. ch # "\n"
  <2> SUFFICES ASSUME ch = "\n" PROVE FALSE
    OBVIOUS
  <2>1. ls = Append(ks, <<>>)
    BY <1>6 DEF WithChar
  <2>2. ls[Len(ls)] = <<>>
    BY <1>6, <2>1
  <2> QED
    BY <1>9, <2>2
<1>11. ls[Len(ls)] = Append(end, ch)
  <2>1. ls = [ks EXCEPT ![Len(ks)] = Append(end, ch)]
    BY <1>6, <1>7, <1>10 DEF WithChar
  <2>2. Append(end, ch) \in Seq(C)
    BY <1>4, <1>8
  <2>3. Len(ls) = Len(ks) /\ ls[Len(ks)] = Append(end, ch)
    BY <1>6, <2>1, <2>2, ExceptLast
  <2> QED
    BY <2>3
<1>12. Len(Append(end, ch)) = Len(end) + 1 /\ Len(end) + 1 < fb_cols /\ fb_cols \in Nat
  BY <1>4, <1>8, <1>9, <1>11, Sizes
<1>13. PICK all : all = All(b)
  OBVIOUS
<1>14. TextRows(all) /\ all \in Seq(Seq(C)) /\ all[Len(all)] = end
  <2>1. Len(ks[Len(ks)]) <= fb_cols
    BY <1>7, <1>8, <1>12
  <2> QED
    BY <1>4, <1>5, <1>7, <1>13, <2>1, AllType, PageAll
<1>15. PICK x : x = Append(end, ch)
  OBVIOUS
<1>16. Room(x) /\ Len(end) < fb_cols
  BY <1>8, <1>12, <1>15 DEF Room
<1>17. All(s) = WithLast(all, x)
  <2>1. PICK last : last = all[Len(all)]
    OBVIOUS
  <2>2. last = end
    BY <1>14, <2>1
  <2>3. Len(last) < fb_cols
    BY <1>16, <2>2
  <2>4. All(Append(b, ch)) = WithLast(all, Append(last, ch))
    BY <1>4, <1>10, <1>13, <2>1, <2>3, AllNext
  <2> QED
    BY <1>4, <1>15, <2>2, <2>4
<1>18. PICK e : e = draw_cursor(c, FALSE)
  OBVIOUS
<1>19. Safe(e) /\ Laid(e, WithLast(all, x))
  BY <1>17, <1>18, DrawCursor, CursorLaid
<1>20. vt_process(c, "BS") = Backspace(e)
  BY <1>18 DEF vt_process, putchar_inner
<1>21. Laid(Backspace(e), all)
  BY <1>4, <1>14, <1>15, <1>16, <1>19, BackspaceLaid
<1> QED
  BY <1>3, <1>4, <1>13, <1>20, <1>21

----------------------------------------------------------------------------
(* The text that is remembered.                                            *)

(* The characters that are echoed and printed.                             *)
Chars == Key \union UNION {Range(s) : s \in Text}

(* What is remembered is a text of them, and it is laid out.               *)
TextLaid(c, s) == s # Moved => s \in Seq(Chars) /\ Laid(c, All(s))

LEMMA SeqMonotone == ASSUME NEW A, NEW B, A \subseteq B, NEW s \in Seq(A) PROVE s \in Seq(B)
OBVIOUS

LEMMA TextChars ==
  ASSUME NEW w \in Text
  PROVE  w \in Seq(Chars) /\ \A i \in 1 .. Len(w) : w[i] \in Range(w)
<1>1. w \in Seq(Range(w)) /\ Range(w) \subseteq Chars
  BY TextAssumption DEF Chars
<1> QED
  BY <1>1, SeqMonotone

LEMMA KeyChars ==
  ASSUME NEW ch \in Key
  PROVE  ch \in Chars /\ <<ch>> \in Seq(Chars) /\ Len(<<ch>>) = 1 /\ <<ch>>[1] = ch /\ Range(<<ch>>) = {ch}
<1>1. ch \in Chars
  BY DEF Chars
<1>2. <<ch>> \in Seq(Chars) /\ Len(<<ch>>) = 1 /\ <<ch>>[1] = ch /\ DOMAIN <<ch>> = {1}
  BY <1>1
<1> QED
  BY <1>1, <1>2 DEF Range

(* Which of three things Remember does.                                    *)
LEMMA Remembers ==
  ASSUME NEW w, Remember(w) # Moved
  PROVE  /\ typed # Moved /\ con.vt_state = "normal" /\ ~con.graphics_active
         /\ \/ w = <<"BS">> /\ Len(Last(Lines(typed))) \in 1 .. fb_cols - 1 /\ Remember(w) = Front(typed)
            \/ Range(w) \intersect Control = {} /\ Remember(w) = typed \o w
BY DEF Remember, Control

LEMMA PutcharLaid ==
  ASSUME NEW stray, Ready(con, stray), TextLaid(con, typed), NEW ch \in Key, Putchar(ch)
  PROVE  TextLaid(con', typed')
<1> SUFFICES ASSUME typed' # Moved PROVE typed' \in Seq(Chars) /\ Laid(con', All(typed'))
  BY DEF TextLaid
<1>1. con' = vt_process(con, ch) /\ typed' = Remember(<<ch>>)
  BY DEF Putchar
<1>2. typed # Moved /\ con.vt_state = "normal"
  BY <1>1, Remembers
<1>3. typed \in Seq(Chars) /\ Laid(con, All(typed)) /\ Safe(con) /\ AllShown(con, stray)
  BY <1>2 DEF TextLaid, Ready
<1>4. CASE <<ch>> = <<"BS">> /\ Len(Last(Lines(typed))) \in 1 .. fb_cols - 1 /\ typed' = Front(typed)
  <2>1. ch = "BS"
    BY <1>4, KeyChars
  <2> QED
    BY <1>1, <1>2, <1>3, <1>4, <2>1, TakenBack
<1>5. CASE Range(<<ch>>) \intersect Control = {} /\ typed' = typed \o <<ch>>
  <2>1. ch \in Chars /\ ch \notin Control
    BY <1>5, KeyChars
  <2>2. typed \o <<ch>> = Append(typed, ch) /\ Append(typed, ch) \in Seq(Chars)
    BY <1>3, <2>1
  <2> QED
    BY <1>1, <1>2, <1>3, <1>5, <2>1, <2>2, ProcessLaid
<1> QED
  BY <1>1, <1>4, <1>5, Remembers

(* A text of one character.                                                *)
LEMMA FoldOne ==
  ASSUME NEW c, NEW ch, NEW f, Folded(f, c, <<ch>>, 1)
  PROVE  f[1 .. 1] = vt_process(c, ch)
<1>1. /\ 1 .. 1 \in SUBSET (1 .. 1) /\ 1 .. 1 # {} /\ {} \in SUBSET (1 .. 1)
      /\ 1 .. 1 \in SUBSET (1 .. 0 + 1) /\ 0 + 1 \in 1 .. 1
  OBVIOUS
<1>2. Max(1 .. 1) = 1
  BY <1>1, MaxLast
<1>3. (1 .. 1) \ {1} = {} /\ <<ch>>[1] = ch
  OBVIOUS
<1>4. f[{}] = c
  BY <1>1 DEF Folded
<1>5. f[1 .. 1] = vt_process(f[(1 .. 1) \ {Max(1 .. 1)}], <<ch>>[Max(1 .. 1)])
  BY <1>1 DEF Folded
<1> QED
  BY <1>2, <1>3, <1>4, <1>5

LEMMA WriteLaid ==
  ASSUME NEW stray, Ready(con, stray), TextLaid(con, typed), NEW w \in Text, Write(w)
  PROVE  TextLaid(con', typed')
<1> SUFFICES ASSUME typed' # Moved PROVE typed' \in Seq(Chars) /\ Laid(con', All(typed'))
  BY DEF TextLaid
<1>1. con' = print(con, w) /\ typed' = Remember(w)
  BY DEF Write
<1>2. typed # Moved /\ con.vt_state = "normal"
  BY <1>1, Remembers
<1>3. typed \in Seq(Chars) /\ Laid(con, All(typed))
  BY <1>2 DEF TextLaid
<1>4. CASE w = <<"BS">> /\ Len(Last(Lines(typed))) \in 1 .. fb_cols - 1 /\ typed' = Front(typed)
  <2>1. Len(w) = 1 /\ DOMAIN w = 1 .. Len(w) /\ 1 \in Nat
    BY <1>4
  <2>2. PICK h : h = flush_hold(con)
    OBVIOUS
  <2>3. PICK f : /\ Folded(f, h, w, Len(w))
                 /\ \A all : Laid(f[1 .. Len(w)], all) => Laid(print(con, w), all)
    BY <2>1, <2>2, HeldLaid
  <2>4. Goes(h, h, stray) /\ h.vt_state = "normal" /\ Laid(h, All(typed))
    BY <1>2, <1>3, <2>1, <2>2, HeldLaid, SameLaid DEF SameVt
  <2>5. Safe(h) /\ AllShown(h, stray)
    BY <2>4 DEF Goes
  <2>6. Front(typed) \in Seq(Chars) /\ Laid(vt_process(h, "BS"), All(Front(typed)))
    BY <1>3, <1>4, <2>4, <2>5, TakenBack
  <2>7. f[1 .. Len(w)] = vt_process(h, "BS")
    BY <1>4, <2>1, <2>3, FoldOne
  <2> QED
    BY <1>1, <1>4, <2>3, <2>6, <2>7
<1>5. CASE Range(w) \intersect Control = {} /\ typed' = typed \o w
  <2>1. w \in Seq(Chars) /\ \A i \in 1 .. Len(w) : w[i] \notin Control
    BY <1>5, TextChars
  <2>2. typed \o w \in Seq(Chars)
    BY <1>3, <2>1
  <2> QED
    BY <1>1, <1>2, <1>3, <1>5, <2>1, <2>2, PrintLaid
<1> QED
  BY <1>1, <1>4, <1>5, Remembers

LEMMA EmptyText == <<>> \in Seq(Chars)
OBVIOUS

LEMMA ClsLaid ==
  ASSUME NEW stray, Ready(con, stray), Cls
  PROVE  TextLaid(con', typed')
BY EmptyText, ClearLaid DEF Cls, Ready, TextLaid

LEMMA NewLaid == ConsoleInit => TextLaid(con, typed)
<1> DEFINE c == [shadow |-> Empty, front |-> Empty, cursor_row |-> 0, cursor_col |-> 0, wrap_pending |-> FALSE,
                 flush_held |-> FALSE, dirty_min_y |-> 0, dirty_max_y |-> 0, graphics_active |-> FALSE,
                 vt_state |-> "normal", vt_params |-> NoParams, vt_nparams |-> 0]
<1>1. 0 \in Row /\ 0 \in Col /\ fb_height \in Nat
  BY Sizes DEF Row, Col
<1>2. Safe(c)
  BY <1>1, EmptyPicture DEF Safe
<1>3. NewConsole = clear(c)
  BY DEF NewConsole
<1> HIDE DEF c
<1>4. Laid(NewConsole, All(<<>>))
  BY <1>2, <1>3, ClearLaid
<1> QED
  BY <1>4, EmptyText DEF ConsoleInit, TextLaid

LEMMA ConsoleStepsLaid ==
  ASSUME NEW stray, Ready(con, stray), TextLaid(con, typed), ConsoleNext
  PROVE  TextLaid(con', typed')
<1>1. CASE \E ch \in Key : Putchar(ch)
  BY <1>1, PutcharLaid
<1>2. CASE \E w \in Text : Write(w)
  BY <1>2, WriteLaid
<1>3. CASE Cls
  BY <1>3, ClsLaid
<1> QED
  BY <1>1, <1>2, <1>3 DEF ConsoleNext

(* The last fb_rows rows of all.                                           *)
LEMMA PageRows ==
  ASSUME NEW all, TextRows(all), NEW page, page = SubSeq(all, Top(all) + 1, Len(all))
  PROVE  /\ Len(page) = Len(all) - Top(all) /\ Last(page) = all[Len(all)]
         /\ \A row \in Row : /\ row < Len(page) <=> Top(all) + row < Len(all)
                             /\ row < Len(page) => page[row + 1] = all[Top(all) + row + 1]
<1>1. PICK C : all \in Seq(Seq(C))
  BY DEF TextRows
<1>2. PICK n, t : n = Len(all) /\ t = Top(all)
  OBVIOUS
<1>3. n \in Nat /\ t \in Nat /\ LastRow(all) + 1 = n - t /\ LastRow(all) \in Nat
  BY <1>2, TopIs DEF TextRows, Row
<1>4. t + 1 <= n
  BY <1>3
<1>5. Len(page) = n - t /\ \A i \in 1 .. n - t : page[i] = all[t + i]
  <2>1. page = SubSeq(all, t + 1, n) /\ \A i \in 1 .. n : all[i] \in Seq(C)
    BY <1>1, <1>2
  <2>2. t + 1 \in Int /\ n \in Int /\ \A i \in t + 1 .. n : all[i] \in Seq(C)
    BY <1>3, <2>1
  <2>3. /\ Len(page) = IF t + 1 <= n THEN n - (t + 1) + 1 ELSE 0
        /\ \A i \in 1 .. n - (t + 1) + 1 : page[i] = all[(t + 1) + i - 1]
    BY ONLY <2>1, <2>2, SubSeqProperties
  <2>4. n - (t + 1) + 1 = n - t /\ \A i \in 1 .. n - t : (t + 1) + i - 1 = t + i
    BY <1>3
  <2> QED
    BY <1>4, <2>3, <2>4
<1>6. n - t \in 1 .. n - t /\ t + (n - t) = n
  BY <1>3, <1>4
<1>7. Last(page) = all[n]
  BY <1>5, <1>6 DEF Last
<1>8. ASSUME NEW row \in Row
      PROVE  (row < n - t <=> t + row < n) /\ (row < n - t => page[row + 1] = all[t + row + 1])
  <2>1. row \in Nat
    BY DEF Row
  <2>2. row < n - t <=> t + row < n
    BY <1>3, <2>1
  <2>3. row < n - t => row + 1 \in 1 .. n - t /\ t + (row + 1) = t + row + 1
    BY <1>3, <2>1
  <2> QED
    BY <1>5, <2>2, <2>3
<1> QED
  BY <1>2, <1>5, <1>7, <1>8

LEMMA LayoutIs ==
  ASSUME NEW C, NEW s \in Seq(C), NEW all, all = All(s)
  PROVE  Layout(s) = SubSeq(all, Top(all) + 1, Len(all))
<1>1. all = FlattenSeq([i \in 1 .. Len(Lines(s)) |-> Pieces(Lines(s)[i])])
  BY DEF All, Rowed
<1>2. Len(all) \in Nat
  BY AllType
<1>3. Max({Len(all) - fb_rows, 0}) = Top(all)
  BY <1>2, Sizes, MaxPair DEF Top
<1> QED
  BY <1>1, <1>3 DEF Layout

LEMMA LaidOutIs == ASSUME NEW stray, Ready(con, stray), TextLaid(con, typed) PROVE LaidOut
<1> SUFFICES ASSUME typed # Moved, NEW page, page = Layout(typed)
             PROVE  /\ \A row \in Row, col \in Col :
                         con.shadow[Body(row)][col] =
                           IF row < Len(page) /\ col < Len(page[row + 1]) THEN {page[row + 1][col + 1]} \ {" "} ELSE {}
                    /\ con.cursor_row = Len(page) - 1
                    /\ con.cursor_col = Min({Len(Last(page)), fb_cols - 1})
  BY DEF LaidOut
<1>1. PICK all : all = All(typed)
  OBVIOUS
<1>2. typed \in Seq(Chars) /\ Laid(con, all) /\ TextRows(all)
  BY <1>1, PageAll DEF TextLaid
<1>3. page = SubSeq(all, Top(all) + 1, Len(all))
  BY <1>1, <1>2, LayoutIs
<1>4. /\ Len(page) = Len(all) - Top(all) /\ Last(page) = all[Len(all)]
      /\ \A row \in Row : /\ row < Len(page) <=> Top(all) + row < Len(all)
                          /\ row < Len(page) => page[row + 1] = all[Top(all) + row + 1]
  BY ZenonT(60), <1>2, <1>3, PageRows
<1>5. ASSUME NEW row \in Row, NEW col \in Col
      PROVE  con.shadow[Body(row)][col] =
               IF row < Len(page) /\ col < Len(page[row + 1]) THEN {page[row + 1][col + 1]} \ {" "} ELSE {}
  <2>1. con.shadow[Body(row)] = Drawn(RowText(all, row))
    BY <1>2, RowLines DEF Laid, LaidPicture
  <2>2. CASE row < Len(page)
    <3>1. RowText(all, row) = page[row + 1]
      BY <1>4, <2>2 DEF RowText
    <3> QED
      BY <2>1, <2>2, <3>1 DEF Drawn
  <2>3. CASE ~(row < Len(page))
    <3>1. RowText(all, row) = <<>>
      BY <1>4, <2>3 DEF RowText
    <3> QED
      BY <2>1, <2>3, <3>1, BlankRow
  <2> QED
    BY <2>2, <2>3
<1>6. con.cursor_row = Len(page) - 1
  BY <1>2, <1>4 DEF Laid, LaidCursor, LastRow
<1>7. con.cursor_col = Min({Len(Last(page)), fb_cols - 1})
  <2>1. PICK n : n = Len(all[Len(all)])
    OBVIOUS
  <2>2. n \in Nat /\ fb_cols \in Nat
    BY <1>2, <2>1, Sizes DEF TextRows
  <2>3. con.cursor_col = IF n < fb_cols THEN n ELSE fb_cols - 1
    BY <1>2, <2>1 DEF Laid, LaidCursor
  <2>4. Min({n, fb_cols - 1}) = IF n <= fb_cols - 1 THEN n ELSE fb_cols - 1
    BY <2>2, MinPair
  <2>5. n < fb_cols <=> n <= fb_cols - 1
    BY <2>2
  <2> QED
    BY <1>4, <2>1, <2>3, <2>4, <2>5
<1> QED
  BY <1>5, <1>6, <1>7

----------------------------------------------------------------------------
(* Theorems.                                                               *)

(* The console keeps the cursor on the screen, a pending wrap in the last  *)
(* column, and the dirty lines and the parameters within their arrays,     *)
(* whatever is printed and whatever escape sequences it holds, cut short   *)
(* or not (term.rs:100-126, 226-272).                                      *)
THEOREM CursorOnScreen == ConsoleSpec => []ConsoleTypeOK
<1>1. ConsoleInit => Ready(con, {})
  BY NewReady DEF ConsoleInit
<1>2. Ready(con, {}) /\ [ConsoleNext]_<<con, typed>> => Ready(con, {})'
  <2> SUFFICES ASSUME Ready(con, {}), [ConsoleNext]_<<con, typed>> PROVE Ready(con', {})
    OBVIOUS
  <2> QED
    BY ConsoleSteps
<1>3. Ready(con, {}) => ConsoleTypeOK
  BY ReadyTyped
<1> QED
  BY <1>1, <1>2, <1>3, PTL DEF ConsoleSpec

(* Text printed in any mixture of writes and echoes, in lines of any       *)
(* length, on a screen of any size, is laid out as the reference lays it   *)
(* out: it is split at line feeds and wrapped at the right edge, the last  *)
(* rows are on the screen, and the cursor is behind them, with a wrap      *)
(* deferred when the last row is full (term.rs:352-391).                   *)
THEOREM TextLayout == ConsoleSpec => []LaidOut
<1> DEFINE I == Ready(con, {}) /\ TextLaid(con, typed)
<1>1. ConsoleInit => I
  BY NewReady, NewLaid DEF ConsoleInit
<1>2. I /\ [ConsoleNext]_<<con, typed>> => I'
  <2> SUFFICES ASSUME I, [ConsoleNext]_<<con, typed>> PROVE I'
    OBVIOUS
  <2>1. CASE ConsoleNext
    BY <2>1, ConsoleSteps, ConsoleStepsLaid
  <2>2. CASE UNCHANGED <<con, typed>>
    BY <2>2
  <2> QED
    BY <2>1, <2>2
<1>3. I => LaidOut
  BY LaidOutIs
<1> QED
  BY <1>1, <1>2, <1>3, PTL DEF ConsoleSpec
=============================================================================
