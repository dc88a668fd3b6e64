---------------------------- MODULE ScreenProofs ----------------------------
(***************************************************************************)
(* Proofs about the screen of a BASIC session, for every size of the       *)
(* screen, every text and every drawing, with one page or two: positions   *)
(* and regions are within the screen, text is shown in a text mode, laid   *)
(* out as it was before graphics, and in a graphics mode whatever SHOW has *)
(* still to bring up to date is marked, but for what the console drew.     *)
(***************************************************************************)
EXTENDS Screen, ConsoleProofs

----------------------------------------------------------------------------
(* The invariant.                                                          *)

(* The virtual pixels of a graphics mode fit the screen.                   *)
Geometry(g) ==
  /\ g.pixel_scale \in Nat /\ g.pixel_scale # 0
  /\ g.virt_width \in Nat /\ g.virt_width > 0 /\ g.virt_height \in Nat /\ g.virt_height > 0
  /\ g.offset_x \in Nat /\ g.offset_x + g.virt_width * g.pixel_scale <= fb_width
  /\ g.offset_y \in Nat /\ g.offset_y + g.virt_height * g.pixel_scale <= fb_height

Tidy(g) ==
  /\ g = [mode |-> g.mode, pixel_scale |-> g.pixel_scale,
          virt_width |-> g.virt_width, virt_height |-> g.virt_height,
          offset_x |-> g.offset_x, offset_y |-> g.offset_y,
          cursor |-> g.cursor, draw_color |-> g.draw_color, draw_xor |-> g.draw_xor,
          draw_page |-> g.draw_page, dirty_y0 |-> g.dirty_y0, dirty_y1 |-> g.dirty_y1,
          saved_fb |-> g.saved_fb, page1 |-> g.page1]
  /\ g.cursor \in Int \X Int
  /\ g.mode \in 0 .. 5 /\ g.draw_page \in {0, 1} /\ (~can_flip => g.draw_page = 0)
  /\ g.dirty_y0 \in Nat /\ g.dirty_y1 \in Nat /\ g.dirty_y1 <= fb_height
  /\ g.offset_x \in Nat /\ g.offset_x < fb_width /\ g.offset_y \in Nat /\ g.offset_y < fb_height
  /\ g.mode < 2 => g.virt_width = 0 /\ g.virt_height = 0 /\ g.pixel_scale = 1
  /\ g.mode >= 2 => Geometry(g)
  /\ Picture(g.saved_fb)

(* The page on display, and the lines SHOW has to bring up to date on it,  *)
(* ink being those drawn in unmarked; in a text mode the console shows the *)
(* others.                                                                 *)
Page(g, c) == IF g.draw_page = 0 THEN c.front ELSE g.page1
Dirty(g) == g.dirty_y0 .. g.dirty_y1 - 1
Noted(g, c, ink) ==
  g.mode >= 2 => \A y \in Line : Page(g, c)[y] # c.shadow[y] => y \in ink \union Dirty(g)

Good(g, c, ink) == Ready(c, ink) /\ Tidy(g) /\ (c.graphics_active <=> g.mode >= 2) /\ Noted(g, c, ink)

ScreenInv == Good(gfx, con, inked)

(* The picture of the text, which a graphics mode sets aside, and what a   *)
(* statement does that leaves the text alone.                              *)
TextPicture(g, c) == IF g.mode >= 2 THEN g.saved_fb ELSE c.shadow
SameMode(g, c, t) == t.g.mode = g.mode /\ t.g.saved_fb = g.saved_fb /\ SameCursor(c, t.c)
SameText(g, c, t) == TextPicture(t.g, t.c) = TextPicture(g, c) /\ SameCursor(c, t.c)
TextUntouched ==
  /\ TextPicture(gfx', con') = TextPicture(gfx, con)
  /\ SameCursor(con, con') /\ typed' = typed

----------------------------------------------------------------------------
(* Arithmetic.                                                             *)

LEMMA Division ==
  ASSUME NEW a \in Nat, NEW s \in Nat, s # 0
  PROVE  /\ a \div s \in Nat /\ (a % s) \in Nat /\ (a % s) < s
         /\ a = (a \div s) * s + (a % s)
OBVIOUS

LEMMA Half == ASSUME NEW a \in Nat PROVE a \div 2 \in Nat /\ a \div 2 <= a
OBVIOUS

(* A length of a pixels of the screen holds n virtual ones, and a margin.  *)
LEMMA Fits ==
  ASSUME NEW a \in Nat, NEW s \in Nat, s # 0, s <= a
  PROVE  LET n == a \div s
             margin == (a % s) \div 2
         IN  n \in Nat /\ n > 0 /\ margin \in Nat /\ margin < a /\ margin + n * s <= a
<1> DEFINE n == a \div s
           rest == a % s
           margin == rest \div 2
<1>1. n \in Nat /\ rest \in Nat /\ rest < s /\ a = n * s + rest
  BY Division
<1> HIDE DEF n, rest
<1>2. margin \in Nat /\ margin <= rest
  BY <1>1, Half
<1> HIDE DEF margin
<1>3. n * s \in Nat
  BY <1>1
<1>4. n > 0
  <2>1. n = 0 => n * s = 0
    OBVIOUS
  <2> QED
    BY <1>1, <2>1
<1>5. margin + n * s <= a
  BY <1>1, <1>2, <1>3
<1>6. margin < a
  BY <1>1, <1>2
<1> QED
  BY <1>1, <1>2, <1>4, <1>5, <1>6 DEF margin, n, rest

(* The virtual pixel i is within the virtual ones.                         *)
LEMMA BlockWithin ==
  ASSUME NEW o \in Nat, NEW n \in Nat, NEW s \in Nat, s # 0, NEW a \in Nat, o + n * s <= a,
         NEW i \in 0 .. n - 1
  PROVE  /\ \A y \in Block(o, i, s) : y \in Nat /\ y < a
         /\ o + i * s \in Block(o, i, s)
<1>1. i \in Nat /\ n - 1 - i \in Nat /\ i * s \in Nat
  OBVIOUS
<1>2. (n - 1 - i) * s \in Nat
  BY <1>1
<1>3. (n - 1 - i) * s = n * s - s - i * s /\ n * s \in Nat
  BY <1>1
<1>4. o + i * s + s <= a
  BY <1>1, <1>2, <1>3
<1>5. ASSUME NEW k \in 0 .. s - 1 PROVE o + i * s + k \in Nat /\ o + i * s + k < a
  <2> DEFINE m == i * s
  <2>1. m \in Nat /\ o + m + s <= a
    BY <1>1, <1>4
  <2> HIDE DEF m
  <2>2. o + m + k \in Nat /\ o + m + k < a
    BY <2>1
  <2> QED
    BY <2>2 DEF m
<1>6. o + i * s + 0 = o + i * s /\ 0 \in 0 .. s - 1
  BY <1>1
<1> QED
  BY <1>5, <1>6 DEF Block

(* A bounded set of natural numbers has a greatest element.                *)
LEMMA GreatestNumber ==
  ASSUME NEW S \in SUBSET Nat, S # {}, NEW b \in Nat, \A o \in S : o <= b
  PROVE  \E m \in S : \A o \in S : o <= m
<1> DEFINE Below == {b - o : o \in S}
<1>1. Below \in SUBSET Nat /\ Below # {}
  OBVIOUS
<1>2. PICK l \in Below : \A o \in Below : l <= o
  <2> HIDE DEF Below
  <2> QED
    BY <1>1, LeastNumber
<1>3. PICK m \in S : l = b - m
  BY <1>2
<1>4. ASSUME NEW o \in S
      PROVE  o <= m
  <2>1. b - m <= b - o
    BY <1>2, <1>3
  <2> QED
    BY <2>1
<1> QED
  BY <1>4

LEMMA Ends ==
  ASSUME NEW S \in SUBSET Nat, S # {}, NEW b \in Nat, \A o \in S : o < b
  PROVE  /\ Min(S) \in Nat /\ Max(S) \in Nat /\ Min(S) <= Max(S) /\ Max(S) + 1 <= b
         /\ \A o \in S : Min(S) <= o /\ o <= Max(S)
<1>1. Min(S) \in S /\ \A o \in S : Min(S) <= o
  BY LeastNumber DEF Min
<1>2. \E m \in S : \A o \in S : o <= m
  <2>1. \A o \in S : o <= b
    OBVIOUS
  <2> QED
    BY <2>1, GreatestNumber
<1>3. Max(S) \in S /\ \A o \in S : o <= Max(S)
  <2>1. PICK m \in S : \A o \in S : m >= o
    BY <1>2
  <2>2. \E x \in S : \A y \in S : x >= y
    BY <2>1
  <2>3. Max(S) \in S /\ \A y \in S : Max(S) >= y
    BY <2>2 DEF Max
  <2> QED
    BY <2>3
<1>4. Min(S) \in Nat /\ Max(S) \in Nat /\ Min(S) <= Max(S) /\ Max(S) < b
  BY <1>1, <1>3
<1>5. Max(S) + 1 <= b
  BY ONLY <1>4, b \in Nat
<1> QED
  BY <1>1, <1>3, <1>4, <1>5

----------------------------------------------------------------------------
(* A console whose shadow or frame buffer is set.                          *)

(* In a graphics mode everything there is to say of what is shown is said  *)
(* of the graphics.                                                        *)
LEMMA ReadyInGraphics ==
  ASSUME NEW stray, NEW c, Safe(c), Parsing(c), ~c.flush_held, c.graphics_active
  PROVE  Ready(c, stray)
BY DEF Ready, AllShown, BodiesShown

LEMMA AnyStray ==
  ASSUME NEW ink, NEW stray, NEW c, Ready(c, ink), c.graphics_active
  PROVE  Ready(c, stray)
BY ReadyInGraphics DEF Ready

LEMMA SetShadow ==
  ASSUME NEW ink, NEW stray, NEW c, Ready(c, ink), c.graphics_active,
         NEW p, Picture(p), NEW d, d = [c EXCEPT !.shadow = p]
  PROVE  Ready(d, stray) /\ d.graphics_active /\ d.shadow = p /\ d.front = c.front /\ SameCursor(c, d)
<1>1. Safe(d) /\ d.shadow = p /\ SameFlush(c, d) /\ SameCursor(c, d) /\ SameVt(c, d)
  BY Redraw DEF Ready
<1>2. Parsing(d) /\ ~d.flush_held /\ d.graphics_active /\ d.front = c.front
  BY <1>1 DEF Ready, SameFlush, SameVt, Parsing
<1> QED
  BY <1>1, <1>2, ReadyInGraphics

LEMMA ShowLines ==
  ASSUME NEW ink, NEW c, Ready(c, ink), c.graphics_active, NEW lines, NEW d, d = CopyLines(c, lines)
  PROVE  /\ Ready(d, ink) /\ d.graphics_active /\ d.shadow = c.shadow /\ SameCursor(c, d)
         /\ \A y \in Line : d.front[y] = IF y \in lines THEN c.shadow[y] ELSE c.front[y]
<1> DEFINE f == [y \in Line |-> IF y \in lines THEN c.shadow[y] ELSE c.front[y]]
<1>1. d = [c EXCEPT !.front = f] /\ Safe(c) /\ Parsing(c) /\ ~c.flush_held
  BY DEF CopyLines, Ready
<1>2. \A y \in Line : f[y] = IF y \in lines THEN c.shadow[y] ELSE c.front[y]
  OBVIOUS
<1> HIDE DEF f
<1>3. d = [shadow |-> c.shadow, front |-> f,
           cursor_row |-> c.cursor_row, cursor_col |-> c.cursor_col, wrap_pending |-> c.wrap_pending,
           flush_held |-> c.flush_held, dirty_min_y |-> c.dirty_min_y, dirty_max_y |-> c.dirty_max_y,
           graphics_active |-> c.graphics_active,
           vt_state |-> c.vt_state, vt_params |-> c.vt_params, vt_nparams |-> c.vt_nparams]
  BY <1>1 DEF Safe
<1>4. Safe(d) /\ d.graphics_active /\ d.shadow = c.shadow /\ d.front = f /\ ~d.flush_held
  BY <1>1, <1>3 DEF Safe
<1>5. Parsing(d) /\ SameCursor(c, d)
  BY <1>1, <1>3 DEF Parsing, SameCursor
<1> QED
  BY <1>2, <1>4, <1>5, ReadyInGraphics

LEMMA GraphicsOn ==
  ASSUME NEW ink, NEW stray, NEW c, Ready(c, ink), NEW d, d = [c EXCEPT !.graphics_active = TRUE]
  PROVE  Ready(d, stray) /\ d.graphics_active /\ d.shadow = c.shadow /\ SameCursor(c, d)
<1>1. Safe(c) /\ Parsing(c) /\ ~c.flush_held
  BY DEF Ready
<1>2. d = [shadow |-> c.shadow, front |-> c.front,
           cursor_row |-> c.cursor_row, cursor_col |-> c.cursor_col, wrap_pending |-> c.wrap_pending,
           flush_held |-> c.flush_held, dirty_min_y |-> c.dirty_min_y, dirty_max_y |-> c.dirty_max_y,
           graphics_active |-> TRUE,
           vt_state |-> c.vt_state, vt_params |-> c.vt_params, vt_nparams |-> c.vt_nparams]
  BY <1>1 DEF Safe
<1>3. /\ d.shadow = c.shadow
      /\ d.cursor_row = c.cursor_row /\ d.cursor_col = c.cursor_col /\ d.wrap_pending = c.wrap_pending
      /\ d.flush_held = c.flush_held /\ d.dirty_min_y = c.dirty_min_y /\ d.dirty_max_y = c.dirty_max_y
      /\ d.graphics_active = TRUE
      /\ d.vt_state = c.vt_state /\ d.vt_params = c.vt_params /\ d.vt_nparams = c.vt_nparams
  BY <1>2
<1>4. d = [shadow |-> d.shadow, front |-> d.front,
           cursor_row |-> d.cursor_row, cursor_col |-> d.cursor_col, wrap_pending |-> d.wrap_pending,
           flush_held |-> d.flush_held, dirty_min_y |-> d.dirty_min_y, dirty_max_y |-> d.dirty_max_y,
           graphics_active |-> d.graphics_active,
           vt_state |-> d.vt_state, vt_params |-> d.vt_params, vt_nparams |-> d.vt_nparams]
  BY <1>2
<1>5. Safe(d)
  BY <1>1, <1>3, <1>4 DEF Safe
<1>6. Parsing(d) /\ ~d.flush_held /\ d.graphics_active /\ SameCursor(c, d)
  BY <1>1, <1>3 DEF Parsing, SameCursor
<1> QED
  BY <1>3, <1>5, <1>6, ReadyInGraphics

(* The restored text is shown whole.                                       *)
LEMMA GraphicsOff ==
  ASSUME NEW ink, NEW c, Ready(c, ink), NEW p, Picture(p),
         NEW d, d = [CopyLines([c EXCEPT !.shadow = p], Line) EXCEPT !.graphics_active = FALSE]
  PROVE  Ready(d, {}) /\ ~d.graphics_active /\ d.shadow = p /\ SameCursor(c, d)
<1> DEFINE e == [c EXCEPT !.shadow = p]
           f == [y \in Line |-> IF y \in Line THEN e.shadow[y] ELSE e.front[y]]
           h == [e EXCEPT !.front = f]
<1>1. Safe(c) /\ Parsing(c) /\ ~c.flush_held
  BY DEF Ready
<1>2. d = [h EXCEPT !.graphics_active = FALSE]
  BY DEF CopyLines
<1>3. Safe(e) /\ e.shadow = p /\ SameFlush(c, e) /\ SameCursor(c, e) /\ SameVt(c, e)
  BY <1>1, Redraw
<1> HIDE DEF e
<1>4. \A y \in Line : f[y] = p[y]
  BY <1>3
<1> HIDE DEF f
<1>5. h = [shadow |-> e.shadow, front |-> f,
           cursor_row |-> e.cursor_row, cursor_col |-> e.cursor_col, wrap_pending |-> e.wrap_pending,
           flush_held |-> e.flush_held, dirty_min_y |-> e.dirty_min_y, dirty_max_y |-> e.dirty_max_y,
           graphics_active |-> e.graphics_active,
           vt_state |-> e.vt_state, vt_params |-> e.vt_params, vt_nparams |-> e.vt_nparams]
  <2>1. h = [e EXCEPT !.front = f]
    OBVIOUS
  <2> HIDE DEF h
  <2> QED
    BY <1>3, <2>1 DEF Safe
<1> HIDE DEF h
<1>6. d = [shadow |-> e.shadow, front |-> f,
           cursor_row |-> e.cursor_row, cursor_col |-> e.cursor_col, wrap_pending |-> e.wrap_pending,
           flush_held |-> e.flush_held, dirty_min_y |-> e.dirty_min_y, dirty_max_y |-> e.dirty_max_y,
           graphics_active |-> FALSE,
           vt_state |-> e.vt_state, vt_params |-> e.vt_params, vt_nparams |-> e.vt_nparams]
  BY <1>2, <1>5
<1>7. /\ d.shadow = e.shadow /\ d.front = f
      /\ d.cursor_row = e.cursor_row /\ d.cursor_col = e.cursor_col /\ d.wrap_pending = e.wrap_pending
      /\ d.flush_held = e.flush_held /\ d.dirty_min_y = e.dirty_min_y /\ d.dirty_max_y = e.dirty_max_y
      /\ d.graphics_active = FALSE
      /\ d.vt_state = e.vt_state /\ d.vt_params = e.vt_params /\ d.vt_nparams = e.vt_nparams
  BY ONLY <1>6
<1>8. d = [shadow |-> d.shadow, front |-> d.front,
           cursor_row |-> d.cursor_row, cursor_col |-> d.cursor_col, wrap_pending |-> d.wrap_pending,
           flush_held |-> d.flush_held, dirty_min_y |-> d.dirty_min_y, dirty_max_y |-> d.dirty_max_y,
           graphics_active |-> d.graphics_active,
           vt_state |-> d.vt_state, vt_params |-> d.vt_params, vt_nparams |-> d.vt_nparams]
  BY <1>6
<1>9. Safe(d)
  BY <1>3, <1>7, <1>8 DEF Safe
<1>10. Parsing(d) /\ ~d.flush_held /\ ~d.graphics_active
  BY <1>1, <1>3, <1>7 DEF Parsing, SameFlush, SameVt
<1>11. \A y \in Line : Fresh(d, y, {})
  BY <1>3, <1>4, <1>7 DEF Fresh
<1>12. AllShown(d, {})
  <2>1. Foot(d) \in Line
    BY <1>9, RowLines DEF Foot, Safe
  <2>2. CursorFresh(d, {})
    BY <1>11, <2>1 DEF CursorFresh, Fresh
  <2>3. BodiesShown(d, {})
    BY <1>11, RowLines DEF BodiesShown
  <2> QED
    BY <2>2, <2>3 DEF AllShown
<1>13. d.shadow = p /\ SameCursor(c, d)
  BY <1>3, <1>7 DEF SameCursor
<1> QED
  BY <1>9, <1>10, <1>12, <1>13 DEF Ready

----------------------------------------------------------------------------
(* Drawing in a graphics mode.                                             *)

SameSight(g, d) ==
  d.mode = g.mode /\ d.draw_page = g.draw_page /\ d.page1 = g.page1 /\ d.saved_fb = g.saved_fb
SameRaster(g, d) ==
  /\ d.mode = g.mode /\ d.pixel_scale = g.pixel_scale
  /\ d.virt_width = g.virt_width /\ d.virt_height = g.virt_height
  /\ d.offset_x = g.offset_x /\ d.offset_y = g.offset_y

(* Where something else is drawn, it is noted.                             *)
LEMMA NotedStep ==
  ASSUME NEW g, NEW c, NEW ink, Noted(g, c, ink),
         NEW d, SameSight(g, d), \A y \in Line : y \in Dirty(g) => y \in Dirty(d),
         NEW e, e.front = c.front, NEW jnk, ink \subseteq jnk,
         \A y \in Line : e.shadow[y] # c.shadow[y] => y \in jnk \union Dirty(d)
  PROVE  Noted(d, e, jnk)
BY DEF Noted, SameSight, Page

(* The cursor, the colour and the manner of drawing.                       *)
Styled(g, cursor, color, xor) ==
  [mode |-> g.mode, pixel_scale |-> g.pixel_scale,
   virt_width |-> g.virt_width, virt_height |-> g.virt_height,
   offset_x |-> g.offset_x, offset_y |-> g.offset_y,
   cursor |-> cursor, draw_color |-> color, draw_xor |-> xor,
   draw_page |-> g.draw_page, dirty_y0 |-> g.dirty_y0, dirty_y1 |-> g.dirty_y1,
   saved_fb |-> g.saved_fb, page1 |-> g.page1]

LEMMA StyledTidy ==
  ASSUME NEW g, Tidy(g), NEW cursor \in Int \X Int, NEW color, NEW xor, NEW d, d = Styled(g, cursor, color, xor)
  PROVE  Tidy(d) /\ SameSight(g, d) /\ SameRaster(g, d) /\ Dirty(d) = Dirty(g)
<1>1. d = [mode |-> g.mode, pixel_scale |-> g.pixel_scale,
           virt_width |-> g.virt_width, virt_height |-> g.virt_height,
           offset_x |-> g.offset_x, offset_y |-> g.offset_y,
           cursor |-> cursor, draw_color |-> color, draw_xor |-> xor,
           draw_page |-> g.draw_page, dirty_y0 |-> g.dirty_y0, dirty_y1 |-> g.dirty_y1,
           saved_fb |-> g.saved_fb, page1 |-> g.page1]
  BY DEF Styled
<1>2. SameSight(g, d) /\ SameRaster(g, d) /\ Dirty(d) = Dirty(g)
  BY <1>1 DEF SameSight, SameRaster, Dirty
<1>3. Tidy(d)
  BY <1>1 DEF Tidy, Geometry
<1> QED
  BY <1>2, <1>3

LEMMA StyledForms ==
  ASSUME NEW g, Tidy(g), NEW v
  PROVE  /\ At(g, v) = Styled(g, v, g.draw_color, g.draw_xor)
         /\ [g EXCEPT !.draw_color = v] = Styled(g, g.cursor, v, g.draw_xor)
         /\ [g EXCEPT !.draw_xor = v] = Styled(g, g.cursor, g.draw_color, v)
<1>1. ASSUME NEW d, d = At(g, v) PROVE d = Styled(g, v, g.draw_color, g.draw_xor)
  BY <1>1 DEF At, Styled, Tidy
<1>2. ASSUME NEW d, d = [g EXCEPT !.draw_color = v] PROVE d = Styled(g, g.cursor, v, g.draw_xor)
  BY <1>2 DEF Styled, Tidy
<1>3. ASSUME NEW d, d = [g EXCEPT !.draw_xor = v] PROVE d = Styled(g, g.cursor, g.draw_color, v)
  BY <1>3 DEF Styled, Tidy
<1> QED
  BY <1>1, <1>2, <1>3, Zenon

(* The lines marked.                                                       *)
MarkedFrom(g, a, b) ==
  [mode |-> g.mode, pixel_scale |-> g.pixel_scale,
   virt_width |-> g.virt_width, virt_height |-> g.virt_height,
   offset_x |-> g.offset_x, offset_y |-> g.offset_y,
   cursor |-> g.cursor, draw_color |-> g.draw_color, draw_xor |-> g.draw_xor,
   draw_page |-> g.draw_page, dirty_y0 |-> a, dirty_y1 |-> b,
   saved_fb |-> g.saved_fb, page1 |-> g.page1]

LEMMA MarkTidy ==
  ASSUME NEW g, Tidy(g), NEW a \in Nat, NEW b \in Nat, b <= fb_height,
         NEW d, d = MarkedFrom(g, a, b)
  PROVE  Tidy(d) /\ SameSight(g, d) /\ SameRaster(g, d) /\ Dirty(d) = a .. b - 1
<1>1. d = [mode |-> g.mode, pixel_scale |-> g.pixel_scale,
           virt_width |-> g.virt_width, virt_height |-> g.virt_height,
           offset_x |-> g.offset_x, offset_y |-> g.offset_y,
           cursor |-> g.cursor, draw_color |-> g.draw_color, draw_xor |-> g.draw_xor,
           draw_page |-> g.draw_page, dirty_y0 |-> a, dirty_y1 |-> b,
           saved_fb |-> g.saved_fb, page1 |-> g.page1]
  BY DEF MarkedFrom
<1>2. SameSight(g, d) /\ SameRaster(g, d) /\ Dirty(d) = a .. b - 1
  BY <1>1 DEF SameSight, SameRaster, Dirty
<1>3. Tidy(d)
  BY <1>1 DEF Tidy, Geometry
<1> QED
  BY <1>2, <1>3

LEMMA MarkForm ==
  ASSUME NEW g, Tidy(g), NEW a, NEW b, NEW d, d = [g EXCEPT !.dirty_y0 = a, !.dirty_y1 = b]
  PROVE  d = MarkedFrom(g, a, b)
BY DEF MarkedFrom, Tidy

LEMMA DirtyMark ==
  ASSUME NEW g, Tidy(g), NEW y0 \in Nat, NEW y1 \in Nat, y1 <= fb_height,
         NEW d, d = dirty_mark(g, y0, y1)
  PROVE  /\ Tidy(d) /\ SameSight(g, d) /\ SameRaster(g, d)
         /\ \A y \in Line : y \in Dirty(g) \/ y \in y0 .. y1 - 1 => y \in Dirty(d)
<1> DEFINE a == IF g.dirty_y0 = g.dirty_y1 \/ y0 <= g.dirty_y0 THEN y0 ELSE g.dirty_y0
           b == IF g.dirty_y0 = g.dirty_y1 \/ y1 >= g.dirty_y1 THEN y1 ELSE g.dirty_y1
<1>0. g.dirty_y0 \in Nat /\ g.dirty_y1 \in Nat /\ g.dirty_y1 <= fb_height
  BY DEF Tidy
<1>1. d = MarkedFrom(g, a, b)
  <2>1. CASE g.dirty_y0 = g.dirty_y1
    BY <2>1, MarkForm DEF dirty_mark
  <2>2. CASE g.dirty_y0 # g.dirty_y1
    <3>1. d = [g EXCEPT !.dirty_y0 = Min({g.dirty_y0, y0}), !.dirty_y1 = Max({g.dirty_y1, y1})]
      BY <2>2 DEF dirty_mark, Tidy
    <3>2. Min({g.dirty_y0, y0}) = a /\ Max({g.dirty_y1, y1}) = b
      BY <1>0, <2>2, MinPair, MaxPair
    <3> QED
      BY <3>1, <3>2, MarkForm
  <2> QED
    BY <2>1, <2>2
<1>2. /\ a \in Nat /\ b \in Nat /\ b <= fb_height
      /\ \A y \in Line : y \in Dirty(g) \/ y \in y0 .. y1 - 1 => y \in a .. b - 1
  BY <1>0, Sizes DEF Line, Dirty
<1> HIDE DEF a, b
<1>3. Tidy(d) /\ SameSight(g, d) /\ SameRaster(g, d) /\ Dirty(d) = a .. b - 1
  BY <1>1, <1>2, MarkTidy
<1> QED
  BY <1>2, <1>3

(* Pixels painted, which lie in lines.                                     *)
LEMMA PaintedLines ==
  ASSUME Ready(con, inked), NEW lit, NEW lines, \A x \in Col, y \in Line : <<x, y>> \in lit => y \in lines
  PROVE  \E p : /\ Picture(p) /\ Painted(lit) = [con EXCEPT !.shadow = p]
                /\ \A y \in Line : y \notin lines => p[y] = con.shadow[y]
<1> DEFINE p == [y \in Line |-> [x \in Col |->
                   IF <<x, y>> \in lit THEN Stroke(gfx, con.shadow[y][x]) ELSE con.shadow[y][x]]]
<1>1. Picture(p)
  BY DEF Picture
<1>2. Painted(lit) = [con EXCEPT !.shadow = p]
  BY DEF Painted
<1>3. ASSUME NEW y \in Line, y \notin lines PROVE p[y] = con.shadow[y]
  <2>1. \A x \in Col : <<x, y>> \notin lit
    BY <1>3
  <2>2. con.shadow[y] = [x \in Col |-> con.shadow[y][x]]
    BY DEF Ready, Safe, Picture
  <2> QED
    BY <2>1, <2>2
<1> HIDE DEF p
<1> QED
  BY <1>1, <1>2, <1>3

LEMMA PaintedNothing == ASSUME Ready(con, inked) PROVE Painted({}) = con
<1> DEFINE none == {}
<1>0. \A x \in Col, y \in Line : <<x, y>> \in none => y \in none
  OBVIOUS
<1>1. PICK p : /\ Picture(p) /\ Painted({}) = [con EXCEPT !.shadow = p]
               /\ \A y \in Line : y \notin {} => p[y] = con.shadow[y]
  <2> HIDE DEF none
  <2>1. \E p : /\ Picture(p) /\ Painted(none) = [con EXCEPT !.shadow = p]
               /\ \A y \in Line : y \notin none => p[y] = con.shadow[y]
    BY <1>0, PaintedLines
  <2> QED
    BY <2>1 DEF none
<1>2. con.shadow = [y \in Line |-> con.shadow[y]] /\ p = [y \in Line |-> p[y]]
  BY <1>1 DEF Ready, Safe, Picture
<1>3. p = con.shadow
  <2>1. \A y \in Line : p[y] = con.shadow[y]
    BY <1>1
  <2> QED
    BY ONLY <1>2, <2>1
<1> QED
  BY <1>1, <1>3 DEF Ready, Safe

(* In a graphics mode the lines painted are marked.                        *)
LEMMA PaintInv ==
  ASSUME ScreenInv, gfx.mode >= 2, Tidy(gfx'), SameSight(gfx, gfx'),
         NEW lines, \A y \in Line : y \in Dirty(gfx) \/ y \in lines => y \in Dirty(gfx'),
         NEW lit, \A x \in Col, y \in Line : <<x, y>> \in lit => y \in lines,
         con' = Painted(lit), inked' = inked, typed' = typed
  PROVE  ScreenInv' /\ TextUntouched
<1>1. Ready(con, inked) /\ con.graphics_active /\ Noted(gfx, con, inked)
  BY DEF ScreenInv, Good
<1>2. PICK p : /\ Picture(p) /\ con' = [con EXCEPT !.shadow = p]
               /\ \A y \in Line : y \notin lines => p[y] = con.shadow[y]
  BY <1>1, PaintedLines
<1>3. /\ Ready(con', inked') /\ con'.graphics_active /\ con'.shadow = p /\ con'.front = con.front
      /\ SameCursor(con, con')
  BY <1>1, <1>2, SetShadow
<1>4. Noted(gfx', con', inked')
  <2>1. \A y \in Line : con'.shadow[y] # con.shadow[y] => y \in inked' \union Dirty(gfx')
    BY <1>2, <1>3
  <2>2. inked \subseteq inked'
    OBVIOUS
  <2> QED
    BY <1>1, <1>3, <2>1, <2>2, NotedStep
<1>5. TextUntouched
  BY <1>3 DEF TextUntouched, TextPicture, SameSight
<1> QED
  BY <1>3, <1>4, <1>5 DEF ScreenInv, Good, SameSight

(* A stroke, whatever points it is made of.                                *)
LEMMA DrawInv ==
  ASSUME ScreenInv, NEW g, Tidy(g), SameSight(gfx, g), SameRaster(gfx, g), Dirty(g) = Dirty(gfx),
         NEW points, Draw(g, points)
  PROVE  ScreenInv' /\ TextUntouched
<1> DEFINE seen == {p \in points : OnScreen(g, p)}
           lines == UNION {LinesOf(g, p) : p \in seen}
           lit == UNION {PixelsOf(g, p) : p \in seen}
<1>1. /\ con' = Painted(lit)
      /\ gfx' = (IF seen = {} THEN g ELSE dirty_mark(g, Min(lines), Max(lines) + 1))
      /\ inked' = inked /\ typed' = typed
  BY DEF Draw
<1>2. Ready(con, inked) /\ Tidy(gfx) /\ (con.graphics_active <=> gfx.mode >= 2) /\ Noted(gfx, con, inked)
  BY DEF ScreenInv, Good
<1>3. ASSUME NEW x, NEW y, <<x, y>> \in lit PROVE y \in lines
  <2>1. PICK p \in seen : <<x, y>> \in PixelsOf(g, p)
    BY <1>3
  <2>2. y \in LinesOf(g, p)
    BY <2>1 DEF PixelsOf
  <2> QED
    BY <2>2
<1>4. CASE gfx.mode < 2
  <2>0. ~(gfx.mode >= 2)
    BY <1>2, <1>4 DEF Tidy
  <2>1. seen = {}
    <3>1. g.virt_width = 0
      BY <1>2, <1>4 DEF Tidy, SameRaster
    <3> QED
      BY <3>1 DEF OnScreen
  <2>2. con' = con
    <3>1. lit = {}
      BY <2>1
    <3> HIDE DEF lit
    <3> QED
      BY <1>1, <1>2, <3>1, PaintedNothing
  <2>3. gfx' = g
    BY <1>1, <2>1
  <2>4. Noted(g, con, inked)
    BY <1>2, <1>4 DEF Noted, SameSight, Tidy
  <2>5. TextUntouched
    BY <1>1, <2>0, <2>2, <2>3 DEF TextUntouched, TextPicture, SameSight, SameCursor
  <2> QED
    BY <1>1, <1>2, <2>2, <2>3, <2>4, <2>5 DEF ScreenInv, Good, SameSight
<1>5. CASE gfx.mode >= 2
  <2>1. Geometry(g)
    BY <1>5 DEF Tidy, SameSight
  <2>2. ASSUME NEW p \in seen
        PROVE  LinesOf(g, p) # {} /\ \A y \in LinesOf(g, p) : y \in Nat /\ y < fb_height
    <3>1. p[2] \in 0 .. g.virt_height - 1
      BY DEF OnScreen
    <3> QED
      BY <2>1, <3>1, BlockWithin, Sizes DEF Geometry, LinesOf
  <2>3. lines \in SUBSET Nat /\ (\A y \in lines : y < fb_height) /\ (seen # {} => lines # {})
    <3> HIDE DEF seen
    <3> QED
      BY <2>2
  <2> HIDE DEF lines, lit
  <2>4. /\ Tidy(gfx') /\ SameSight(g, gfx')
        /\ \A y \in Line : y \in Dirty(g) \/ y \in lines => y \in Dirty(gfx')
    <3>1. CASE seen = {}
      <4>1. lines = {} /\ gfx' = g
        BY <1>1, <3>1 DEF lines
      <4> QED
        BY <4>1 DEF SameSight
    <3>2. CASE seen # {}
      <4> DEFINE y0 == Min(lines)
                 y1 == Max(lines) + 1
      <4>1. y0 \in Nat /\ y1 \in Nat /\ y1 <= fb_height /\ \A y \in lines : y \in y0 .. y1 - 1
        <5>1. /\ Min(lines) \in Nat /\ Max(lines) \in Nat /\ Min(lines) <= Max(lines) /\ Max(lines) + 1 <= fb_height
              /\ \A o \in lines : Min(lines) <= o /\ o <= Max(lines)
          BY <2>3, <3>2, Ends, Sizes
        <5> QED
          BY <2>3, <5>1
      <4>2. gfx' = dirty_mark(g, y0, y1)
        BY <1>1, <3>2
      <4> HIDE DEF y0, y1
      <4>3. /\ Tidy(gfx') /\ SameSight(g, gfx')
            /\ \A y \in Line : y \in Dirty(g) \/ y \in y0 .. y1 - 1 => y \in Dirty(gfx')
        BY <4>1, <4>2, DirtyMark
      <4> QED
        BY <4>1, <4>3
    <3> QED
      BY <3>1, <3>2
  <2>5. SameSight(gfx, gfx') /\ \A y \in Line : y \in Dirty(gfx) \/ y \in lines => y \in Dirty(gfx')
    BY <2>4 DEF SameSight
  <2>6. \A x \in Col, y \in Line : <<x, y>> \in lit => y \in lines
    BY <1>3
  <2>7. ScreenInv /\ gfx.mode >= 2 /\ con' = Painted(lit) /\ inked' = inked /\ typed' = typed
    BY <1>1, <1>5
  <2> QED
    BY ONLY <2>4, <2>5, <2>6, <2>7, PaintInv, SMT
<1>6. gfx.mode \in Nat
  BY <1>2 DEF Tidy
<1> QED
  BY <1>4, <1>5, <1>6

----------------------------------------------------------------------------
(* Statements that draw, and those that change how to draw.                *)

LEMMA PointInt == Point \subseteq Int \X Int
BY GraphicsAssumption DEF Coordinate

LEMMA StyledStep ==
  ASSUME ScreenInv, NEW cursor \in Int \X Int, NEW color, NEW xor, Adjust(Styled(gfx, cursor, color, xor))
  PROVE  ScreenInv' /\ TextUntouched
<1> DEFINE d == Styled(gfx, cursor, color, xor)
<1>1. gfx' = d /\ con' = con /\ inked' = inked /\ typed' = typed
  BY DEF Adjust
<1>2. Ready(con, inked) /\ Tidy(gfx) /\ (con.graphics_active <=> gfx.mode >= 2) /\ Noted(gfx, con, inked)
  BY DEF ScreenInv, Good
<1>3. Tidy(d) /\ SameSight(gfx, d) /\ Dirty(d) = Dirty(gfx)
  BY <1>2, StyledTidy
<1> HIDE DEF d
<1>4. Noted(d, con, inked)
  BY <1>2, <1>3 DEF Noted, SameSight, Page
<1>5. TextUntouched
  BY <1>1, <1>3 DEF TextUntouched, TextPicture, SameSight, SameCursor
<1> QED
  BY <1>1, <1>2, <1>3, <1>4, <1>5 DEF ScreenInv, Good, SameSight

LEMMA AtKeeps ==
  ASSUME NEW g, Tidy(g), NEW p \in Int \X Int
  PROVE  Tidy(At(g, p)) /\ SameSight(g, At(g, p)) /\ SameRaster(g, At(g, p)) /\ Dirty(At(g, p)) = Dirty(g)
<1> DEFINE d == At(g, p)
<1>1. d = Styled(g, p, g.draw_color, g.draw_xor)
  BY StyledForms
<1> HIDE DEF d
<1>2. Tidy(d) /\ SameSight(g, d) /\ SameRaster(g, d) /\ Dirty(d) = Dirty(g)
  BY <1>1, StyledTidy
<1> QED
  BY <1>2 DEF d

LEMMA DrawAt ==
  ASSUME ScreenInv, NEW p \in Int \X Int, NEW points, Draw(At(gfx, p), points)
  PROVE  ScreenInv' /\ TextUntouched
<1> DEFINE g == At(gfx, p)
<1>1. Tidy(g) /\ SameSight(gfx, g) /\ SameRaster(gfx, g) /\ Dirty(g) = Dirty(gfx)
  BY AtKeeps DEF ScreenInv, Good
<1>2. Draw(g, points)
  OBVIOUS
<1> HIDE DEF g
<1> QED
  BY <1>1, <1>2, DrawInv

----------------------------------------------------------------------------
(* FILLTO, which draws in a text mode too.                                 *)

LEMMA LowNat == ASSUME NEW a \in Int, NEW b \in Int PROVE Low(a, b) \in Nat
<1> DEFINE m == Min({a, b})
<1>1. m \in Int
  BY MinPair
<1>2. Low(a, b) = Max({m, 0})
  BY DEF Low
<1> HIDE DEF m
<1> QED
  BY <1>1, <1>2, MaxPair

LEMMA HighWithin ==
  ASSUME NEW a \in Int, NEW b \in Int, NEW n \in Nat
  PROVE  High(a, b, n) \in 0 .. (IF n = 0 THEN 0 ELSE n - 1)
<1> DEFINE m == Max({a, b})
           end == Max({n - 1, 0})
<1>1. m \in Int /\ end = IF n = 0 THEN 0 ELSE n - 1
  BY MaxPair
<1>2. High(a, b, n) = IF m < 0 THEN end ELSE Min({m, end})
  BY DEF High
<1> HIDE DEF m, end
<1>3. end \in Nat
  BY <1>1
<1>4. Min({m, end}) = IF m <= end THEN m ELSE end
  BY <1>1, <1>3, MinPair
<1> QED
  BY <1>1, <1>2, <1>3, <1>4

LEMMA StripWithin ==
  ASSUME NEW o \in Nat, NEW n \in Nat, NEW s \in Nat, NEW a \in Nat, o + n * s <= a, NEW i \in 0 .. n - 1
  PROVE  o + (i + 1) * s \in Nat /\ o + (i + 1) * s <= a
<1>1. i + 1 \in Nat /\ n - 1 - i \in Nat /\ (i + 1) * s \in Nat /\ (n - 1 - i) * s \in Nat
  OBVIOUS
<1>2. (n - 1 - i) * s = n * s - (i + 1) * s /\ n * s \in Nat
  BY <1>1
<1> QED
  BY <1>1, <1>2

(* The lines it marks end on the screen.                                   *)
LEMMA FilledLines ==
  ASSUME NEW g, Tidy(g), NEW a \in Int, NEW b \in Int
  PROVE  /\ g.offset_y + Low(a, b) * g.pixel_scale \in Nat
         /\ g.offset_y + (High(a, b, g.virt_height) + 1) * g.pixel_scale \in Nat
         /\ g.offset_y + (High(a, b, g.virt_height) + 1) * g.pixel_scale <= fb_height
<1> DEFINE top == Low(a, b)
           bottom == High(a, b, g.virt_height)
<1>1. fb_height \in Nat /\ g.mode \in Nat /\ g.offset_y \in Nat /\ g.offset_y < fb_height
  BY Sizes DEF Tidy
<1>2. CASE g.mode < 2
  <2>1. g.virt_height = 0 /\ g.pixel_scale = 1
    BY <1>2 DEF Tidy
  <2>2. top \in Nat /\ bottom = 0
    <3> DEFINE n == g.virt_height
    <3>1. n \in Nat /\ n = 0
      BY <2>1
    <3> HIDE DEF n
    <3>2. High(a, b, n) \in 0 .. (IF n = 0 THEN 0 ELSE n - 1)
      BY <3>1, HighWithin
    <3>3. High(a, b, n) = 0
      BY <3>1, <3>2
    <3> QED
      BY <3>3, LowNat DEF n
  <2> HIDE DEF top, bottom
  <2>3. g.offset_y + top * g.pixel_scale \in Nat /\ g.offset_y + (bottom + 1) * g.pixel_scale = g.offset_y + 1
    BY <1>1, <2>1, <2>2
  <2> QED
    BY <1>1, <2>3 DEF top, bottom
<1>3. CASE g.mode >= 2
  <2>1. Geometry(g)
    BY <1>3 DEF Tidy
  <2>2. top \in Nat /\ bottom \in 0 .. g.virt_height - 1
    <3> DEFINE n == g.virt_height
    <3>1. n \in Nat /\ n # 0
      BY <2>1 DEF Geometry
    <3> HIDE DEF n
    <3>2. High(a, b, n) \in 0 .. (IF n = 0 THEN 0 ELSE n - 1)
      BY <3>1, HighWithin
    <3>3. High(a, b, n) \in 0 .. n - 1
      BY <3>1, <3>2
    <3> QED
      BY <3>3, LowNat DEF n
  <2> HIDE DEF top, bottom
  <2>3. g.offset_y + top * g.pixel_scale \in Nat
    BY <2>1, <2>2 DEF Geometry
  <2>4. g.offset_y + (bottom + 1) * g.pixel_scale \in Nat /\ g.offset_y + (bottom + 1) * g.pixel_scale <= fb_height
    BY <1>1, <2>1, <2>2, StripWithin DEF Geometry
  <2> QED
    BY <2>3, <2>4 DEF top, bottom
<1> QED
  BY <1>1, <1>2, <1>3

(* Lines in which others draw are strays.                                  *)
LEMMA StrayReady ==
  ASSUME NEW ink, NEW c, Ready(c, ink), NEW p, Picture(p), NEW d, d = [c EXCEPT !.shadow = p],
         NEW stray, stray = ink \union {y \in Line : p[y] # c.shadow[y]}
  PROVE  Ready(d, stray) /\ d.graphics_active = c.graphics_active
<1>1. Safe(c) /\ Parsing(c) /\ ~c.flush_held /\ AllShown(c, ink)
  BY DEF Ready
<1>2. Safe(d) /\ d.shadow = p /\ SameFlush(c, d) /\ SameCursor(c, d) /\ SameVt(c, d)
  BY <1>1, Redraw
<1>3. \A y \in Line : Fresh(c, y, ink) => Fresh(d, y, stray)
  BY <1>2 DEF Fresh, Due, SameFlush
<1>4. AllShown(d, stray)
  <2>1. Foot(c) \in Line /\ Foot(d) = Foot(c) /\ \A row \in Row : Body(row) \in Line
    BY <1>1, <1>2, RowLines DEF Foot, Safe, SameCursor
  <2>2. CursorFresh(c, ink) => CursorFresh(d, stray)
    BY <1>2, <2>1 DEF CursorFresh, Due, SameFlush, SameCursor
  <2> QED
    BY <1>1, <1>2, <1>3, <2>1, <2>2 DEF AllShown, BodiesShown, SameFlush
<1>5. Parsing(d) /\ ~d.flush_held /\ d.graphics_active = c.graphics_active
  BY <1>1, <1>2 DEF Parsing, SameFlush, SameVt
<1> QED
  BY <1>2, <1>4, <1>5 DEF Ready

LEMMA FillInv ==
  ASSUME ScreenInv, NEW p \in Int \X Int, fillto(p)
  PROVE  ScreenInv' /\ (TextUntouched \/ typed' = Moved)
<1> DEFINE left   == Low(gfx.cursor[1], p[1])
           right  == High(gfx.cursor[1], p[1], gfx.virt_width)
           x0     == gfx.offset_x + left * gfx.pixel_scale
           x1     == gfx.offset_x + (right + 1) * gfx.pixel_scale
           cols   == x0 .. x1 - 1
           y0     == gfx.offset_y + Low(gfx.cursor[2], p[2]) * gfx.pixel_scale
           y1     == gfx.offset_y + (High(gfx.cursor[2], p[2], gfx.virt_height) + 1) * gfx.pixel_scale
           lines  == y0 .. y1 - 1
           lit    == cols \X lines
           g      == At(gfx, p)
<1>1. /\ con' = Painted(lit) /\ gfx' = dirty_mark(g, y0, y1)
      /\ Active => typed' = typed /\ inked' = inked
      /\ ~Active => /\ inked' = inked \union {y \in Line : con'.shadow[y] # con.shadow[y]}
                    /\ typed' = IF con' = con THEN typed ELSE Moved
  <2>1. con' = Painted(lit)
    BY DEF fillto
  <2>3. gfx' = dirty_mark(g, y0, y1)
    BY DEF fillto
  <2>2. IF Active THEN UNCHANGED <<typed, inked>>
        ELSE /\ inked' = inked \union {y \in Line : con'.shadow[y] # con.shadow[y]}
             /\ typed' = IF con' = con THEN typed ELSE Moved
    BY DEF fillto
  <2> QED
    BY <2>1, <2>2, <2>3 DEF Active
<1>2. Ready(con, inked) /\ Tidy(gfx) /\ (con.graphics_active <=> gfx.mode >= 2) /\ Noted(gfx, con, inked)
  BY DEF ScreenInv, Good
<1>3. y0 \in Nat /\ y1 \in Nat /\ y1 <= fb_height
  <2>1. gfx.cursor[2] \in Int /\ p[2] \in Int
    BY <1>2 DEF Tidy
  <2> QED
    BY <1>2, <2>1, FilledLines
<1>4. \A x \in Col, y \in Line : <<x, y>> \in lit => y \in lines
  OBVIOUS
<1>5. Tidy(g) /\ SameSight(gfx, g) /\ Dirty(g) = Dirty(gfx)
  BY <1>2, AtKeeps
<1> HIDE DEF x0, x1, y0, y1, cols, g
<1>6. /\ Tidy(gfx') /\ SameSight(g, gfx')
      /\ \A y \in Line : y \in Dirty(g) \/ y \in lines => y \in Dirty(gfx')
  BY <1>1, <1>3, <1>5, DirtyMark
<1>7. SameSight(gfx, gfx') /\ \A y \in Line : y \in Dirty(gfx) \/ y \in lines => y \in Dirty(gfx')
  BY <1>5, <1>6 DEF SameSight
<1> HIDE DEF lit, lines
<1>8. CASE gfx.mode >= 2
  <2>1. inked' = inked /\ typed' = typed
    BY <1>1, <1>8 DEF Active
  <2> QED
    BY <1>1, <1>4, <1>6, <1>7, <1>8, <2>1, PaintInv
<1>9. CASE ~(gfx.mode >= 2)
  <2>1. /\ inked' = inked \union {y \in Line : con'.shadow[y] # con.shadow[y]}
        /\ typed' = IF con' = con THEN typed ELSE Moved
    BY <1>1, <1>9 DEF Active
  <2>2. PICK pic : Picture(pic) /\ con' = [con EXCEPT !.shadow = pic]
    BY <1>1, <1>2, <1>4, PaintedLines
  <2>3. con'.shadow = pic
    BY <1>2, <2>2 DEF Ready, Safe
  <2>4. Ready(con', inked') /\ con'.graphics_active = con.graphics_active
    <3>1. inked' = inked \union {y \in Line : pic[y] # con.shadow[y]}
      BY <2>1, <2>3
    <3> QED
      BY <1>2, <2>2, <3>1, StrayReady
  <2>5. gfx'.mode = gfx.mode
    BY <1>7 DEF SameSight
  <2>6. ScreenInv'
    BY <1>2, <1>6, <1>9, <2>4, <2>5 DEF ScreenInv, Good, Noted
  <2>7. con' = con => TextUntouched
    BY <1>9, <2>1, <2>5 DEF TextUntouched, TextPicture, SameCursor
  <2> QED
    BY <2>1, <2>6, <2>7
<1> QED
  BY <1>8, <1>9

(* All of them.                                                            *)
LEMMA StrokingInv == ASSUME ScreenInv, Stroking PROVE ScreenInv' /\ (TextUntouched \/ typed' = Moved)
<1>0. Tidy(gfx) /\ gfx.cursor \in Int \X Int /\ Point \subseteq Int \X Int
  BY PointInt DEF ScreenInv, Good, Tidy
<1>1. ASSUME NEW p \in Point, plot(p) PROVE ScreenInv' /\ TextUntouched
  BY <1>0, <1>1, DrawAt DEF plot
<1>2. ASSUME NEW p \in Point, drawto(p) PROVE ScreenInv' /\ TextUntouched
  BY <1>0, <1>2, DrawAt DEF drawto
<1>3. ASSUME NEW p \in Point, fillto(p) PROVE ScreenInv' /\ (TextUntouched \/ typed' = Moved)
  BY <1>0, <1>3, FillInv
<1>4. ASSUME text(<<"g", "g">>) PROVE ScreenInv' /\ TextUntouched
  <2>1. <<gfx.cursor[1] + Len(<<"g", "g">>), gfx.cursor[2]>> \in Int \X Int
    BY <1>0
  <2> QED
    BY <1>4, <2>1, DrawAt DEF text
<1>5. ASSUME NEW p \in Point, pos(p) PROVE ScreenInv' /\ TextUntouched
  <2>1. Adjust(Styled(gfx, p, gfx.draw_color, gfx.draw_xor))
    BY <1>0, <1>5, StyledForms DEF pos
  <2> QED
    BY <1>0, <2>1, StyledStep
<1>6. ASSUME NEW ink, set_color(ink) PROVE ScreenInv' /\ TextUntouched
  <2>1. Adjust(Styled(gfx, gfx.cursor, ink, gfx.draw_xor))
    BY <1>0, <1>6, StyledForms DEF set_color
  <2> QED
    BY <1>0, <2>1, StyledStep
<1>7. ASSUME NEW xor, set_draw_mode(xor) PROVE ScreenInv' /\ TextUntouched
  <2>1. Adjust(Styled(gfx, gfx.cursor, gfx.draw_color, xor))
    BY <1>0, <1>7, StyledForms DEF set_draw_mode
  <2> QED
    BY <1>0, <2>1, StyledStep
<1> QED
  BY <1>1, <1>2, <1>3, <1>4, <1>5, <1>6, <1>7 DEF Stroking

----------------------------------------------------------------------------
(* The console's operations, which mark nothing.                           *)

LEMMA InkingInv ==
  ASSUME ScreenInv, Ready(con', inked), Kept(con, con'), gfx' = gfx, Inking
  PROVE  ScreenInv'
<1>1. Tidy(gfx) /\ (con.graphics_active <=> gfx.mode >= 2) /\ Noted(gfx, con, inked)
  BY DEF ScreenInv, Good
<1>2. CASE gfx.mode >= 2
  <2>1. con'.front = con.front /\ con'.graphics_active
    BY <1>1, <1>2 DEF Kept
  <2>2. inked' = inked \union {y \in Line : con'.shadow[y] # con.shadow[y]}
    BY <1>2 DEF Inking, Active
  <2>3. Noted(gfx, con', inked')
    BY <1>1, <1>2, <2>1, <2>2 DEF Noted, Page
  <2>4. Ready(con', inked')
    BY <2>1, ReadyInGraphics DEF Ready
  <2> QED
    BY <1>1, <2>3, <2>4 DEF ScreenInv, Good, Kept
<1>3. CASE ~(gfx.mode >= 2)
  <2>1. inked' = {y \in inked : con'.front[y] # con'.shadow[y]}
    BY <1>3 DEF Inking, Active
  <2>2. \A y \in Line : Fresh(con', y, inked) => Fresh(con', y, inked')
    BY <2>1 DEF Fresh
  <2>3. BodiesShown(con', inked) => BodiesShown(con', inked')
    BY <2>2, RowLines DEF BodiesShown
  <2>4. CursorFresh(con', inked) => CursorFresh(con', inked')
    BY <2>1 DEF CursorFresh
  <2>5. Ready(con', inked')
    BY <2>3, <2>4 DEF Ready, AllShown
  <2> QED
    BY <1>1, <1>3, <2>5 DEF ScreenInv, Good, Noted, Kept
<1> QED
  BY <1>2, <1>3

LEMMA EchoInv == ASSUME ScreenInv, Echo PROVE ScreenInv'
<1>1. Ready(con, inked)
  BY DEF ScreenInv, Good
<1>2. Ready(con', inked) /\ Kept(con, con')
  BY <1>1, ConsoleSteps DEF Echo, ConsoleNext
<1> QED
  BY <1>2, InkingInv DEF Echo

LEMMA SayInv == ASSUME ScreenInv, Say PROVE ScreenInv'
<1>1. Ready(con, inked)
  BY DEF ScreenInv, Good
<1>2. Ready(con', inked) /\ Kept(con, con')
  BY <1>1, ConsoleSteps DEF Say, ConsoleNext
<1> QED
  BY <1>2, InkingInv DEF Say

----------------------------------------------------------------------------
(* Showing.                                                                *)

(* The page turned, p being what the second one holds then.                *)
Turned(g, page, p) ==
  [mode |-> g.mode, pixel_scale |-> g.pixel_scale,
   virt_width |-> g.virt_width, virt_height |-> g.virt_height,
   offset_x |-> g.offset_x, offset_y |-> g.offset_y,
   cursor |-> g.cursor, draw_color |-> g.draw_color, draw_xor |-> g.draw_xor,
   draw_page |-> page, dirty_y0 |-> 0, dirty_y1 |-> 0,
   saved_fb |-> g.saved_fb, page1 |-> p]

LEMMA TurnedTidy ==
  ASSUME NEW g, Tidy(g), NEW page \in {0, 1}, ~can_flip => page = 0, NEW p, NEW d, d = Turned(g, page, p)
  PROVE  /\ Tidy(d) /\ d.mode = g.mode /\ d.draw_page = page /\ d.page1 = p /\ d.saved_fb = g.saved_fb
<1>1. d = [mode |-> g.mode, pixel_scale |-> g.pixel_scale,
           virt_width |-> g.virt_width, virt_height |-> g.virt_height,
           offset_x |-> g.offset_x, offset_y |-> g.offset_y,
           cursor |-> g.cursor, draw_color |-> g.draw_color, draw_xor |-> g.draw_xor,
           draw_page |-> page, dirty_y0 |-> 0, dirty_y1 |-> 0,
           saved_fb |-> g.saved_fb, page1 |-> p]
  BY DEF Turned
<1>2. Tidy(d)
  BY <1>1, Sizes DEF Tidy, Geometry
<1> QED
  BY <1>1, <1>2

LEMMA TurnForm ==
  ASSUME NEW g, Tidy(g), NEW page, NEW p,
         NEW d, d = [g EXCEPT !.draw_page = page, !.dirty_y0 = 0, !.dirty_y1 = 0, !.page1 = p]
  PROVE  d = Turned(g, page, p)
BY DEF Turned, Tidy

(* Each page is turned to when it is complete, or the marked lines of the  *)
(* one page are made so.                                                   *)
LEMMA PresentShows ==
  ASSUME NEW g, NEW c, NEW ink, Good(g, c, ink), g.mode >= 2,
         NEW s, s = [g |-> g, c |-> c], NEW t, t = present(s)
  PROVE  /\ Good(t.g, t.c, IF can_flip THEN {} ELSE ink \ Dirty(g))
         /\ SameMode(g, c, t)
<1>1. Ready(c, ink) /\ Tidy(g) /\ c.graphics_active /\ Noted(g, c, ink) /\ s.g = g /\ s.c = c /\ ~(g.mode < 2)
  BY DEF Good, Tidy
<1>2. CASE can_flip /\ g.draw_page = 0
  <2> DEFINE page == 1 - g.draw_page
             d == [g EXCEPT !.draw_page = page, !.dirty_y0 = 0, !.dirty_y1 = 0, !.page1 = c.shadow]
  <2>0. Tidy(g)
    BY <1>1
  <2>1. t.g = d /\ t.c = c /\ page = 1
    <3>1. t = [g |-> [g EXCEPT !.draw_page = 1 - @, !.dirty_y0 = 0, !.dirty_y1 = 0, !.page1 = c.shadow], c |-> c]
      BY <1>1, <1>2 DEF present
    <3>2. [g EXCEPT !.draw_page = 1 - @, !.dirty_y0 = 0, !.dirty_y1 = 0, !.page1 = c.shadow] = d
      BY <1>1 DEF Tidy
    <3>3. t.g = [g EXCEPT !.draw_page = 1 - @, !.dirty_y0 = 0, !.dirty_y1 = 0, !.page1 = c.shadow] /\ t.c = c
      BY <3>1
    <3>4. page = 1
      BY <1>2
    <3> HIDE DEF d, page
    <3> QED
      BY <3>2, <3>3, <3>4
  <2> HIDE DEF page
  <2>2. t.g = Turned(g, 1, c.shadow) /\ t.c = c
    <3>1. d = Turned(g, page, c.shadow)
      BY ONLY <2>0, TurnForm
    <3> HIDE DEF d
    <3> QED
      BY <2>1, <3>1
  <2>3. Tidy(t.g) /\ t.g.mode = g.mode /\ t.g.draw_page = 1 /\ t.g.page1 = c.shadow /\ t.g.saved_fb = g.saved_fb
    BY <1>1, <1>2, <2>2, TurnedTidy
  <2>4. Noted(t.g, t.c, {})
    BY <2>2, <2>3 DEF Noted, Page
  <2>5. Ready(t.c, {})
    BY <1>1, <2>2, AnyStray
  <2> QED
    BY <1>1, <1>2, <2>2, <2>3, <2>4, <2>5 DEF Good, SameCursor, SameMode
<1>3. CASE can_flip /\ g.draw_page # 0
  <2> DEFINE page == 1 - g.draw_page
             d == [g EXCEPT !.draw_page = page, !.dirty_y0 = 0, !.dirty_y1 = 0, !.page1 = g.page1]
  <2>0. Tidy(g)
    BY <1>1
  <2>1. t.g = d /\ t.c = CopyLines(c, Line) /\ page = 0
    BY <1>1, <1>3 DEF present, Tidy
  <2> HIDE DEF page
  <2>2. t.g = Turned(g, 0, g.page1) /\ t.c = CopyLines(c, Line)
    <3>1. d = Turned(g, page, g.page1)
      BY ONLY <2>0, TurnForm
    <3> HIDE DEF d
    <3> QED
      BY <2>1, <3>1
  <2>3. Tidy(t.g) /\ t.g.mode = g.mode /\ t.g.draw_page = 0 /\ t.g.saved_fb = g.saved_fb
    BY <1>1, <1>3, <2>2, TurnedTidy
  <2>4. /\ Ready(t.c, ink) /\ t.c.graphics_active /\ t.c.shadow = c.shadow /\ SameCursor(c, t.c)
        /\ \A y \in Line : t.c.front[y] = c.shadow[y]
    BY <1>1, <2>2, ShowLines
  <2>5. Noted(t.g, t.c, {})
    BY <2>3, <2>4 DEF Noted, Page
  <2>6. Ready(t.c, {})
    BY <2>4, AnyStray
  <2> QED
    BY <1>1, <1>3, <2>3, <2>4, <2>5, <2>6 DEF Good, SameMode
<1>4. CASE ~can_flip /\ g.dirty_y0 >= g.dirty_y1
  <2>1. t = s
    BY <1>1, <1>4 DEF present
  <2>2. Dirty(g) = {}
    BY <1>1, <1>4 DEF Tidy, Dirty
  <2> QED
    BY <1>1, <1>4, <2>1, <2>2 DEF SameMode, SameCursor
<1>5. CASE ~can_flip /\ ~(g.dirty_y0 >= g.dirty_y1)
  <2> DEFINE lines == g.dirty_y0 .. g.dirty_y1 - 1
  <2>1. t = [g |-> [g EXCEPT !.dirty_y0 = 0, !.dirty_y1 = 0], c |-> CopyLines(c, lines)]
    BY <1>1, <1>5 DEF present
  <2>2. t.g = MarkedFrom(g, 0, 0) /\ t.c = CopyLines(c, lines) /\ lines = Dirty(g)
    <3> DEFINE d == [g EXCEPT !.dirty_y0 = 0, !.dirty_y1 = 0]
    <3>1. t.g = d /\ t.c = CopyLines(c, lines) /\ lines = Dirty(g)
      BY <2>1 DEF Dirty
    <3>0. Tidy(g)
      BY <1>1
    <3>2. d = MarkedFrom(g, 0, 0)
      BY ONLY <3>0, MarkForm
    <3> HIDE DEF d, lines
    <3> QED
      BY ONLY <3>1, <3>2
  <2>3. Tidy(t.g) /\ SameSight(g, t.g)
    BY <1>1, <2>2, MarkTidy, Sizes
  <2> HIDE DEF lines
  <2>4. /\ Ready(t.c, ink) /\ t.c.graphics_active /\ t.c.shadow = c.shadow /\ SameCursor(c, t.c)
        /\ \A y \in Line : t.c.front[y] = IF y \in lines THEN c.shadow[y] ELSE c.front[y]
    BY <1>1, <2>2, ShowLines
  <2>5. g.draw_page = 0
    BY <1>1, <1>5 DEF Tidy
  <2>6. Noted(t.g, t.c, ink \ Dirty(g))
    BY <1>1, <2>2, <2>3, <2>4, <2>5 DEF Noted, Page, SameSight
  <2>7. Ready(t.c, ink \ Dirty(g))
    BY <2>4, AnyStray
  <2> QED
    BY <1>1, <1>5, <2>3, <2>4, <2>6, <2>7 DEF Good, SameSight, SameMode
<1>6. g.draw_page = 0 \/ g.draw_page # 0
  OBVIOUS
<1> QED
  BY <1>2, <1>3, <1>4, <1>5, <1>6

LEMMA ClearMarks ==
  ASSUME NEW g, Tidy(g), g.mode >= 2, NEW ink, NEW c, Ready(c, ink), c.graphics_active,
         NEW s, s = [g |-> g, c |-> c], NEW t, t = clear_buffer(s)
  PROVE  /\ Good(t.g, t.c, {}) /\ t = [g |-> t.g, c |-> t.c]
         /\ t.g.mode = g.mode /\ t.g.saved_fb = g.saved_fb /\ SameCursor(c, t.c)
<1>1. t = [g |-> [g EXCEPT !.dirty_y0 = 0, !.dirty_y1 = fb_height], c |-> [c EXCEPT !.shadow = Empty]]
  BY DEF clear_buffer
<1> DEFINE d == [g EXCEPT !.dirty_y0 = 0, !.dirty_y1 = fb_height]
<1>2. t.g = d /\ t.c = [c EXCEPT !.shadow = Empty]
  BY <1>1
<1>3. Tidy(t.g) /\ SameSight(g, t.g) /\ Dirty(t.g) = 0 .. fb_height - 1
  <2>1. d = MarkedFrom(g, 0, fb_height)
    BY MarkForm
  <2>2. 0 \in Nat /\ fb_height \in Nat /\ 0 <= fb_height /\ fb_height <= fb_height
    BY Sizes
  <2> HIDE DEF d
  <2>3. Tidy(d) /\ SameSight(g, d) /\ Dirty(d) = 0 .. fb_height - 1
    BY <2>1, <2>2, MarkTidy
  <2> QED
    BY <1>2, <2>3
<1>4. Ready(t.c, {}) /\ t.c.graphics_active /\ SameCursor(c, t.c)
  BY <1>2, EmptyPicture, SetShadow
<1>5. Noted(t.g, t.c, {})
  BY <1>3 DEF Noted, Line
<1> QED
  BY <1>1, <1>3, <1>4, <1>5 DEF Good, SameSight

LEMMA Renewed ==
  ASSUME NEW g, Tidy(g), g.mode >= 2, NEW ink, NEW c, Ready(c, ink), c.graphics_active,
         NEW s, s = [g |-> g, c |-> c], NEW t, t = present(clear_buffer(s))
  PROVE  Good(t.g, t.c, {}) /\ t.g.mode = g.mode /\ t.g.saved_fb = g.saved_fb /\ SameCursor(c, t.c)
<1> DEFINE r == clear_buffer(s)
<1>1. /\ Good(r.g, r.c, {}) /\ r.g.mode >= 2 /\ r = [g |-> r.g, c |-> r.c]
      /\ r.g.mode = g.mode /\ r.g.saved_fb = g.saved_fb /\ SameCursor(c, r.c)
  BY ClearMarks
<1> HIDE DEF r
<1>2. t = present(r)
  BY DEF r
<1>3. /\ Good(t.g, t.c, IF can_flip THEN {} ELSE {} \ Dirty(r.g))
      /\ SameMode(r.g, r.c, t)
  BY <1>1, <1>2, PresentShows
<1>4. (IF can_flip THEN {} ELSE {} \ Dirty(r.g)) = {}
  OBVIOUS
<1> QED
  BY <1>1, <1>3, <1>4 DEF SameCursor, SameMode

----------------------------------------------------------------------------
(* Modes.                                                                  *)

(* In every mode the virtual pixels fit the screen.                        *)
LEMMA VirtualRes ==
  ASSUME NEW g, Tidy(g), NEW mode \in 2 .. 5, NEW d, d = setup_virtual_res(g, mode)
  PROVE  Tidy(d) /\ d.mode = mode /\ d.saved_fb = g.saved_fb
<1> DEFINE s == Scaled(mode)
<1>1. s \in Nat /\ s # 0 /\ s <= fb_width /\ s <= fb_height
  <2>1. s <= fb_height
    BY GeometryAssumption
  <2>2. MODE_TARGET_WIDTH[mode] \in Nat
    BY GraphicsAssumption
  <2>3. CASE mode = 5 \/ MODE_TARGET_WIDTH[mode] = 0
    <3>1. s = 1
      BY <2>3 DEF Scaled
    <3> QED
      BY <2>1, <3>1, Sizes
  <2>4. CASE ~(mode = 5 \/ MODE_TARGET_WIDTH[mode] = 0)
    <3> DEFINE target == MODE_TARGET_WIDTH[mode]
               q == fb_width \div target
    <3>1. s = Max({q, 1})
      BY <2>4 DEF Scaled
    <3>2. target \in Nat /\ target # 0
      BY <2>2, <2>4
    <3> HIDE DEF target
    <3>3. q \in Nat /\ q <= fb_width
      BY <3>2, Sizes
    <3> HIDE DEF q
    <3>4. s = IF q >= 1 THEN q ELSE 1
      BY <3>1, <3>3, MaxPair
    <3> QED
      BY <2>1, <3>3, <3>4, Sizes
  <2> QED
    BY <2>3, <2>4
<1> DEFINE w == fb_width \div s
           h == fb_height \div s
           x == (fb_width % s) \div 2
           y == (fb_height % s) \div 2
<1>2. d = [g EXCEPT !.mode = mode, !.pixel_scale = s, !.virt_width = w, !.virt_height = h,
                    !.offset_x = x, !.offset_y = y]
  BY DEF setup_virtual_res
<1> HIDE DEF s
<1>3. w \in Nat /\ w > 0 /\ x \in Nat /\ x < fb_width /\ x + w * s <= fb_width
  BY <1>1, Fits, Sizes
<1>4. h \in Nat /\ h > 0 /\ y \in Nat /\ y < fb_height /\ y + h * s <= fb_height
  BY <1>1, Fits, Sizes
<1> HIDE DEF w, h, x, y
<1>5. d = [mode |-> mode, pixel_scale |-> s, virt_width |-> w, virt_height |-> h,
           offset_x |-> x, offset_y |-> y,
           cursor |-> g.cursor, draw_color |-> g.draw_color, draw_xor |-> g.draw_xor,
           draw_page |-> g.draw_page, dirty_y0 |-> g.dirty_y0, dirty_y1 |-> g.dirty_y1,
           saved_fb |-> g.saved_fb, page1 |-> g.page1]
  BY ONLY <1>2, Tidy(g) DEF Tidy
<1>6. Geometry(d)
  BY <1>1, <1>3, <1>4, <1>5 DEF Geometry
<1>7. Tidy(d)
  BY <1>3, <1>4, <1>5, <1>6 DEF Tidy
<1> QED
  BY <1>5, <1>7

(* The text screen saved.                                                  *)
Saved(g, p, ink, xor) ==
  [mode |-> g.mode, pixel_scale |-> g.pixel_scale,
   virt_width |-> g.virt_width, virt_height |-> g.virt_height,
   offset_x |-> g.offset_x, offset_y |-> g.offset_y,
   cursor |-> g.cursor, draw_color |-> ink, draw_xor |-> xor,
   draw_page |-> g.draw_page, dirty_y0 |-> g.dirty_y0, dirty_y1 |-> g.dirty_y1,
   saved_fb |-> p, page1 |-> g.page1]

LEMMA SavedForm ==
  ASSUME NEW g, Tidy(g), NEW p, NEW ink, NEW xor,
         NEW d, d = [g EXCEPT !.saved_fb = p, !.draw_color = ink, !.draw_xor = xor]
  PROVE  d = Saved(g, p, ink, xor)
BY DEF Saved, Tidy

LEMMA SavedTidy ==
  ASSUME NEW g, Tidy(g), NEW p, Picture(p), NEW ink, NEW xor, NEW d, d = Saved(g, p, ink, xor)
  PROVE  Tidy(d) /\ d.mode = g.mode /\ d.saved_fb = p
<1>1. d = [mode |-> g.mode, pixel_scale |-> g.pixel_scale,
           virt_width |-> g.virt_width, virt_height |-> g.virt_height,
           offset_x |-> g.offset_x, offset_y |-> g.offset_y,
           cursor |-> g.cursor, draw_color |-> ink, draw_xor |-> xor,
           draw_page |-> g.draw_page, dirty_y0 |-> g.dirty_y0, dirty_y1 |-> g.dirty_y1,
           saved_fb |-> p, page1 |-> g.page1]
  BY DEF Saved
<1>2. Tidy(d)
  BY <1>1 DEF Tidy, Geometry
<1> QED
  BY <1>1, <1>2

LEMMA OriginTidy == ASSUME NEW g, Tidy(g) PROVE Tidy(Origin(g)) /\ SameSight(g, Origin(g)) /\ Dirty(Origin(g)) = Dirty(g)
BY AtKeeps DEF Origin

LEMMA EnterGood ==
  ASSUME NEW g, Tidy(g), NEW stray, NEW c, Ready(c, stray), NEW mode \in 2 .. 5,
         NEW s, s = [g |-> g, c |-> c], NEW t, t = enter(s, mode)
  PROVE  Good(t.g, t.c, {}) /\ t.g.mode = mode /\ t.g.saved_fb = c.shadow /\ SameCursor(c, t.c)
<1> DEFINE v == setup_virtual_res(g, mode)
           o == Origin(v)
           paint == FALSE
           d == [o EXCEPT !.saved_fb = c.shadow, !.draw_color = White, !.draw_xor = paint]
           e == [c EXCEPT !.graphics_active = TRUE]
           r == [g |-> d, c |-> e]
<1>1. t = present(clear_buffer(r))
  BY DEF enter
<1>2. Tidy(v) /\ v.mode = mode
  BY VirtualRes
<1> HIDE DEF v
<1>3. Tidy(o) /\ o.mode = mode
  BY <1>2, OriginTidy DEF SameSight
<1> HIDE DEF o
<1>4. Tidy(d) /\ d.mode = mode /\ d.saved_fb = c.shadow
  <2> DEFINE p == c.shadow
             ink == White
  <2>1. Picture(p)
    BY DEF Ready, Safe
  <2>2. d = [o EXCEPT !.saved_fb = p, !.draw_color = ink, !.draw_xor = paint]
    OBVIOUS
  <2> HIDE DEF d, p, ink, paint
  <2>3. d = Saved(o, p, ink, paint)
    BY ONLY <1>3, <2>2, SavedForm
  <2>4. Tidy(d) /\ d.mode = o.mode /\ d.saved_fb = p
    BY ONLY <1>3, <2>1, <2>3, SavedTidy
  <2> QED
    BY <1>3, <2>4 DEF p
<1>5. Ready(e, {}) /\ e.graphics_active /\ SameCursor(c, e)
  BY GraphicsOn
<1> HIDE DEF d, e
<1>6. Good(t.g, t.c, {}) /\ t.g.mode = d.mode /\ t.g.saved_fb = d.saved_fb /\ SameCursor(e, t.c)
  BY <1>1, <1>4, <1>5, Renewed
<1> QED
  BY <1>4, <1>5, <1>6 DEF SameCursor

LEMMA ReconfigureGood ==
  ASSUME NEW g, Tidy(g), NEW ink, NEW c, Ready(c, ink), c.graphics_active, NEW mode \in 2 .. 5,
         NEW s, s = [g |-> g, c |-> c], NEW t, t = reconfigure(s, mode)
  PROVE  Good(t.g, t.c, {}) /\ t.g.mode = mode /\ t.g.saved_fb = g.saved_fb /\ SameCursor(c, t.c)
<1> DEFINE v == setup_virtual_res(g, mode)
           o == Origin(v)
           r == [g |-> o, c |-> c]
<1>1. t = present(clear_buffer(r))
  BY DEF reconfigure
<1>2. Tidy(v) /\ v.mode = mode /\ v.saved_fb = g.saved_fb
  BY VirtualRes
<1> HIDE DEF v
<1>3. Tidy(o) /\ o.mode = mode /\ o.saved_fb = g.saved_fb
  BY <1>2, OriginTidy DEF SameSight
<1> HIDE DEF o
<1> QED
  BY <1>1, <1>3, Renewed

LEMMA LeaveGood ==
  ASSUME NEW g, Tidy(g), NEW ink, NEW c, Ready(c, ink), NEW mode \in {0, 1},
         NEW s, s = [g |-> g, c |-> c], NEW t, t = leave(s, mode)
  PROVE  Good(t.g, t.c, {}) /\ t.g.mode = mode /\ t.c.shadow = g.saved_fb /\ SameCursor(c, t.c)
<1> DEFINE p == g.saved_fb
           d == [CopyLines([c EXCEPT !.shadow = p], Line) EXCEPT !.graphics_active = FALSE]
<1>1. t.c = d
  BY DEF leave
<1>2. t.g = [g EXCEPT !.mode = mode, !.virt_width = 0, !.virt_height = 0, !.pixel_scale = 1]
  BY DEF leave
<1>3. Picture(p)
  BY DEF Tidy
<1> HIDE DEF p
<1>4. Ready(d, {}) /\ ~d.graphics_active /\ d.shadow = p /\ SameCursor(c, d)
  BY <1>3, GraphicsOff
<1> HIDE DEF d
<1> DEFINE h == t.g
<1>5. h = [g EXCEPT !.mode = mode, !.virt_width = 0, !.virt_height = 0, !.pixel_scale = 1]
  BY <1>2
<1> HIDE DEF h
<1>6. h = [mode |-> mode, pixel_scale |-> 1, virt_width |-> 0, virt_height |-> 0,
           offset_x |-> g.offset_x, offset_y |-> g.offset_y,
           cursor |-> g.cursor, draw_color |-> g.draw_color, draw_xor |-> g.draw_xor,
           draw_page |-> g.draw_page, dirty_y0 |-> g.dirty_y0, dirty_y1 |-> g.dirty_y1,
           saved_fb |-> g.saved_fb, page1 |-> g.page1]
  BY ONLY <1>5, Tidy(g) DEF Tidy
<1>7. Tidy(h) /\ ~(h.mode >= 2) /\ h.mode = mode
  BY <1>6 DEF Tidy
<1> QED
  BY <1>1, <1>4, <1>7 DEF Good, Noted, h, p

LEMMA TextModeGood ==
  ASSUME NEW g, Tidy(g), g.mode < 2, NEW ink, NEW c, Ready(c, ink), ~c.graphics_active, NEW mode \in {0, 1},
         NEW d, d = [g EXCEPT !.mode = mode]
  PROVE  Good(d, c, ink) /\ d.mode = mode
<1>1. d = [mode |-> mode, pixel_scale |-> g.pixel_scale,
           virt_width |-> g.virt_width, virt_height |-> g.virt_height,
           offset_x |-> g.offset_x, offset_y |-> g.offset_y,
           cursor |-> g.cursor, draw_color |-> g.draw_color, draw_xor |-> g.draw_xor,
           draw_page |-> g.draw_page, dirty_y0 |-> g.dirty_y0, dirty_y1 |-> g.dirty_y1,
           saved_fb |-> g.saved_fb, page1 |-> g.page1]
  BY DEF Tidy
<1>2. Tidy(d) /\ ~(d.mode >= 2)
  BY <1>1 DEF Tidy
<1> QED
  BY <1>2 DEF Good, Noted

LEMMA SetModeGood ==
  ASSUME NEW g, NEW c, NEW ink, Good(g, c, ink), NEW mode \in 0 .. 255,
         NEW s, s = [g |-> g, c |-> c], NEW t, t = set_mode(s, mode)
  PROVE  /\ Good(t.g, t.c, IF mode > 5 \/ (g.mode < 2 /\ mode < 2) THEN ink ELSE {})
         /\ SameText(g, c, t)
<1>1. Ready(c, ink) /\ Tidy(g) /\ (c.graphics_active <=> g.mode >= 2) /\ s.g = g /\ s.c = c
  BY DEF Good
<1>2. g.mode \in Nat
  BY <1>1 DEF Tidy
<1>3. CASE mode > 5
  BY <1>1, <1>3 DEF set_mode, SameText, SameCursor
<1>4. CASE ~(mode > 5) /\ g.mode < 2 /\ mode >= 2
  <2>1. t = enter(s, mode) /\ mode \in 2 .. 5 /\ ~(g.mode >= 2)
    BY <1>1, <1>2, <1>4 DEF set_mode
  <2>2. Good(t.g, t.c, {}) /\ t.g.mode = mode /\ t.g.saved_fb = c.shadow /\ SameCursor(c, t.c)
    BY <1>1, <2>1, EnterGood
  <2>3. SameText(g, c, t)
    BY <1>4, <2>1, <2>2 DEF SameText, TextPicture
  <2> QED
    BY <1>4, <2>2, <2>3
<1>5. CASE ~(mode > 5) /\ g.mode >= 2 /\ mode < 2
  <2>1. t = leave(s, mode) /\ mode \in {0, 1} /\ ~(mode >= 2)
    BY <1>1, <1>2, <1>5 DEF set_mode
  <2>2. Good(t.g, t.c, {}) /\ t.g.mode = mode /\ t.c.shadow = g.saved_fb /\ SameCursor(c, t.c)
    BY <1>1, <2>1, LeaveGood
  <2>3. SameText(g, c, t)
    BY <1>5, <2>1, <2>2 DEF SameText, TextPicture
  <2> QED
    BY <1>2, <1>5, <2>2, <2>3
<1>6. CASE ~(mode > 5) /\ g.mode >= 2 /\ mode >= 2
  <2>1. t = reconfigure(s, mode) /\ mode \in 2 .. 5 /\ c.graphics_active
    BY <1>1, <1>2, <1>6 DEF set_mode
  <2>2. Good(t.g, t.c, {}) /\ t.g.mode = mode /\ t.g.saved_fb = g.saved_fb /\ SameCursor(c, t.c)
    BY <1>1, <2>1, ReconfigureGood
  <2>3. SameText(g, c, t)
    BY <1>6, <2>2 DEF SameText, TextPicture
  <2> QED
    BY <1>2, <1>6, <2>2, <2>3
<1>7. CASE ~(mode > 5) /\ g.mode < 2 /\ mode < 2
  <2> DEFINE d == [g EXCEPT !.mode = mode]
  <2>1. t = [s EXCEPT !.g.mode = mode] /\ mode \in {0, 1} /\ ~c.graphics_active /\ ~(mode >= 2) /\ ~(g.mode >= 2)
    BY <1>1, <1>2, <1>7 DEF set_mode
  <2>2. t.g = d /\ t.c = c
    BY <1>1, <2>1
  <2> HIDE DEF d
  <2>3. Good(d, c, ink) /\ d.mode = mode
    BY <1>1, <1>7, <2>1, TextModeGood DEF d
  <2>4. SameText(g, c, t)
    BY <2>1, <2>2, <2>3 DEF SameText, TextPicture, SameCursor
  <2> QED
    BY <1>7, <2>2, <2>3, <2>4
<1> QED
  BY <1>2, <1>3, <1>4, <1>5, <1>6, <1>7

----------------------------------------------------------------------------
(* DRAWTO.                                                                 *)

(* The walk of drawto: w is what Path computes of its points.              *)
Start(from, to) == [p |-> from, err |-> Abs(to[1] - from[1]) - Abs(to[2] - from[2])]
Walked(w, from, to, n) ==
  w = [i \in 0 .. n |-> IF i = 0 THEN Start(from, to) ELSE Towards(from, to, w[i - 1])]

LEMMA WalkExists ==
  ASSUME NEW from, NEW to, NEW n \in Nat
  PROVE  \E w : Walked(w, from, to, n)
<1> DEFINE Bad == {m \in Nat : ~ \E w : Walked(w, from, to, m)}
<1>1. SUFFICES ASSUME Bad # {} PROVE FALSE
  OBVIOUS
<1>2. PICK m \in Bad : \A o \in Bad : m <= o
  BY <1>1, LeastNumber
<1>3. m # 0
  <2> DEFINE w == [i \in 0 .. 0 |-> Start(from, to)]
             v == [i \in 0 .. 0 |-> IF i = 0 THEN Start(from, to) ELSE Towards(from, to, w[i - 1])]
  <2>1. \A i \in 0 .. 0 : i = 0
    OBVIOUS
  <2>2. w = v
    BY <2>1
  <2>3. Walked(w, from, to, 0)
    BY <2>2 DEF Walked
  <2> QED
    BY <1>2, <2>3
<1>4. m \in Nat /\ m - 1 \in Nat /\ m - 1 \notin Bad
  BY <1>2, <1>3
<1>5. PICK w : Walked(w, from, to, m - 1)
  BY <1>4
<1> DEFINE g == [i \in 0 .. m |-> IF i = m THEN Towards(from, to, w[m - 1]) ELSE w[i]]
           h == [i \in 0 .. m |-> IF i = 0 THEN Start(from, to) ELSE Towards(from, to, g[i - 1])]
<1>6. ASSUME NEW i \in 0 .. m PROVE g[i] = h[i]
  <2>1. CASE i = m
    <3>1. g[i] = Towards(from, to, w[m - 1]) /\ h[i] = Towards(from, to, g[m - 1])
      BY <1>3, <2>1
    <3>2. g[m - 1] = w[m - 1]
      BY <1>4
    <3> QED
      BY <3>1, <3>2
  <2>2. CASE i # m
    <3>1. i \in 0 .. m - 1 /\ g[i] = w[i]
      BY <1>4, <2>2
    <3>2. w[i] = IF i = 0 THEN Start(from, to) ELSE Towards(from, to, w[i - 1])
      BY <1>5, <3>1 DEF Walked
    <3>3. i # 0 => g[i - 1] = w[i - 1]
      BY <1>4, <3>1
    <3> QED
      BY <3>1, <3>2, <3>3
  <2> QED
    BY <2>1, <2>2
<1>7. g = h
  <2>1. g = [i \in 0 .. m |-> g[i]] /\ h = [i \in 0 .. m |-> h[i]]
    OBVIOUS
  <2> HIDE DEF g, h
  <2> QED
    BY <1>6, <2>1
<1>8. Walked(g, from, to, m)
  <2> HIDE DEF g
  <2> QED
    BY <1>7 DEF Walked
<1> QED
  BY <1>2, <1>8

LEMMA PathWalks ==
  ASSUME NEW from, NEW to, NEW n \in Nat, Steps(from, to) = n
  PROVE  \E w : Walked(w, from, to, n) /\ Path(from, to) = [i \in 0 .. n |-> w[i].p]
<1> DEFINE w == CHOOSE v : v = [i \in 0 .. n |-> IF i = 0 THEN Start(from, to) ELSE Towards(from, to, v[i - 1])]
<1>1. Path(from, to) = [i \in 0 .. n |-> w[i].p]
  BY DEF Path, Start
<1>2. \E v : v = [i \in 0 .. n |-> IF i = 0 THEN Start(from, to) ELSE Towards(from, to, v[i - 1])]
  <2>1. PICK v : Walked(v, from, to, n)
    BY WalkExists
  <2>2. v = [i \in 0 .. n |-> IF i = 0 THEN Start(from, to) ELSE Towards(from, to, v[i - 1])]
    BY <2>1 DEF Walked
  <2> QED
    BY <2>2
<1>3. w = [i \in 0 .. n |-> IF i = 0 THEN Start(from, to) ELSE Towards(from, to, w[i - 1])]
  BY <1>2, Zenon
<1> HIDE DEF w
<1> QED
  BY <1>1, <1>3 DEF Walked

(* The difference between a step and the straight line, of which the       *)
(* larger of width and height is twice the bound.                          *)
LEMMA Wide ==
  ASSUME NEW x \in Nat, NEW y \in Nat, y < x, NEW d \in Int, -x <= 2 * d, 2 * d < x,
         NEW err, err = d + x - y
  PROVE  /\ 2 * err > -y
         /\ 2 * err < x => -x <= 2 * (d - y + x) /\ 2 * (d - y + x) < x
         /\ ~(2 * err < x) => -x <= 2 * (d - y) /\ 2 * (d - y) < x
OBVIOUS

LEMMA Tall ==
  ASSUME NEW x \in Nat, NEW y \in Nat, x < y, NEW d \in Int, -y < 2 * d, 2 * d <= y,
         NEW err, err = d + x - y
  PROVE  /\ 2 * err < x
         /\ 2 * err > -y => -y < 2 * (d - y + x) /\ 2 * (d - y + x) <= y
         /\ ~(2 * err > -y) => -y < 2 * (d + x) /\ 2 * (d + x) <= y
OBVIOUS

(* After i steps the walk is a to the side and b up or down, as near the   *)
(* straight line as can be.                                                *)
Across(from, to) == Abs(to[1] - from[1])
Along(from, to) == Abs(to[2] - from[2])
Way(u, v) == IF u < v THEN 1 ELSE -1
Place(u, v, a) == u + Way(u, v) * a
Off(x, y, a, b) == x * b - y * a
Fault(x, y, a, b) == Off(x, y, a, b) + x - y
Near(x, y, i, a, b) ==
  /\ y < x => a = i /\ -x <= 2 * Off(x, y, a, b) /\ 2 * Off(x, y, a, b) < x
  /\ x < y => b = i /\ -y < 2 * Off(x, y, a, b) /\ 2 * Off(x, y, a, b) <= y
  /\ x = y => a = i /\ b = i
On(from, to, at, i, a, b) ==
  LET x == Across(from, to)
      y == Along(from, to)
  IN  /\ at.p = <<Place(from[1], to[1], a), Place(from[2], to[2], b)>>
      /\ at.err = Fault(x, y, a, b)
      /\ Near(x, y, i, a, b)

LEMMA OffInt == ASSUME NEW x \in Nat, NEW y \in Nat, NEW a \in Nat, NEW b \in Nat PROVE Off(x, y, a, b) \in Int
BY DEF Off

LEMMA OffNext ==
  ASSUME NEW x \in Nat, NEW y \in Nat, NEW a \in Nat, NEW b \in Nat
  PROVE  /\ Off(x, y, a + 1, b) = Off(x, y, a, b) - y
         /\ Off(x, y, a, b + 1) = Off(x, y, a, b) + x
         /\ Off(x, y, a + 1, b + 1) = Off(x, y, a, b) - y + x
<1>1. x * (b + 1) = x * b + x /\ y * (a + 1) = y * a + y /\ x * b \in Int /\ y * a \in Int
  OBVIOUS
<1> DEFINE p == x * b
           q == y * a
<1>2. p \in Int /\ q \in Int /\ x * (b + 1) = p + x /\ y * (a + 1) = q + y
  BY <1>1
<1>3. /\ Off(x, y, a, b) = p - q /\ Off(x, y, a + 1, b) = p - y * (a + 1)
      /\ Off(x, y, a, b + 1) = x * (b + 1) - q /\ Off(x, y, a + 1, b + 1) = x * (b + 1) - y * (a + 1)
  BY DEF Off
<1> HIDE DEF p, q
<1> QED
  BY <1>2, <1>3

LEMMA OffDiagonal == ASSUME NEW x \in Nat, NEW i \in Nat PROVE Off(x, x, i, i) = 0
<1>1. x * i \in Int
  OBVIOUS
<1> QED
  BY <1>1 DEF Off

(* One step, and what it makes of the error.                               *)
OneStep(a, b, c, d) == c \in {a, a + 1} /\ d \in {b, b + 1} /\ (c = a + 1 \/ d = b + 1)
Turn(x, y, err, a, b, c, d) ==
  c = (IF 2 * err > -y THEN a + 1 ELSE a) /\ d = (IF 2 * err < x THEN b + 1 ELSE b)
Corrected(x, y, err) ==
  err - (IF 2 * err > -y THEN y ELSE 0) + (IF 2 * err < x THEN x ELSE 0)
Moves(x, y) == x # 0 \/ y # 0
Stepped(x, y, i, a, b, c, d) ==
  /\ Near(x, y, i + 1, c, d) /\ OneStep(a, b, c, d)
  /\ Fault(x, y, c, d) = Corrected(x, y, Fault(x, y, a, b))

LEMMA NearStep ==
  ASSUME NEW x \in Nat, NEW y \in Nat, Moves(x, y),
         NEW i \in Nat, NEW a \in Nat, NEW b \in Nat, Near(x, y, i, a, b),
         NEW c \in Nat, NEW d \in Nat, Turn(x, y, Fault(x, y, a, b), a, b, c, d)
  PROVE  Stepped(x, y, i, a, b, c, d)
<1> DEFINE err == Fault(x, y, a, b)
<1> USE DEF Moves, Stepped, Corrected, OneStep, Fault
<1>1. c = (IF 2 * err > -y THEN a + 1 ELSE a) /\ d = (IF 2 * err < x THEN b + 1 ELSE b)
  BY DEF Turn
<1> DEFINE e == Off(x, y, a, b)
<1>2. e \in Int /\ err = e + x - y /\ err \in Int
  <2>1. e \in Int /\ err = e + x - y
    BY OffInt
  <2> HIDE DEF e
  <2> QED
    BY ONLY <2>1, x \in Nat, y \in Nat
<1>3. /\ Off(x, y, a + 1, b) = e - y /\ Off(x, y, a, b + 1) = e + x
      /\ Off(x, y, a + 1, b + 1) = e - y + x
  BY OffNext
<1>4. CASE y < x
  <2>1. a = i /\ -x <= 2 * e /\ 2 * e < x
    BY <1>4 DEF Near
  <2> HIDE DEF e
  <2>2. /\ 2 * err > -y
        /\ 2 * err < x => -x <= 2 * (e - y + x) /\ 2 * (e - y + x) < x
        /\ ~(2 * err < x) => -x <= 2 * (e - y) /\ 2 * (e - y) < x
    BY <1>2, <1>4, <2>1, Wide
  <2>3. CASE 2 * err < x
    <3>1. Near(x, y, i + 1, a + 1, b + 1)
      BY <1>3, <1>4, <2>1, <2>2, <2>3 DEF Near
    <3> QED
      BY <1>1, <1>2, <1>3, <2>2, <2>3, <3>1
  <2>4. CASE ~(2 * err < x)
    <3>1. Near(x, y, i + 1, a + 1, b)
      BY <1>3, <1>4, <2>1, <2>2, <2>4 DEF Near
    <3> QED
      BY <1>1, <1>2, <1>3, <2>2, <2>4, <3>1
  <2> QED
    BY <2>3, <2>4
<1>5. CASE x < y
  <2>1. b = i /\ -y < 2 * e /\ 2 * e <= y
    BY <1>5 DEF Near
  <2> HIDE DEF e
  <2>2. /\ 2 * err < x
        /\ 2 * err > -y => -y < 2 * (e - y + x) /\ 2 * (e - y + x) <= y
        /\ ~(2 * err > -y) => -y < 2 * (e + x) /\ 2 * (e + x) <= y
    BY <1>2, <1>5, <2>1, Tall
  <2>3. CASE 2 * err > -y
    <3>1. Near(x, y, i + 1, a + 1, b + 1)
      BY <1>3, <1>5, <2>1, <2>2, <2>3 DEF Near
    <3> QED
      BY <1>1, <1>2, <1>3, <2>2, <2>3, <3>1
  <2>4. CASE ~(2 * err > -y)
    <3>1. Near(x, y, i + 1, a, b + 1)
      BY <1>3, <1>5, <2>1, <2>2, <2>4 DEF Near
    <3> QED
      BY <1>1, <1>2, <1>3, <2>2, <2>4, <3>1
  <2> QED
    BY <2>3, <2>4
<1>6. CASE x = y
  <2>1. a = i /\ b = i
    BY <1>6 DEF Near
  <2>2. e = 0
    BY <1>6, <2>1, OffDiagonal
  <2> HIDE DEF e
  <2>3. err = 0 /\ 2 * err > -y /\ 2 * err < x
    BY <1>2, <1>6, <2>2
  <2>4. Near(x, y, i + 1, a + 1, b + 1)
    BY <1>6, <2>1 DEF Near
  <2> QED
    BY <1>1, <1>2, <1>3, <2>3, <2>4
<1> QED
  BY <1>4, <1>5, <1>6

LEMMA AbsNat == ASSUME NEW n \in Int PROVE Abs(n) \in Nat /\ (Abs(n) = n \/ Abs(n) = -n)
BY DEF Abs

LEMMA Onward ==
  ASSUME NEW u \in Int, NEW v \in Int, NEW a \in Nat
  PROVE  /\ Place(u, v, a) \in Int
         /\ Place(u, v, a + 1) = Place(u, v, a) + Way(u, v)
         /\ Place(u, v, Abs(v - u)) = v
BY DEF Way, Abs, Place

LEMMA OneOn ==
  ASSUME NEW u \in Int, NEW v \in Int, NEW a \in Nat
  PROVE  /\ Place(u, v, a) \in Int
         /\ Place(u, v, a + 1) = Place(u, v, a) + (IF u < v THEN 1 ELSE -1)
BY Onward DEF Way

(* One step goes from near the line to near the line, and to a neighbour.  *)
LEMMA TowardsOn ==
  ASSUME NEW from \in Int \X Int, NEW to \in Int \X Int, Across(from, to) # 0 \/ Along(from, to) # 0,
         NEW at, NEW i \in Nat, NEW a \in Nat, NEW b \in Nat, On(from, to, at, i, a, b)
  PROVE  /\ \E c \in Nat, d \in Nat : On(from, to, Towards(from, to, at), i + 1, c, d)
         /\ Steps(at.p, Towards(from, to, at).p) = 1
<1> DEFINE x == Across(from, to)
           y == Along(from, to)
           q == Towards(from, to, at)
           err == at.err
           aside == 2 * err > -y
           ahead == 2 * err < x
           c == IF aside THEN a + 1 ELSE a
           d == IF ahead THEN b + 1 ELSE b
<1>1. from[1] \in Int /\ from[2] \in Int /\ to[1] \in Int /\ to[2] \in Int
  OBVIOUS
<1>2. x \in Nat /\ y \in Nat /\ (x # 0 \/ y # 0)
  BY <1>1, AbsNat DEF Across, Along
<1>3. /\ at.p[1] = Place(from[1], to[1], a) /\ at.p[2] = Place(from[2], to[2], b)
      /\ err = Fault(x, y, a, b) /\ Near(x, y, i, a, b)
  BY DEF On
<1>4. /\ q.p = << at.p[1] + (IF ~aside THEN 0 ELSE IF from[1] < to[1] THEN 1 ELSE -1),
                  at.p[2] + (IF ~ahead THEN 0 ELSE IF from[2] < to[2] THEN 1 ELSE -1) >>
      /\ q.err = Corrected(x, y, err)
  BY DEF Towards, Across, Along, Corrected
<1>5. Turn(x, y, err, a, b, c, d)
  BY DEF Turn
<1>6. c \in Nat /\ d \in Nat
  OBVIOUS
<1>7. aside \in BOOLEAN /\ ahead \in BOOLEAN /\ c = (IF aside THEN a + 1 ELSE a) /\ d = (IF ahead THEN b + 1 ELSE b)
  OBVIOUS
<1>8. On(from, to, q, i + 1, c, d) <=>
        /\ q.p = <<Place(from[1], to[1], c), Place(from[2], to[2], d)>>
        /\ q.err = Fault(x, y, c, d) /\ Near(x, y, i + 1, c, d)
  BY DEF On
<1> HIDE DEF q, x, y, err, c, d, aside, ahead
<1>9. Near(x, y, i + 1, c, d) /\ OneStep(a, b, c, d) /\ Fault(x, y, c, d) = Corrected(x, y, err)
  <2>1. x \in Nat /\ y \in Nat /\ i \in Nat /\ a \in Nat /\ b \in Nat /\ c \in Nat /\ d \in Nat
    BY <1>2, <1>6
  <2>2. Turn(x, y, Fault(x, y, a, b), a, b, c, d) /\ Near(x, y, i, a, b) /\ Moves(x, y)
    BY <1>2, <1>3, <1>5 DEF Moves
  <2>3. Stepped(x, y, i, a, b, c, d)
    BY ONLY <2>1, <2>2, NearStep
  <2> QED
    BY <1>3, <2>3 DEF Stepped
<1>10. /\ Place(from[1], to[1], a) \in Int
       /\ Place(from[1], to[1], a + 1) = Place(from[1], to[1], a) + (IF from[1] < to[1] THEN 1 ELSE -1)
  BY <1>1, OneOn
<1>11. /\ Place(from[2], to[2], b) \in Int
       /\ Place(from[2], to[2], b + 1) = Place(from[2], to[2], b) + (IF from[2] < to[2] THEN 1 ELSE -1)
  BY <1>1, OneOn
<1>12. q.p[1] = Place(from[1], to[1], c) /\ Abs(q.p[1] - at.p[1]) = IF aside THEN 1 ELSE 0
  <2>1. CASE aside
    <3>1. q.p[1] = Place(from[1], to[1], c) /\ q.p[1] - at.p[1] \in {1, -1}
      BY <1>3, <1>4, <1>7, <1>10, <2>1
    <3> QED
      BY <2>1, <3>1 DEF Abs
  <2>2. CASE ~aside
    <3>1. q.p[1] = Place(from[1], to[1], c) /\ q.p[1] - at.p[1] = 0
      BY <1>3, <1>4, <1>7, <1>10, <2>2
    <3> QED
      BY <2>2, <3>1 DEF Abs
  <2> QED
    BY <2>1, <2>2
<1>13. q.p[2] = Place(from[2], to[2], d) /\ Abs(q.p[2] - at.p[2]) = IF ahead THEN 1 ELSE 0
  <2>1. CASE ahead
    <3>1. q.p[2] = Place(from[2], to[2], d) /\ q.p[2] - at.p[2] \in {1, -1}
      BY <1>3, <1>4, <1>7, <1>11, <2>1
    <3> QED
      BY <2>1, <3>1 DEF Abs
  <2>2. CASE ~ahead
    <3>1. q.p[2] = Place(from[2], to[2], d) /\ q.p[2] - at.p[2] = 0
      BY <1>3, <1>4, <1>7, <1>11, <2>2
    <3> QED
      BY <2>2, <3>1 DEF Abs
  <2> QED
    BY <2>1, <2>2
<1>14. On(from, to, q, i + 1, c, d)
  <2>1. q.p = <<q.p[1], q.p[2]>>
    BY <1>4
  <2> QED
    BY <1>4, <1>8, <1>9, <1>12, <1>13, <2>1
<1>15. Steps(at.p, q.p) = 1
  <2> DEFINE u == Abs(q.p[1] - at.p[1])
             v == Abs(q.p[2] - at.p[2])
  <2>1. aside \/ ahead
    BY <1>7, <1>9 DEF OneStep
  <2>2. u = (IF aside THEN 1 ELSE 0) /\ v = (IF ahead THEN 1 ELSE 0)
    BY <1>12, <1>13
  <2>3. Steps(at.p, q.p) = Max({u, v})
    BY DEF Steps
  <2> HIDE DEF u, v
  <2>4. u \in Int /\ v \in Int /\ (IF u >= v THEN u ELSE v) = 1
    BY <2>1, <2>2
  <2> QED
    BY <2>3, <2>4, MaxPair
<1> QED
  BY <1>6, <1>14, <1>15 DEF q

LEMMA WalkOn ==
  ASSUME NEW from \in Int \X Int, NEW to \in Int \X Int, Across(from, to) # 0 \/ Along(from, to) # 0,
         NEW n \in Nat, NEW w, Walked(w, from, to, n), NEW i \in 0 .. n
  PROVE  \E a \in Nat, b \in Nat : On(from, to, w[i], i, a, b)
<1> DEFINE Bad == {k \in 0 .. n : ~ \E a \in Nat, b \in Nat : On(from, to, w[k], k, a, b)}
<1>1. SUFFICES ASSUME Bad # {} PROVE FALSE
  OBVIOUS
<1>2. PICK k \in Bad : \A o \in Bad : k <= o
  <2>1. Bad \in SUBSET Nat
    OBVIOUS
  <2> QED
    BY <1>1, <2>1, LeastNumber
<1>3. w[k] = IF k = 0 THEN Start(from, to) ELSE Towards(from, to, w[k - 1])
  BY <1>2 DEF Walked
<1>4. k # 0
  <2> DEFINE x == Across(from, to)
             y == Along(from, to)
  <2>1. x \in Nat /\ y \in Nat /\ from[1] \in Int /\ from[2] \in Int /\ from = <<from[1], from[2]>>
    BY AbsNat DEF Across, Along
  <2>2. /\ Off(x, y, 0, 0) = 0 /\ Fault(x, y, 0, 0) = x - y
        /\ Place(from[1], to[1], 0) = from[1] /\ Place(from[2], to[2], 0) = from[2]
    <3>1. x * 0 = 0 /\ y * 0 = 0
      BY <2>1
    <3> QED
      BY <2>1, <3>1 DEF Off, Fault, Way, Place
  <2>3. Start(from, to).p = from /\ Start(from, to).err = x - y
    BY DEF Start, Across, Along
  <2>4. Near(x, y, 0, 0, 0)
    <3> HIDE DEF x, y
    <3> QED
      BY <2>1, <2>2 DEF Near
  <2>5. On(from, to, Start(from, to), 0, 0, 0)
    BY <2>1, <2>2, <2>3, <2>4 DEF On
  <2> QED
    BY <1>2, <1>3, <2>5
<1>5. k \in Nat /\ k - 1 \in 0 .. n /\ k - 1 \in Nat /\ k - 1 \notin Bad /\ (k - 1) + 1 = k
  BY <1>2, <1>4
<1>6. PICK a \in Nat, b \in Nat : On(from, to, w[k - 1], k - 1, a, b)
  BY <1>5
<1>7. \E c \in Nat, d \in Nat : On(from, to, Towards(from, to, w[k - 1]), (k - 1) + 1, c, d)
  BY <1>5, <1>6, TowardsOn
<1>8. \E c \in Nat, d \in Nat : On(from, to, w[k], k, c, d)
  BY <1>3, <1>4, <1>5, <1>7
<1> QED
  BY <1>2, <1>8

(* A step to the side for each pixel of the width, and the height is right.*)
LEMMA Lands ==
  ASSUME NEW x \in Nat, NEW y \in Nat, x # 0, NEW b \in Nat,
         -x <= 2 * (x * b - y * x), 2 * (x * b - y * x) <= x
  PROVE  b = y
<1> DEFINE p == x * b
           q == y * x
<1>1. p \in Int /\ q \in Int
  OBVIOUS
<1>2. ASSUME b > y PROVE FALSE
  <2>1. b - y - 1 \in Nat
    BY <1>2
  <2>2. x * (b - y - 1) \in Nat
    BY <2>1
  <2>3. x * (b - y - 1) = p - q - x
    OBVIOUS
  <2>4. p - q - x >= 0 /\ 2 * (p - q) <= x
    BY <2>2, <2>3
  <2> HIDE DEF p, q
  <2> QED
    BY <1>1, <2>4
<1>3. ASSUME b < y PROVE FALSE
  <2>1. y - b - 1 \in Nat
    BY <1>3
  <2>2. x * (y - b - 1) \in Nat
    BY <2>1
  <2>3. x * (y - b - 1) = q - p - x
    OBVIOUS
  <2>4. q - p - x >= 0 /\ -x <= 2 * (p - q)
    BY <2>2, <2>3
  <2> HIDE DEF p, q
  <2> QED
    BY <1>1, <2>4
<1> QED
  BY <1>2, <1>3

LEMMA Arrives ==
  ASSUME NEW from \in Int \X Int, NEW to \in Int \X Int, Across(from, to) # 0 \/ Along(from, to) # 0,
         NEW at, NEW a \in Nat, NEW b \in Nat, On(from, to, at, Steps(from, to), a, b)
  PROVE  at.p = to
<1> DEFINE x == Across(from, to)
           y == Along(from, to)
<1>1. x \in Nat /\ y \in Nat /\ (x # 0 \/ y # 0)
  BY AbsNat DEF Across, Along
<1>2. Steps(from, to) = IF x >= y THEN x ELSE y
  <2>1. Steps(from, to) = Max({x, y})
    BY DEF Steps, Across, Along
  <2> HIDE DEF x, y
  <2> QED
    BY <1>1, <2>1, MaxPair
<1>3. Near(x, y, Steps(from, to), a, b)
  BY DEF On
<1>4. a = x /\ b = y
  <2> HIDE DEF x, y
  <2>1. CASE y < x
    <3>1. a = x /\ -x <= 2 * Off(x, y, x, b) /\ 2 * Off(x, y, x, b) < x /\ Off(x, y, x, b) \in Int
      BY <1>1, <1>2, <1>3, <2>1, OffInt DEF Near
    <3>2. -x <= 2 * Off(x, y, x, b) /\ 2 * Off(x, y, x, b) <= x
      BY <1>1, <3>1
    <3>3. b = y
      BY <1>1, <2>1, <3>2, Lands DEF Off
    <3> QED
      BY <3>1, <3>3
  <2>2. CASE x < y
    <3>1. b = y /\ -y < 2 * Off(x, y, a, y) /\ 2 * Off(x, y, a, y) <= y
      BY <1>1, <1>2, <1>3, <2>2 DEF Near
    <3> DEFINE e == x * y - y * a
    <3>2. e \in Int /\ y * a - x * y = -e /\ Off(x, y, a, y) = e
      BY <1>1 DEF Off
    <3>3. -y <= 2 * (y * a - x * y) /\ 2 * (y * a - x * y) <= y
      <4> HIDE DEF e
      <4> QED
        BY <1>1, <3>1, <3>2
    <3>4. a = x
      BY <1>1, <2>2, <3>3, Lands
    <3> QED
      BY <3>1, <3>4
  <2>3. CASE x = y
    BY <1>1, <1>2, <1>3, <2>3 DEF Near
  <2> QED
    BY <1>1, <2>1, <2>2, <2>3
<1>5. at.p = <<Place(from[1], to[1], x), Place(from[2], to[2], y)>>
  BY <1>4 DEF On
<1>6. Place(from[1], to[1], x) = to[1] /\ Place(from[2], to[2], y) = to[2]
  BY Onward DEF Across, Along
<1>7. to = <<to[1], to[2]>>
  OBVIOUS
<1> HIDE DEF x, y
<1> QED
  BY <1>5, <1>6, <1>7

LEMMA Turning ==
  ASSUME NEW s \in {1, -1}, NEW t \in {1, -1},
         NEW x \in Nat, NEW y \in Nat, NEW a \in Nat, NEW b \in Nat
  PROVE  (s * x) * (t * b) - (t * y) * (s * a) \in {Off(x, y, a, b), -Off(x, y, a, b)}
<1>1. (1 * x) * (1 * b) - (1 * y) * (1 * a) = Off(x, y, a, b)
  BY DEF Off
<1>2. ((-1) * x) * ((-1) * b) - ((-1) * y) * ((-1) * a) = Off(x, y, a, b)
  BY DEF Off
<1>3. ((-1) * x) * (1 * b) - (1 * y) * ((-1) * a) = -Off(x, y, a, b)
  BY DEF Off
<1>4. (1 * x) * ((-1) * b) - ((-1) * y) * (1 * a) = -Off(x, y, a, b)
  BY DEF Off
<1>5. CASE s = 1 /\ t = 1
  BY <1>1, <1>5
<1>6. CASE s = -1 /\ t = -1
  BY <1>2, <1>6
<1>7. CASE s = -1 /\ t = 1
  BY <1>3, <1>7
<1>8. CASE s = 1 /\ t = -1
  BY <1>4, <1>8
<1> QED
  BY <1>5, <1>6, <1>7, <1>8

LEMMA Straight ==
  ASSUME NEW from \in Int \X Int, NEW to \in Int \X Int,
         NEW at, NEW i \in Nat, NEW a \in Nat, NEW b \in Nat, On(from, to, at, i, a, b)
  PROVE  2 * Abs((to[1] - from[1]) * (at.p[2] - from[2]) - (to[2] - from[2]) * (at.p[1] - from[1]))
           <= Steps(from, to)
<1> DEFINE x == Across(from, to)
           y == Along(from, to)
           s == Way(from[1], to[1])
           t == Way(from[2], to[2])
           e == Off(x, y, a, b)
<1>1. x \in Nat /\ y \in Nat
  BY AbsNat DEF Across, Along
<1>2. Steps(from, to) = IF x >= y THEN x ELSE y
  <2>1. Steps(from, to) = Max({x, y})
    BY DEF Steps, Across, Along
  <2> HIDE DEF x, y
  <2> QED
    BY <1>1, <2>1, MaxPair
<1>3. s \in {1, -1} /\ t \in {1, -1} /\ s \in Int /\ t \in Int
  BY DEF Way
<1>4. to[1] - from[1] = s * x /\ to[2] - from[2] = t * y
  BY DEF Way, Across, Along, Abs
<1>5. at.p = <<from[1] + s * a, from[2] + t * b>> /\ Near(x, y, i, a, b)
  BY DEF On, Place
<1>6. from[1] \in Int /\ from[2] \in Int
  OBVIOUS
<1> HIDE DEF x, y, s, t
<1>7. at.p[1] - from[1] = s * a /\ at.p[2] - from[2] = t * b
  <2>1. s * a \in Int /\ t * b \in Int
    BY <1>3
  <2> DEFINE u == s * a
             v == t * b
  <2>2. at.p = <<from[1] + u, from[2] + v>> /\ u \in Int /\ v \in Int
    BY <1>5, <2>1
  <2> HIDE DEF u, v
  <2>3. at.p[1] - from[1] = u /\ at.p[2] - from[2] = v
    BY <1>6, <2>2
  <2> QED
    BY <2>3 DEF u, v
<1>8. (to[1] - from[1]) * (at.p[2] - from[2]) - (to[2] - from[2]) * (at.p[1] - from[1]) \in {e, -e}
  <2>1. (s * x) * (t * b) - (t * y) * (s * a) \in {e, -e}
    BY <1>1, <1>3, Turning
  <2> QED
    BY <1>4, <1>7, <2>1
<1>9. e \in Int /\ (x = y => e = 0)
  <2>1. e \in Int
    BY <1>1, OffInt
  <2>2. ASSUME x = y PROVE e = 0
    <3>1. a = b
      BY <1>5, <2>2 DEF Near
    <3> QED
      BY <1>1, <2>2, <3>1, OffDiagonal
  <2> QED
    BY <2>1, <2>2
<1>10. /\ y < x => -x <= 2 * e /\ 2 * e < x
       /\ x < y => -y < 2 * e /\ 2 * e <= y
  BY <1>5 DEF Near
<1> DEFINE o == (to[1] - from[1]) * (at.p[2] - from[2]) - (to[2] - from[2]) * (at.p[1] - from[1])
<1>11. o \in {e, -e}
  BY <1>8
<1> HIDE DEF o, e
<1>12. Abs(o) \in {e, -e}
  BY <1>9, <1>11 DEF Abs
<1>13. 2 * Abs(o) <= Steps(from, to)
  BY <1>1, <1>2, <1>9, <1>10, <1>12
<1> QED
  BY <1>13 DEF o

(* A line, from any point to any point.                                    *)
LEMMA LineDrawn ==
  ASSUME NEW from \in Int \X Int, NEW to \in Int \X Int
  PROVE  LET path == Path(from, to)
             n == Steps(from, to)
             off(q) == (to[1] - from[1]) * (q[2] - from[2]) - (to[2] - from[2]) * (q[1] - from[1])
         IN  /\ path[n] = to
             /\ \A i \in 1 .. n : Steps(path[i - 1], path[i]) = 1
             /\ \A i \in 0 .. n : 2 * Abs(off(path[i])) <= n
<1> DEFINE path == Path(from, to)
           n == Steps(from, to)
           x == Across(from, to)
           y == Along(from, to)
<1>1. x \in Nat /\ y \in Nat /\ n = IF x >= y THEN x ELSE y
  <2>1. x \in Nat /\ y \in Nat /\ n = Max({x, y})
    BY AbsNat DEF Steps, Across, Along
  <2> HIDE DEF x, y, n
  <2> QED
    BY <2>1, MaxPair
<1>2. n \in Nat
  BY <1>1
<1>3. PICK w : Walked(w, from, to, n) /\ path = [i \in 0 .. n |-> w[i].p]
  BY <1>2, PathWalks
<1>4. \A i \in 0 .. n : path[i] = w[i].p
  BY <1>3
<1> HIDE DEF path
<1>5. CASE x # 0 \/ y # 0
  <2>1. \A i \in 0 .. n : i \in Nat /\ \E a \in Nat, b \in Nat : On(from, to, w[i], i, a, b)
    <3>1. \A i \in 0 .. n : i \in Nat
      BY <1>2
    <3>2. \A i \in 0 .. n : \E a \in Nat, b \in Nat : On(from, to, w[i], i, a, b)
      BY <1>2, <1>3, <1>5, WalkOn, Zenon
    <3> QED
      BY <3>1, <3>2, Zenon
  <2>2. path[n] = to
    BY <1>2, <1>4, <1>5, <2>1, Arrives
  <2>3. ASSUME NEW i \in 1 .. n PROVE Steps(path[i - 1], path[i]) = 1
    <3>1. i - 1 \in 0 .. n /\ i \in 0 .. n /\ i - 1 \in Nat /\ i # 0
      BY <1>2
    <3>2. PICK a \in Nat, b \in Nat : On(from, to, w[i - 1], i - 1, a, b)
      BY <2>1, <3>1
    <3>3. w[i] = Towards(from, to, w[i - 1])
      BY <1>3, <3>1 DEF Walked
    <3>4. Steps(w[i - 1].p, Towards(from, to, w[i - 1]).p) = 1
      BY <1>5, <3>1, <3>2, TowardsOn
    <3> QED
      BY <1>4, <3>1, <3>3, <3>4
  <2>4. ASSUME NEW i \in 0 .. n
        PROVE  2 * Abs((to[1] - from[1]) * (path[i][2] - from[2]) - (to[2] - from[2]) * (path[i][1] - from[1])) <= n
    BY <1>4, <2>1, Straight
  <2> QED
    BY <2>2, <2>3, <2>4 DEF path
<1>6. CASE x = 0 /\ y = 0
  <2>1. to = from
    <3>1. to[1] - from[1] = 0 /\ to[2] - from[2] = 0
      BY <1>6 DEF Across, Along, Abs
    <3> QED
      BY <3>1
  <2>2. n = 0
    BY <1>1, <1>6
  <2>3. path[0] = from
    BY <1>2, <1>3, <1>4, <2>2 DEF Walked, Start
  <2>4. \A i \in 0 .. n : i = 0
    BY <2>2
  <2>5. 2 * Abs((to[1] - from[1]) * (from[2] - from[2]) - (to[2] - from[2]) * (from[1] - from[1])) = 0
    BY <2>1 DEF Abs
  <2>6. \A i \in 0 .. n :
          2 * Abs((to[1] - from[1]) * (path[i][2] - from[2]) - (to[2] - from[2]) * (path[i][1] - from[1])) <= n
    BY <2>2, <2>3, <2>4, <2>5
  <2>7. 1 .. n = {}
    BY <2>2
  <2> QED
    BY <2>1, <2>2, <2>3, <2>6, <2>7 DEF path
<1> QED
  BY <1>5, <1>6

(* The error term is at most one and a half times the distance.            *)
LEMMA ErrorFits ==
  ASSUME NEW from \in Int \X Int, NEW to \in Int \X Int,
         NEW w, Walked(w, from, to, Steps(from, to)), NEW i \in 0 .. Steps(from, to)
  PROVE  2 * Abs(w[i].err) <= 3 * Steps(from, to)
<1> DEFINE x == Across(from, to)
           y == Along(from, to)
           n == Steps(from, to)
           err == w[i].err
<1>1. x \in Nat /\ y \in Nat /\ n = IF x >= y THEN x ELSE y
  <2>1. x \in Nat /\ y \in Nat /\ n = Max({x, y})
    BY AbsNat DEF Steps, Across, Along
  <2> HIDE DEF x, y, n
  <2> QED
    BY <2>1, MaxPair
<1>2. n \in Nat /\ i \in 0 .. n /\ Walked(w, from, to, n)
  BY <1>1
<1>3. CASE x # 0 \/ y # 0
  <2>1. PICK a \in Nat, b \in Nat : On(from, to, w[i], i, a, b)
    <3>1. \E a \in Nat, b \in Nat : On(from, to, w[i], i, a, b)
      BY <1>2, <1>3, WalkOn
    <3> QED
      BY <3>1
  <2> DEFINE e == Off(x, y, a, b)
  <2>2. e \in Int /\ err = e + x - y /\ Near(x, y, i, a, b)
    BY <1>1, <2>1, OffInt DEF On, Fault
  <2>3. /\ y < x => -x <= 2 * e /\ 2 * e < x
        /\ x < y => -y < 2 * e /\ 2 * e <= y
        /\ x = y => e = 0
    <3>1. ASSUME x = y PROVE e = 0
      <4>1. a = b
        BY <2>2, <3>1 DEF Near
      <4> QED
        BY <1>1, <3>1, <4>1, OffDiagonal
    <3> QED
      BY <2>2, <3>1 DEF Near
  <2> HIDE DEF e, x, y, n, err
  <2>4. err \in Int /\ 2 * err <= 3 * n /\ -(2 * err) <= 3 * n
    BY <1>1, <2>2, <2>3
  <2>5. 2 * Abs(err) <= 3 * n
    BY <1>2, <2>4, AbsNat
  <2> QED
    BY <2>5 DEF err, n
<1>4. CASE x = 0 /\ y = 0
  <2>1. n = 0 /\ i = 0
    BY <1>1, <1>2, <1>4
  <2>2. w[0] = Start(from, to)
    BY <1>2, <2>1 DEF Walked
  <2>3. err = 0
    BY <1>4, <2>1, <2>2 DEF Start, Across, Along
  <2> QED
    BY <2>1, <2>3 DEF Abs
<1> QED
  BY <1>3, <1>4

----------------------------------------------------------------------------
(* The statements that clear, show and change modes.                       *)

LEMMA ClsInv == ASSUME ScreenInv, exec_cls PROVE ScreenInv'
<1>1. Ready(con, inked) /\ Tidy(gfx) /\ (con.graphics_active <=> gfx.mode >= 2) /\ Noted(gfx, con, inked)
  BY DEF ScreenInv, Good
<1>2. CASE Active
  <2> DEFINE s == clear_buffer(Now)
             o == Origin(s.g)
  <2>1. Now = [g |-> gfx, c |-> con] /\ gfx.mode >= 2 /\ con.graphics_active
    BY <1>1, <1>2 DEF Now, Active
  <2>2. Good(s.g, s.c, {}) /\ s = [g |-> s.g, c |-> s.c]
    BY <1>1, <2>1, ClearMarks
  <2>3. con' = [s EXCEPT !.g = o].c /\ gfx' = [s EXCEPT !.g = o].g /\ inked' = {}
    BY <1>2 DEF exec_cls, Both
  <2>4. Tidy(o) /\ SameSight(s.g, o) /\ Dirty(o) = Dirty(s.g)
    BY <2>2, OriginTidy DEF Good
  <2> HIDE DEF o, s
  <2>5. con' = s.c /\ gfx' = o
    BY <2>2, <2>3
  <2>6. Noted(o, s.c, {})
    BY <2>2, <2>4 DEF Good, Noted, SameSight, Page
  <2> QED
    BY <2>2, <2>3, <2>4, <2>5, <2>6 DEF ScreenInv, Good, SameSight
<1>3. CASE ~Active
  <2>1. Cls /\ gfx' = gfx /\ Inking
    BY <1>3 DEF exec_cls
  <2>2. Ready(con', inked) /\ Kept(con, con')
    BY <1>1, <2>1, ConsoleSteps DEF ConsoleNext
  <2> QED
    BY <2>1, <2>2, InkingInv
<1> QED
  BY <1>2, <1>3

LEMMA ShowInv == ASSUME ScreenInv, exec_show PROVE ScreenInv'
<1> DEFINE t == present(Now)
<1>1. Good(gfx, con, inked) /\ Now = [g |-> gfx, c |-> con]
  BY DEF ScreenInv, Now
<1>2. /\ con' = t.c /\ gfx' = t.g
      /\ gfx.mode >= 2 => inked' = IF can_flip THEN {} ELSE inked \ Dirty(gfx)
      /\ ~(gfx.mode >= 2) => inked' = inked
  BY DEF exec_show, Both, Dirty, Active
<1>3. CASE gfx.mode >= 2
  <2>1. Good(t.g, t.c, IF can_flip THEN {} ELSE inked \ Dirty(gfx))
    BY <1>1, <1>3, PresentShows
  <2> HIDE DEF t
  <2> QED
    BY <1>2, <1>3, <2>1 DEF ScreenInv
<1>4. CASE ~(gfx.mode >= 2)
  <2>1. gfx.mode < 2
    BY <1>1, <1>4 DEF Good, Tidy
  <2>2. t = Now
    BY <1>1, <2>1 DEF present
  <2>3. con' = con /\ gfx' = gfx /\ inked' = inked
    BY <1>1, <1>2, <1>4, <2>2
  <2> QED
    BY <1>1, <2>3 DEF ScreenInv
<1> QED
  BY <1>3, <1>4

LEMMA GraphicsInv == ASSUME ScreenInv, NEW mode \in Mode, exec_graphics(mode) PROVE ScreenInv'
<1> DEFINE t == set_mode(Now, mode)
<1>1. Good(gfx, con, inked) /\ Now = [g |-> gfx, c |-> con] /\ mode \in 0 .. 255
  BY GraphicsAssumption DEF ScreenInv, Now
<1>2. con' = t.c /\ gfx' = t.g /\ inked' = IF mode > 5 \/ (gfx.mode < 2 /\ mode < 2) THEN inked ELSE {}
  BY <1>1 DEF exec_graphics, Both, Active, Good, Tidy
<1>3. Good(t.g, t.c, IF mode > 5 \/ (gfx.mode < 2 /\ mode < 2) THEN inked ELSE {})
  BY <1>1, SetModeGood
<1> HIDE DEF t
<1> QED
  BY <1>2, <1>3 DEF ScreenInv

----------------------------------------------------------------------------
(* The text, which is laid out on the screen or set aside.                 *)

TextThere(g, c, s) ==
  s # Moved => s \in Seq(Chars) /\ LaidPicture(TextPicture(g, c), All(s)) /\ LaidCursor(c, All(s))
TextInv == TextThere(gfx, con, typed)

LEMMA StillThere == ASSUME TextInv, TextUntouched PROVE TextInv'
<1>1. /\ TextPicture(gfx', con') = TextPicture(gfx, con) /\ typed' = typed
      /\ con'.cursor_row = con.cursor_row /\ con'.cursor_col = con.cursor_col /\ con'.wrap_pending = con.wrap_pending
  BY DEF TextUntouched, SameCursor
<1>2. \A all : LaidCursor(con, all) => LaidCursor(con', all)
  BY <1>1 DEF LaidCursor
<1>3. typed # Moved => /\ typed \in Seq(Chars)
                       /\ LaidPicture(TextPicture(gfx, con), All(typed)) /\ LaidCursor(con, All(typed))
  BY DEF TextInv, TextThere
<1> QED
  BY <1>1, <1>2, <1>3 DEF TextInv, TextThere

(* In a text mode it is the console that lays it out.                      *)
LEMMA TextOnScreen == ASSUME ~(gfx.mode >= 2) PROVE TextInv <=> TextLaid(con, typed)
BY DEF TextInv, TextThere, TextPicture, TextLaid, Laid

LEMMA ConsoleKeepsText ==
  ASSUME ScreenInv, TextInv, ConsoleNext, gfx' = gfx, Active => typed' = Moved
  PROVE  TextInv'
<1>1. Ready(con, inked)
  BY DEF ScreenInv, Good
<1>2. CASE Active
  BY <1>2 DEF TextInv, TextThere
<1>3. CASE ~Active
  <2>1. ~(gfx.mode >= 2) /\ ~(gfx'.mode >= 2)
    BY <1>3 DEF Active
  <2>2. TextLaid(con', typed')
    BY <1>1, <2>1, TextOnScreen, ConsoleStepsLaid
  <2> QED
    BY <2>1, <2>2 DEF TextInv, TextThere, TextPicture, TextLaid, Laid
<1> QED
  BY <1>2, <1>3

(* In a graphics mode what is printed is not remembered.                   *)
LEMMA EchoKeepsText == ASSUME ScreenInv, TextInv, Echo PROVE TextInv'
<1>1. PICK ch \in Key : Putchar(ch)
  BY DEF Echo
<1>2. Active => typed' = Moved
  BY <1>1 DEF Putchar, Remember, ScreenInv, Good, Active
<1>3. ConsoleNext /\ gfx' = gfx
  BY <1>1 DEF ConsoleNext, Echo
<1> QED
  BY <1>2, <1>3, ConsoleKeepsText

LEMMA SayKeepsText == ASSUME ScreenInv, TextInv, Say PROVE TextInv'
<1>1. PICK w \in Text : Write(w)
  BY DEF Say
<1>2. Active => typed' = Moved
  BY <1>1 DEF Write, Remember, ScreenInv, Good, Active
<1>3. ConsoleNext /\ gfx' = gfx
  BY <1>1 DEF ConsoleNext, Say
<1> QED
  BY <1>2, <1>3, ConsoleKeepsText

LEMMA ClsKeepsText == ASSUME ScreenInv, TextInv, exec_cls PROVE TextInv'
<1>1. Ready(con, inked) /\ Tidy(gfx) /\ (con.graphics_active <=> gfx.mode >= 2)
  BY DEF ScreenInv, Good
<1>2. CASE Active
  <2> DEFINE s == clear_buffer(Now)
             o == Origin(s.g)
  <2>1. Now = [g |-> gfx, c |-> con] /\ gfx.mode >= 2 /\ con.graphics_active
    BY <1>1, <1>2 DEF Now, Active
  <2>2. /\ Good(s.g, s.c, {}) /\ s = [g |-> s.g, c |-> s.c]
        /\ s.g.mode = gfx.mode /\ s.g.saved_fb = gfx.saved_fb /\ SameCursor(con, s.c)
    BY <1>1, <2>1, ClearMarks
  <2>3. con' = [s EXCEPT !.g = o].c /\ gfx' = [s EXCEPT !.g = o].g /\ typed' = typed
    BY <1>2 DEF exec_cls, Both
  <2>4. SameSight(s.g, o)
    BY <2>2, OriginTidy DEF Good
  <2> HIDE DEF o, s
  <2>5. con' = s.c /\ gfx' = o
    BY <2>2, <2>3
  <2>6. TextUntouched
    BY <2>1, <2>2, <2>3, <2>4, <2>5 DEF TextUntouched, TextPicture, SameSight
  <2> QED
    BY <2>6, StillThere
<1>3. CASE ~Active
  <2>1. ConsoleNext /\ gfx' = gfx
    BY <1>3 DEF exec_cls, ConsoleNext
  <2> QED
    BY <1>3, <2>1, ConsoleKeepsText
<1> QED
  BY <1>2, <1>3

LEMMA ShowKeepsText == ASSUME ScreenInv, TextInv, exec_show PROVE TextInv'
<1> DEFINE t == present(Now)
<1>1. Good(gfx, con, inked) /\ Now = [g |-> gfx, c |-> con]
  BY DEF ScreenInv, Now
<1>2. con' = t.c /\ gfx' = t.g /\ typed' = typed
  BY DEF exec_show, Both
<1>3. CASE gfx.mode >= 2
  <2> HIDE DEF t
  <2>1. SameMode(gfx, con, t)
    <3>1. t = present(Now)
      BY DEF t
    <3> QED
      BY <1>1, <1>3, <3>1, PresentShows
  <2>2. TextUntouched
    BY <1>2, <1>3, <2>1 DEF TextUntouched, TextPicture, SameMode
  <2> QED
    BY <2>2, StillThere
<1>4. CASE ~(gfx.mode >= 2)
  <2>1. gfx.mode < 2
    BY <1>1, <1>4 DEF Good, Tidy
  <2>2. t = Now
    BY <1>1, <2>1 DEF present
  <2>3. con' = con /\ gfx' = gfx
    BY <1>1, <1>2, <2>2
  <2>4. TextUntouched
    BY <1>2, <2>3 DEF TextUntouched, SameCursor
  <2> QED
    BY <2>4, StillThere
<1> QED
  BY <1>3, <1>4

LEMMA GraphicsKeepsText == ASSUME ScreenInv, TextInv, NEW mode \in Mode, exec_graphics(mode) PROVE TextInv'
<1> DEFINE t == set_mode(Now, mode)
<1>1. Good(gfx, con, inked) /\ Now = [g |-> gfx, c |-> con] /\ mode \in 0 .. 255
  BY GraphicsAssumption DEF ScreenInv, Now
<1>2. con' = t.c /\ gfx' = t.g /\ typed' = typed
  BY DEF exec_graphics, Both
<1> HIDE DEF t
<1>3. SameText(gfx, con, t)
  <2>1. t = set_mode(Now, mode)
    BY DEF t
  <2> QED
    BY <1>1, <2>1, SetModeGood
<1>4. TextUntouched
  BY <1>2, <1>3 DEF TextUntouched, SameText
<1> QED
  BY <1>4, StillThere

LEMMA TextStep == ASSUME ScreenInv, TextInv, [Next]_vars PROVE TextInv'
<1>1. CASE Echo
  BY <1>1, EchoKeepsText
<1>2. CASE Say
  BY <1>2, SayKeepsText
<1>3. CASE Stroking
  <2>1. CASE TextUntouched
    BY <2>1, StillThere
  <2>2. CASE typed' = Moved
    BY <2>2 DEF TextInv, TextThere
  <2> QED
    BY <1>3, <2>1, <2>2, StrokingInv
<1>4. CASE exec_cls
  BY <1>4, ClsKeepsText
<1>5. CASE exec_show
  BY <1>5, ShowKeepsText
<1>6. CASE \E mode \in Mode : exec_graphics(mode)
  BY <1>6, GraphicsKeepsText
<1>7. CASE UNCHANGED vars
  BY <1>7 DEF vars, TextInv, TextThere
<1> QED
  BY <1>1, <1>2, <1>3, <1>4, <1>5, <1>6, <1>7 DEF Next

----------------------------------------------------------------------------
(* Theorems.                                                               *)

LEMMA ScreenInit == Init => ScreenInv
<1> SUFFICES ASSUME Init PROVE ScreenInv
  OBVIOUS
<1>1. Ready(con, {}) /\ inked = {} /\ ~con.graphics_active
  BY NewReady DEF Init, ConsoleInit
<1>2. gfx = NewGraphics
  BY DEF Init
<1>3. Tidy(gfx) /\ ~(gfx.mode >= 2)
  BY <1>2, EmptyPicture, Sizes DEF NewGraphics, Tidy
<1> QED
  BY <1>1, <1>3 DEF ScreenInv, Good, Noted

(* The inductive invariant, of which the theorems below are parts.         *)
THEOREM ScreenInvariance == Spec => []ScreenInv
<1>1. Init => ScreenInv
  BY ScreenInit
<1>2. ScreenInv /\ [Next]_vars => ScreenInv'
  <2> SUFFICES ASSUME ScreenInv, [Next]_vars PROVE ScreenInv'
    OBVIOUS
  <2>1. CASE Echo
    BY <2>1, EchoInv
  <2>2. CASE Say
    BY <2>2, SayInv
  <2>3. CASE Stroking
    BY <2>3, StrokingInv
  <2>4. CASE exec_cls
    BY <2>4, ClsInv
  <2>5. CASE exec_show
    BY <2>5, ShowInv
  <2>6. CASE \E mode \in Mode : exec_graphics(mode)
    BY <2>6, GraphicsInv
  <2>7. CASE UNCHANGED vars
    BY <2>7 DEF vars, ScreenInv
  <2> QED
    BY <2>1, <2>2, <2>3, <2>4, <2>5, <2>6, <2>7 DEF Next
<1> QED
  BY <1>1, <1>2, PTL DEF Spec

(* Positions are on the screen, no dirty region ends below it, and the     *)
(* virtual pixels of a graphics mode fit it, on a screen of any size       *)
(* (term.rs:100-126, graphics.rs:144-160).                                 *)
THEOREM TypeCorrect == Spec => []TypeOK
<1>1. ScreenInv => TypeOK
  <2> SUFFICES ASSUME ScreenInv PROVE TypeOK
    OBVIOUS
  <2>1. ConsoleTypeOK
    BY ReadyTyped DEF ScreenInv, Good
  <2>2. Tidy(gfx) /\ (con.graphics_active <=> Active)
    BY DEF ScreenInv, Good, Active
  <2> QED
    BY <2>1, <2>2 DEF TypeOK, Tidy, Geometry, Active
<1> QED
  BY <1>1, ScreenInvariance, PTL

(* In a text mode nothing is held back between calls, and what was drawn   *)
(* is on the screen but for cursors left behind, whatever was printed,     *)
(* drawn and restored before, except on the lines FILLTO drew in in a text *)
(* mode (term.rs:193, 336, 393, graphics.rs:187).                          *)
THEOREM TextIsShown == Spec => []Shown
<1>1. ScreenInv => Shown
  BY ReadyShown DEF Shown, ScreenInv, Good
<1> QED
  BY <1>1, ScreenInvariance, PTL

(* Whatever mixture of writes and echoes it was printed by, the text is    *)
(* laid out on the screen as the reference lays it out, with the cursor    *)
(* after it, and it is again after any number of graphics modes and        *)
(* whatever was drawn in them (term.rs:352-391, graphics.rs:187).          *)
THEOREM TextIsLaidOut == Spec => []LaidOut
<1>1. Init => TextInv
  BY ScreenInit, NewLaid, TextOnScreen DEF Init, ScreenInv, Good, NewGraphics
<1>2. ScreenInv /\ TextInv /\ [Next]_vars => TextInv'
  BY TextStep
<1>3. ScreenInv /\ TextInv => LaidOut
  <2> SUFFICES ASSUME ScreenInv, TextInv, ~con.graphics_active PROVE LaidOut
    BY DEF LaidOut
  <2>1. Ready(con, inked) /\ ~(gfx.mode >= 2)
    BY DEF ScreenInv, Good
  <2> QED
    BY <2>1, TextOnScreen, LaidOutIs
<1> QED
  BY <1>1, <1>2, <1>3, ScreenInvariance, PTL DEF Spec

(* In a graphics mode, with one page or two, a line on which the screen    *)
(* differs from the shadow buffer is marked for SHOW, unless the console   *)
(* drew there (graphics.rs:230, 374).                                      *)
THEOREM ChangesAreMarked == Spec => []Marked
<1>1. ScreenInv => Marked
  BY DEF ScreenInv, Good, Noted, Page, Dirty, Marked, Active, Displayed
<1> QED
  BY <1>1, ScreenInvariance, PTL

(* DRAWTO draws a line, from any cursor to any point: it ends at its end,  *)
(* each point is a neighbour of the one before, and none is more than half *)
(* a pixel off the straight line (graphics.rs:280-309).                    *)
THEOREM LinesAreTrue == Spec => []LineTrue
<1>1. ScreenInv => LineTrue
  <2>1. ASSUME ScreenInv PROVE gfx.cursor \in Int \X Int /\ Point \subseteq Int \X Int
    BY <2>1, PointInt DEF ScreenInv, Good, Tidy
  <2> SUFFICES ASSUME ScreenInv, Active, NEW p \in Point
               PROVE  LET from == gfx.cursor
                          path == Path(from, p)
                          n == Steps(from, p)
                          off(q) == (p[1] - from[1]) * (q[2] - from[2]) - (p[2] - from[2]) * (q[1] - from[1])
                      IN  /\ path[n] = p
                          /\ \A i \in 1 .. n : Steps(path[i - 1], path[i]) = 1
                          /\ \A i \in 0 .. n : 2 * Abs(off(path[i])) <= n
    BY DEF LineTrue
  <2> QED
    BY <2>1, LineDrawn
<1> QED
  BY <1>1, ScreenInvariance, PTL
=============================================================================
