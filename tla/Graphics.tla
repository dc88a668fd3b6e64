----------------------------- MODULE Graphics -----------------------------
(***************************************************************************)
(* The graphics modes of drivers/graphics.rs: virtual pixels drawn into    *)
(* the shadow buffer the console also draws into, and shown by present,    *)
(* either by copying the lines that changed or, on a card with two pages,  *)
(* by copying everything to the page that is not shown and showing that.   *)
(* Modes 0 and 1 are text; the text screen is saved when a graphics mode   *)
(* is entered and restored when it is left.                                *)
(*                                                                         *)
(* A colour is a set of inks, black is {}, and drawing with XOR takes the  *)
(* symmetric difference.  In TEXT a character covers its cell's body, one  *)
(* virtual pixel, and the one below it if it has a descender.              *)
(***************************************************************************)
EXTENDS Console, Integers

CONSTANTS
  MODE_TARGET_WIDTH,   \* of modes 0..5; 0 is the screen's own
  Mode, Point, Ink,    \* bounds: the modes, points and colours used
  can_flip             \* whether the card has two pages

(* A bound on coordinates, which are i32 in the code, and u32 when they    *)
(* are scaled.  Within it nothing overflows: neither 2 * err in drawto, at *)
(* most three times the distance (ErrorFits), nor a coordinate times       *)
(* pixel_scale, on a screen up to 10240 wide.                              *)
MaxCoordinate == 2 ^ 26
Coordinate == -MaxCoordinate .. MaxCoordinate

ASSUME GraphicsAssumption ==
  /\ MODE_TARGET_WIDTH \in [0..5 -> Nat] /\ Mode \subseteq 0..255
  /\ Point \subseteq Coordinate \X Coordinate /\ can_flip \in BOOLEAN

VARIABLES
  gfx,      \* the Graphics, with the saved text screen and the second page
  inked     \* the lines drawn in and not marked for what shows them: in a graphics
            \* mode those the console drew in, in a text mode those FILLTO drew in

White == {"white"}
Active == gfx.mode >= 2

----------------------------------------------------------------------------
(* The geometry of a mode: a virtual pixel is a square of pixel_scale.     *)

Scaled(mode) ==
  LET target == MODE_TARGET_WIDTH[mode]
  IN  IF mode = 5 \/ target = 0 THEN 1 ELSE Max({fb_width \div target, 1})

setup_virtual_res(g, mode) ==
  LET scale == Scaled(mode)
  IN  [g EXCEPT !.mode = mode, !.pixel_scale = scale,
                !.virt_width = fb_width \div scale, !.virt_height = fb_height \div scale,
                !.offset_x = (fb_width % scale) \div 2, !.offset_y = (fb_height % scale) \div 2]

OnScreen(g, p) == p[1] \in 0 .. g.virt_width - 1 /\ p[2] \in 0 .. g.virt_height - 1

Block(offset, i, scale) == {offset + i * scale + k : k \in 0 .. scale - 1}

(* The lines of the virtual pixel p, and its pixels.                       *)
LinesOf(g, p) == Block(g.offset_y, p[2], g.pixel_scale)
PixelsOf(g, p) == Block(g.offset_x, p[1], g.pixel_scale) \X LinesOf(g, p)

(* No virtual pixel is higher than the screen: the narrowest mode is 320   *)
(* wide, and no screen is 320 times as wide as high.                       *)
ASSUME GeometryAssumption == \A mode \in 2..5 : Scaled(mode) <= fb_height

----------------------------------------------------------------------------
(* Drawing.                                                                *)

(* Mutant: only the upper end of the dirty lines is extended.              *)
dirty_mark_up(g, y0, y1) ==
  IF g.dirty_y0 = g.dirty_y1
  THEN [g EXCEPT !.dirty_y0 = y0, !.dirty_y1 = y1]
  ELSE [g EXCEPT !.dirty_y0 = Min({@, y0})]

dirty_mark(g, y0, y1) ==
  IF g.dirty_y0 = g.dirty_y1
  THEN [g EXCEPT !.dirty_y0 = y0, !.dirty_y1 = y1]
  ELSE [g EXCEPT !.dirty_y0 = Min({@, y0}), !.dirty_y1 = Max({@, y1})]

Stroke(g, old) == IF g.draw_xor THEN SymDiff(old, g.draw_color) ELSE g.draw_color

Painted(lit) ==
  [con EXCEPT !.shadow = [y \in Line |-> [x \in Col |->
     IF <<x, y>> \in lit THEN Stroke(gfx, con.shadow[y][x]) ELSE con.shadow[y][x]]]]

(* The points are distinct and off the screen nothing is drawn; the cursor *)
(* of g is where the stroke ends.                                          *)
Draw(g, points) ==
  LET seen == {p \in points : OnScreen(g, p)}
      lines == UNION {LinesOf(g, p) : p \in seen}
  IN  /\ con' = Painted(UNION {PixelsOf(g, p) : p \in seen})
      /\ gfx' = IF seen = {} THEN g ELSE dirty_mark(g, Min(lines), Max(lines) + 1)
      /\ UNCHANGED <<typed, inked>>

At(g, p) == [g EXCEPT !.cursor = p]

plot(p) == Draw(At(gfx, p), {p})

Abs(n) == IF n < 0 THEN -n ELSE n

(* Mutant: the error term is not halved on the way.                        *)
TowardsCoarse(from, to, at) ==
  LET dx == Abs(to[1] - from[1])
      dy == Abs(to[2] - from[2])
      moveX == at.err > -dy
      moveY == at.err < dx
  IN  [p   |-> << at.p[1] + (IF ~moveX THEN 0 ELSE IF from[1] < to[1] THEN 1 ELSE -1),
                  at.p[2] + (IF ~moveY THEN 0 ELSE IF from[2] < to[2] THEN 1 ELSE -1) >>,
       err |-> at.err - (IF moveX THEN dy ELSE 0) + (IF moveY THEN dx ELSE 0)]

(* A step of drawto from where it is, with its error term.                 *)
Towards(from, to, at) ==
  LET dx == Abs(to[1] - from[1])
      dy == Abs(to[2] - from[2])
      moveX == 2 * at.err > -dy
      moveY == 2 * at.err < dx
  IN  [p   |-> << at.p[1] + (IF ~moveX THEN 0 ELSE IF from[1] < to[1] THEN 1 ELSE -1),
                  at.p[2] + (IF ~moveY THEN 0 ELSE IF from[2] < to[2] THEN 1 ELSE -1) >>,
       err |-> at.err - (IF moveX THEN dy ELSE 0) + (IF moveY THEN dx ELSE 0)]

Steps(from, to) == Max({Abs(to[1] - from[1]), Abs(to[2] - from[2])})

(* The points drawto visits; it stops when it is at its end, which         *)
(* LineTrue shows to be after Steps moves.                                 *)
Path(from, to) ==
  LET start == [p |-> from, err |-> Abs(to[1] - from[1]) - Abs(to[2] - from[2])]
      walk[i \in 0 .. Steps(from, to)] == IF i = 0 THEN start ELSE Towards(from, to, walk[i - 1])
  IN  [i \in 0 .. Steps(from, to) |-> walk[i].p]

drawto(p) ==
  LET path == Path(gfx.cursor, p)
  IN  Draw(At(gfx, p), {path[i] : i \in DOMAIN path})

(* The ends of a rectangle in one direction, clipped to n virtual pixels.  *)
(* If both corners are negative it reaches the far end: the code takes the *)
(* greater for a u32.  In a text mode n is 0, and so is the far end.       *)
Low(a, b) == Max({Min({a, b}), 0})

High(a, b, n) ==
  LET end == Max({n - 1, 0})
  IN  IF Max({a, b}) < 0 THEN end ELSE Min({Max({a, b}), end})

(* The rectangle is drawn as it is clipped, in a text mode too, and marked *)
(* even if it is empty.  One that begins right of the screen would be      *)
(* drawn over memory that is not the screen's, which is undefined.         *)
fillto(p) ==
  LET left   == Low(gfx.cursor[1], p[1])
      right  == High(gfx.cursor[1], p[1], gfx.virt_width)
      top    == Low(gfx.cursor[2], p[2])
      bottom == High(gfx.cursor[2], p[2], gfx.virt_height)
      phys_left   == gfx.offset_x + left * gfx.pixel_scale
      phys_right  == gfx.offset_x + (right + 1) * gfx.pixel_scale
      phys_top    == gfx.offset_y + top * gfx.pixel_scale
      phys_bottom == gfx.offset_y + (bottom + 1) * gfx.pixel_scale
  IN  /\ top <= bottom => left <= right + 1
      /\ con' = Painted((phys_left .. phys_right - 1) \X (phys_top .. phys_bottom - 1))
      /\ gfx' = dirty_mark(At(gfx, p), phys_top, phys_bottom)
      /\ IF Active THEN UNCHANGED <<typed, inked>>
         ELSE /\ inked' = inked \union {y \in Line : con'.shadow[y] # con.shadow[y]}
              /\ typed' = IF con' = con THEN typed ELSE Moved

text(s) ==
  LET x == gfx.cursor[1]
      y == gfx.cursor[2]
      body == {<<x + i - 1, y>> : i \in 1 .. Len(s)}
      foot == {<<x + i - 1, y + 1>> : i \in {k \in 1 .. Len(s) : s[k] \in Descender}}
  IN  /\ x + Len(s) \in Coordinate
      /\ Draw(At(gfx, <<x + Len(s), y>>), body \union foot)

Adjust(g) == gfx' = g /\ UNCHANGED <<con, typed, inked>>

pos(p) == Adjust(At(gfx, p))
set_color(ink) == Adjust([gfx EXCEPT !.draw_color = ink])
set_draw_mode(xor) == Adjust([gfx EXCEPT !.draw_xor = xor])

----------------------------------------------------------------------------
(* Showing, and changing modes.  The operators below take and return a     *)
(* pair s of a Graphics g and a Console c.                                 *)

clear_buffer(s) ==
  [g |-> [s.g EXCEPT !.dirty_y0 = 0, !.dirty_y1 = fb_height], c |-> [s.c EXCEPT !.shadow = Empty]]

present(s) ==
  IF s.g.mode < 2 THEN s
  ELSE IF can_flip THEN
    [g |-> [s.g EXCEPT !.draw_page = 1 - @, !.dirty_y0 = 0, !.dirty_y1 = 0,
                       !.page1 = IF s.g.draw_page = 0 THEN s.c.shadow ELSE @],
     c |-> IF s.g.draw_page = 0 THEN s.c ELSE CopyLines(s.c, Line)]
  ELSE IF s.g.dirty_y0 >= s.g.dirty_y1 THEN s
  ELSE
    [g |-> [s.g EXCEPT !.dirty_y0 = 0, !.dirty_y1 = 0],
     c |-> CopyLines(s.c, s.g.dirty_y0 .. s.g.dirty_y1 - 1)]

Origin(g) == At(g, <<0, 0>>)

enter(s, mode) ==
  present(clear_buffer(
    [g |-> [Origin(setup_virtual_res(s.g, mode)) EXCEPT !.saved_fb = s.c.shadow,
                                                        !.draw_color = White, !.draw_xor = FALSE],
     c |-> [s.c EXCEPT !.graphics_active = TRUE]]))

reconfigure(s, mode) ==
  present(clear_buffer([s EXCEPT !.g = Origin(setup_virtual_res(s.g, mode))]))

(* The restored text is copied to the first page; the cursor of the        *)
(* console stays where printing in the graphics mode took it.              *)
leave(s, mode) ==
  [g |-> [s.g EXCEPT !.mode = mode, !.virt_width = 0, !.virt_height = 0, !.pixel_scale = 1],
   c |-> [CopyLines([s.c EXCEPT !.shadow = s.g.saved_fb], Line) EXCEPT !.graphics_active = FALSE]]

set_mode(s, mode) ==
  IF mode > 5 THEN s
  ELSE IF s.g.mode < 2 /\ mode >= 2 THEN enter(s, mode)
  ELSE IF s.g.mode >= 2 /\ mode < 2 THEN leave(s, mode)
  ELSE IF s.g.mode >= 2 THEN reconfigure(s, mode)
  ELSE [s EXCEPT !.g.mode = mode]

NewGraphics ==
  [mode |-> 0, pixel_scale |-> 1, virt_width |-> 0, virt_height |-> 0, offset_x |-> 0, offset_y |-> 0,
   cursor |-> <<0, 0>>, draw_color |-> White, draw_xor |-> FALSE, draw_page |-> 0,
   dirty_y0 |-> 0, dirty_y1 |-> 0, saved_fb |-> Empty, page1 |-> Empty]
=============================================================================
