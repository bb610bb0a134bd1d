------------------------------ MODULE Drawing ------------------------------
(***************************************************************************)
(* Drawing on a screen or in a window buffer: kernel/graphics.c (vga_...), *)
(* kernel/bga.c (bga_... and bga_..._24), kernel/amiga/amiga.c, the parts  *)
(* of kernel/window_manager.c that draw, and ulib/user_window.c.           *)
(*                                                                         *)
(* A call is the set of pixels it writes: <<x, y>> for a shape of one      *)
(* colour, <<x, y, j, i>> when pixel <<x, y>> is copied from column j, row *)
(* i of an image.  Colours are left out.  Coordinates are what the code    *)
(* computes: they may lie outside the buffer, which is W wide, H high.     *)
(***************************************************************************)
EXTENDS Integers, Sequences, FiniteSets

CONSTANTS W, H,      \* the size of the buffer
          CW, CH     \* CHARACTER_WIDTH, CHARACTER_HEIGHT

Screen == (0 .. W - 1) \X (0 .. H - 1)

(* Where draw_pixel writes: an offset in the buffer, wherever <<x, y>> is. *)
draw_pixel(x, y) == y * W + x

bga_draw_pixel_24(x, y) == {(y * 3) * W + x * 3 + k : k \in 0 .. 2}

(* 16 colours: four planes of bits; the byte and the bit of a pixel. *)
vga_draw_pixel(x, y) == <<(y * W + x) \div 8, x % 8>>

(* The doubly nested loops of the drawing functions: the cells of a w by h *)
(* shape at <<x, y>> whose column is in xs and whose row is in ys.         *)
Cells(x, y, w, h, xs, ys) ==
    {<<x + c[1], y + c[2]>> :
        c \in {d \in (0 .. w - 1) \X (0 .. h - 1) : x + d[1] \in xs /\ y + d[2] \in ys}}

Glyph(x, y, size, xs, ys, bits) ==
    {p \in Cells(x, y, size[1], size[2], xs, ys) : <<p[1] - x, p[2] - y>> \in bits}

(* Characters and icons stop after column W and row H, not before them. *)
vga_draw_character(x, y, bits) == Glyph(x, y, <<CW, CH>>, 0 .. W, 0 .. H, bits)

bga_draw_character(x, y, bits) == Glyph(x, y, <<CW, CH>>, 0 .. W, 0 .. H, bits)

bga_draw_character_24(x, y, bits) == Glyph(x, y, <<CW, CH>>, 0 .. W, 0 .. H, bits)

drawCharacter(x, y, bits) == Glyph(x, y, <<CW, CH>>, 0 .. W, 0 .. H, bits)

vga_draw_icon(x, y, n, bits) == Glyph(x, y, <<n, n>>, 0 .. W, 0 .. H, bits)

bga_draw_icon(x, y, n, bits) == Glyph(x, y, <<n, n>>, 0 .. W, 0 .. H, bits)

bga_draw_icon_24(x, y, n, bits) == Glyph(x, y, <<n, n>>, 0 .. W, 0 .. H, bits)

(* The mouse pointer, a filled rectangle and an image stop in time. *)
vga_draw_mouse(x, y, size, bits) == Glyph(x, y, size, 0 .. W - 1, 0 .. H - 1, bits)

bga_draw_mouse(x, y, size, bits) == Glyph(x, y, size, 0 .. W - 1, 0 .. H - 1, bits)

bga_draw_mouse_24(x, y, size, bits) == Glyph(x, y, size, 0 .. W - 1, 0 .. H - 1, bits)

(* A rectangle is filled up to, and without, its last row and column. *)
vga_draw_rect_bound(x, y, w, h, mx, my) == Cells(x, y, w - 1, h - 1, 0 .. mx - 1, 0 .. my - 1)

bga_draw_rect_bound(x, y, w, h, mx, my) == Cells(x, y, w - 1, h - 1, 0 .. mx - 1, 0 .. my - 1)

bga_draw_rect_bound_24(x, y, w, h, mx, my) == Cells(x, y, w - 1, h - 1, 0 .. mx - 1, 0 .. my - 1)

vga_draw_rect(x, y, w, h) == vga_draw_rect_bound(x, y, w, h, W, H)

bga_draw_rect(x, y, w, h) == bga_draw_rect_bound(x, y, w, h, W, H)

bga_draw_rect_24(x, y, w, h) == bga_draw_rect_bound_24(x, y, w, h, W, H)

draw_rect_by_coord(xmin, ymin, xmax, ymax) ==
    bga_draw_rect_24(xmin, ymin, xmax - xmin, ymax - ymin)

fillRect(x, y, w, h, mx, my) == Cells(x, y, w, h, 0 .. mx - 1, 0 .. my - 1)

(* drawFillRect cuts the rectangle first and then leaves out row and column 0. *)
drawFillRect(x, y, w, h) ==
    LET x0 == IF x < 0 THEN 0 ELSE x
        y0 == IF y < 0 THEN 0 ELSE y
        w1 == IF x < 0 THEN w + x ELSE w
        h1 == IF y < 0 THEN h + y ELSE h
        w2 == IF x0 + w1 > W THEN W - x0 ELSE w1
        h2 == IF y0 + h1 > H THEN H - y0 ELSE h1
    IN  IF x >= W \/ x + w < 0 \/ y >= H \/ y + h < 0 \/ w < 0 \/ h < 0 THEN {}
        ELSE Cells(x0, y0, w2, h2, 1 .. W - 1, 1 .. H - 1)

-----------------------------------------------------------------------------
(* Borders: four lines, each with its own guard. *)
Row(x, y, w, xs) == {<<x + i, y>> : i \in {k \in 0 .. w - 1 : x + k \in xs}}

Col(x, y, h, ys) == {<<x, y + i>> : i \in {k \in 0 .. h - 1 : y + k \in ys}}

Outside(x, y, w, h) == x >= W \/ x + w < 0 \/ y >= H \/ y + h < 0 \/ w < 0 \/ h < 0

draw_rect_border(x, y, w, h) ==
    IF Outside(x, y, w, h) THEN {} ELSE
    (IF y > 0 THEN Row(x, y, w, 1 .. W - 1) ELSE {}) \cup
    (IF y + h < H /\ y > 0 THEN Row(x, y + h, w, 1 .. W - 1) ELSE {}) \cup
    (IF x > 0 THEN Col(x, y, h, 1 .. H - 1) ELSE {}) \cup
    (IF x + w < W THEN Col(x + w, y, h, 1 .. H - 1) ELSE {})

vga_draw_rect_border(x, y, w, h) == draw_rect_border(x, y, w, h)

bga_draw_rect_border(x, y, w, h) == draw_rect_border(x, y, w, h)

draw_rect_border_24(x, y, w, h) == draw_rect_border(x, y, w, h)

(* drawRect: "<=" lets the last row and column fall just outside the buffer. *)
drawRect(x, y, w, h) ==
    IF Outside(x, y, w, h) THEN {} ELSE
    (IF y >= 0 THEN Row(x, y, w, 0 .. W - 1) ELSE {}) \cup
    (IF y + h <= H /\ y >= 0 THEN Row(x, y + h, w, 1 .. W - 1) ELSE {}) \cup
    (IF x >= 0 THEN Col(x, y, h, 0 .. H - 1) ELSE {}) \cup
    (IF x + w <= W THEN Col(x + w, y, h, 0 .. H - 1) ELSE {})

-----------------------------------------------------------------------------
(* Images. *)
vga_draw_image(x, y, w, h, mx, my) ==
    {<<p[1], p[2], p[1] - x, p[2] - y>> : p \in Cells(x, y, w, h, 0 .. mx - 1, 0 .. my - 1)}

draw24Image(x, y, w, h) ==
    LET max_line == IF W - x < w THEN W - x ELSE w
    IN  {<<x + c[1], y + c[2], c[1], h - c[2] - 1>> :
            c \in {d \in (0 .. max_line - 1) \X (0 .. h - 1) : y + d[2] \in 0 .. H - 1}}

(* Wrong: a row is not cut at the right edge. *)
bga_draw_24_image_part_24Cut(x, y, w, h) ==
    LET minj == IF x < 0 THEN -x ELSE 0
        maxj == w
    IN  IF x >= W \/ y >= H \/ minj >= maxj THEN {}
        ELSE {<<x + c[1], y + c[2], minj + c[1], c[2]>> :
                c \in {d \in (0 .. maxj - minj - 1) \X (0 .. h - 1) : y + d[2] \in 0 .. H - 1}}

(* A window.  The cut at the left edge (minj) moves the place the row is   *)
(* copied from, not the place it is copied to.                             *)
bga_draw_24_image_part_24(x, y, w, h) ==
    LET minj == IF x < 0 THEN -x ELSE 0
        maxj == IF x + w > W THEN W - x ELSE w
    IN  IF x >= W \/ y >= H \/ minj >= maxj THEN {}
        ELSE {<<x + c[1], y + c[2], minj + c[1], c[2]>> :
                c \in {d \in (0 .. maxj - minj - 1) \X (0 .. h - 1) : y + d[2] \in 0 .. H - 1}}

(* The other two devices do not cut the row at all. *)
Unclipped(x, y, w, h) ==
    LET minj == IF x < 0 THEN -x ELSE 0
        maxj == IF x + w > W THEN W - x ELSE w
    IN  IF x >= W \/ y >= H \/ minj >= maxj THEN {}
        ELSE {<<x + c[1], y + c[2], c[1], c[2]>> :
                c \in {d \in (0 .. w - 1) \X (0 .. h - 1) : y + d[2] \in 0 .. H - 1}}

vga_draw_24_image_part(x, y, w, h) == Unclipped(x, y, w, h)

bga_draw_24_image_part(x, y, w, h) == Unclipped(x, y, w, h)

-----------------------------------------------------------------------------
(* Lines: Bresenham's loop, as the sequence of pixels it draws. *)
Abs(n) == IF n < 0 THEN -n ELSE n

RECURSIVE LineFrom(_, _, _, _, _, _, _, _, _)
LineFrom(x, y, x2, y2, dx, dy, sx, sy, err) ==
    IF x = x2 /\ y = y2 THEN <<<<x, y>>>> ELSE
    LET right == err > -dx
        down  == err < dy
    IN  <<<<x, y>>>> \o
        LineFrom(IF right THEN x + sx ELSE x, IF down THEN y + sy ELSE y, x2, y2, dx, dy, sx, sy,
                 err - (IF right THEN dy ELSE 0) + (IF down THEN dx ELSE 0))

draw_line(x1, y1, x2, y2) ==
    LET dx == Abs(x2 - x1)
        dy == Abs(y2 - y1)
    IN  LineFrom(x1, y1, x2, y2, dx, dy, IF x1 < x2 THEN 1 ELSE -1, IF y1 < y2 THEN 1 ELSE -1,
                 IF dx > dy THEN dx \div 2 ELSE -(dy \div 2))

vga_draw_line(x1, y1, x2, y2) == draw_line(x1, y1, x2, y2)

bga_draw_line(x1, y1, x2, y2) == draw_line(x1, y1, x2, y2)

bga_draw_line_24(x1, y1, x2, y2) == draw_line(x1, y1, x2, y2)

-----------------------------------------------------------------------------
(* Text: where each character of a string goes.  A string is a sequence of *)
(* "c" (a character with a glyph), "n" (a newline) and "u" (no glyph,      *)
(* for which draw_character returns -1).                                   *)
Advance(ch) == IF ch = "c" THEN CW ELSE -1

RECURSIVE StringFrom(_, _, _, _)
StringFrom(x, off, max, str) ==
    IF str = <<>> \/ off + CW > max THEN <<>>
    ELSE (IF str[1] = "c" THEN <<x + off>> ELSE <<>>) \o
         StringFrom(x, off + Advance(str[1]), max, Tail(str))

draw_string(x, str) == StringFrom(x, 0, CW * (Len(str) + 1), str)

vga_draw_string(x, str) == draw_string(x, str)

bga_draw_string(x, str) == draw_string(x, str)

bga_draw_string_24(x, str) == draw_string(x, str)

draw_string_with_max_width(x, width, str) == StringFrom(x, 0, width, str)

vga_draw_string_with_max_width(x, width, str) == draw_string_with_max_width(x, width, str)

bga_draw_string_with_max_width(x, width, str) == draw_string_with_max_width(x, width, str)

bga_draw_string_with_max_width_24(x, width, str) == draw_string_with_max_width(x, width, str)

-----------------------------------------------------------------------------
(* The dock of the desktop, drawn and clicked: the bar of the k-th of n    *)
(* windows is the interval of columns that belongs to it.                  *)
CONSTANTS SCREEN_WIDTH, START_ICON_WIDTH, SHOW_DESKTOP_ICON_WIDTH, DOCK_PROGRAM_NORMAL_WIDTH

BarWidth(n) ==
    LET share == (SCREEN_WIDTH - START_ICON_WIDTH - SHOW_DESKTOP_ICON_WIDTH) \div (n + 1)
    IN  IF share < DOCK_PROGRAM_NORMAL_WIDTH THEN share ELSE DOCK_PROGRAM_NORMAL_WIDTH

xStart(n, k) == START_ICON_WIDTH + 5 + (k - 1) * BarWidth(n)

drawDesktopDock(n, k) == xStart(n, k) .. xStart(n, k) + BarWidth(n) - 1

(* The other style: the callee's "xStart += barWidth" changes its own copy. *)
amiga_desktop_draw_active_applications(n, k) ==
    START_ICON_WIDTH + 5 .. START_ICON_WIDTH + 4 + BarWidth(n)

handleDesktopDockClick(n, k) == xStart(n, k) + 2 .. xStart(n, k) + BarWidth(n) - 1

-----------------------------------------------------------------------------
(* A window with its frame: the buffer, a border and a title bar, whose    *)
(* right end holds two buttons; and which of them a press on the bar hits. *)
CONSTANT TITLE_HEIGHT

draw_window_bar(xmax, part) ==
    LET from == xmax + 1 - (IF part = "close" THEN 1 ELSE 2) * TITLE_HEIGHT
    IN  {p[1] : p \in bga_draw_rect_bound_24(from, 0, TITLE_HEIGHT, TITLE_HEIGHT,
                                              SCREEN_WIDTH, TITLE_HEIGHT)}

PressedOnBar(xmax, x) ==
    IF x + 30 > xmax THEN "close" ELSE IF x + 60 > xmax THEN "minimize" ELSE "title"

drawWindow(x, y, w, h) ==
    {<<p[1], p[2]>> : p \in bga_draw_24_image_part_24(x, y, w, h)}
    \cup draw_rect_border_24(x, y, w, h)

-----------------------------------------------------------------------------
(* The widgets of a window, first to last: a widget is its kind, rectangle *)
(* and whether it moves when the window is scrolled by <<ox, oy>>.         *)
Scrolled(w, off) ==
    IF w.scrollable
    THEN [w EXCEPT !.xmin = @ - off[1], !.xmax = @ - off[1], !.ymin = @ - off[2], !.ymax = @ - off[2]]
    ELSE w

drawButtonWidget(w, off) ==
    LET v == Scrolled(w, off)
    IN  drawFillRect(v.xmin, v.ymin, v.xmax - v.xmin, v.ymax - v.ymin)
        \cup drawRect(v.xmin, v.ymin, v.xmax - v.xmin, v.ymax - v.ymin)

drawImageWidget(w, off) ==
    LET v == Scrolled(w, off)
    IN  {<<p[1], p[2]>> : p \in draw24Image(v.xmin, v.ymin, v.xmax - v.xmin, v.ymax - v.ymin)}

drawColorFillWidget(w, off) == drawImageWidget(w, off)

(* repaintWindow: what each widget paints, unless it is out of sight. *)
repaintWindow(ws, off) ==
    [i \in DOMAIN ws |->
        LET v == Scrolled(ws[i], off)
        IN  IF v.xmin > W \/ v.xmax < 0 \/ v.ymin > H \/ v.ymax < 0 THEN {}
            ELSE IF v.type = "BUTTON" THEN drawButtonWidget(ws[i], off)
            ELSE drawImageWidget(ws[i], off)]

isInRect(v, p) == v.xmin <= p[1] /\ p[1] <= v.xmax /\ v.ymin <= p[2] /\ p[2] <= v.ymax

(* updateWindow: the widget that a click gets, the last that lies under it. *)
Clicked(ws, off, p) ==
    LET under == {i \in DOMAIN ws : isInRect(Scrolled(ws[i], off), p)}
    IN  IF under = {} THEN 0 ELSE CHOOSE i \in under : \A j \in under : j <= i

-----------------------------------------------------------------------------
(* What the calls promise. *)
Shape(x, y, w, h) == {<<a, b>> \in (x .. x + w - 1) \X (y .. y + h - 1) : TRUE}

Picture(x, y, w, h) == {<<p[1], p[2], p[1] - x, p[2] - y>> : p \in Shape(x, y, w, h)}

OnScreen(ps) == {p \in ps : <<p[1], p[2]>> \in Screen}

All(w, h) == (0 .. w - 1) \X (0 .. h - 1)

(* What draws clipped draws all that is visible of its shape and nothing   *)
(* else; what draws unclipped does so wherever the shape lies inside; a    *)
(* window is drawn in place when its left edge is on the screen.           *)
ClippedAt(x, y, w, h) ==
    LET shape  == Shape(x, y, w, h)
        inside == shape \subseteq Screen
        window == bga_draw_24_image_part_24(x, y, w, h)
    IN  /\ fillRect(x, y, w, h, W, H) = OnScreen(shape)
        /\ bga_draw_mouse_24(x, y, <<w, h>>, All(w, h)) = OnScreen(shape)
        /\ bga_draw_rect_24(x, y, w + 1, h + 1) = OnScreen(shape)
        /\ vga_draw_image(x, y, w, h, W, H) = OnScreen(Picture(x, y, w, h))
        /\ x >= 0 => window = OnScreen(Picture(x, y, w, h))
        /\ OnScreen(shape) \ drawFillRect(x, y, w, h) \subseteq {p \in Screen : p[1] = 0 \/ p[2] = 0}
        /\ drawFillRect(x, y, w, h) \subseteq OnScreen(shape)
        /\ draw_rect_border(x, y, w, h) \subseteq OnScreen(Shape(x, y, w + 1, h + 1))
        /\ inside => /\ bga_draw_24_image_part(x, y, w, h) = Picture(x, y, w, h)
                     /\ OnScreen(Shape(x, y, w, w)) \subseteq bga_draw_icon_24(x, y, w, All(w, w))
                     /\ {p[3] : p \in draw24Image(x, y, w, h)} \subseteq 0 .. w - 1
                     /\ {p[4] : p \in draw24Image(x, y, w, h)} \subseteq 0 .. h - 1
        /\ x > 0 /\ shape # {} /\ Shape(x, y, w + 1, h + 1) \subseteq Screen =>
             Shape(x, y, w + 1, h + 1) \ drawRect(x, y, w, h)
               \subseteq Shape(x + 1, y + 1, w - 1, h - 1) \cup {<<x + w, y + h>>}

(* A line runs from one end to the other, one step at a time, along its    *)
(* longer side, inside the rectangle its ends span.                        *)
LineSound(x1, y1, x2, y2) ==
    LET l == draw_line(x1, y1, x2, y2)
        between(a, p, b) == (a <= p /\ p <= b) \/ (b <= p /\ p <= a)
    IN  /\ l[1] = <<x1, y1>> /\ l[Len(l)] = <<x2, y2>>
        /\ Len(l) = 1 + (IF Abs(x2 - x1) > Abs(y2 - y1) THEN Abs(x2 - x1) ELSE Abs(y2 - y1))
        /\ \A i \in 1 .. Len(l) : between(x1, l[i][1], x2) /\ between(y1, l[i][2], y2)
        /\ \A i \in 1 .. Len(l) - 1 : Abs(l[i + 1][1] - l[i][1]) <= 1 /\ Abs(l[i + 1][2] - l[i][2]) <= 1

(* Distinct pixels of the screen never share a bit or a byte. *)
PixelsApart ==
    \A p, q \in Screen : p # q =>
        /\ vga_draw_pixel(p[1], p[2]) # vga_draw_pixel(q[1], q[2])
        /\ bga_draw_pixel_24(p[1], p[2]) \cap bga_draw_pixel_24(q[1], q[2]) = {}
        /\ draw_pixel(p[1], p[2]) # draw_pixel(q[1], q[2])

(* A click inside the bar drawn for a window is a click for that window,   *)
(* and the bars neither overlap nor reach the show-desktop icon.           *)
DockSound(n) ==
    \A k \in 1 .. n :
        /\ handleDesktopDockClick(n, k) \subseteq drawDesktopDock(n, k)
        /\ \A m \in (1 .. n) \ {k} : handleDesktopDockClick(n, k) \cap drawDesktopDock(n, m) = {}
        /\ \A c \in drawDesktopDock(n, k) : c < SCREEN_WIDTH - SHOW_DESKTOP_ICON_WIDTH

(* A press on the close button, where it is drawn, closes; one on the      *)
(* minimise button minimises, except in the button's last column, which    *)
(* the press takes for the close button (30 columns against TITLE_HEIGHT). *)
BarSound(xmax) ==
    /\ \A x \in draw_window_bar(xmax, "close") : PressedOnBar(xmax, x) = "close"
    /\ \A x \in draw_window_bar(xmax, "minimize") :
         PressedOnBar(xmax, x) = (IF x = xmax - 29 THEN "close" ELSE "minimize")

(* What is painted can be clicked: a click on a pixel that a widget paints *)
(* goes to that widget or to a later one, which is painted over it.        *)
ClicksSound(ws, off) ==
    \A i \in DOMAIN ws : \A p \in repaintWindow(ws, off)[i] : Clicked(ws, off, p) >= i
=============================================================================
