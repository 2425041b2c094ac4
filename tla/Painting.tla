------------------------------ MODULE Painting ------------------------------
(***************************************************************************)
(* Rectangles and the painters (video/rect.cpp, painter.cpp,               *)
(* painter32.cpp), and the choice of the video mode (vesa.c, video.c).     *)
(* A drawing routine is modelled by the set of pixels it writes, <<x, y>>  *)
(* with the corner of the screen at <<0, 0>>; its colours only by which of *)
(* them a pixel ends with.                                                 *)
(***************************************************************************)
EXTENDS Integers, Sequences

CONSTANTS
  Modes,        \* the video modes of the adapter, in its order
  WantedWidth, WantedHeight,
  FirstBest,    \* what best_diff may hold before the loop: it is not set
  Boxes,        \* the rectangles painted as boxes: <<x, y, width, height>>
  Scale,        \* the width of their bevel
  Glyph,        \* the font: the pixels <<column, row>> of a letter
  TextPlaces,   \* where text is drawn
  TextLengths   \* how many letters a text has

CURSOR_SIZE == 8

\* A mode has room for the pointer, and a box for its bevel.
ASSUME PaintingAssumption ==
  /\ Len(Modes) \in Nat /\ DOMAIN Modes = 1 .. Len(Modes) /\ FirstBest \subseteq Int
  /\ {WantedWidth, WantedHeight, Scale} \subseteq Nat
  /\ \A k \in 1 .. Len(Modes) :
       /\ {Modes[k].width, Modes[k].height} \subseteq Nat
       /\ CURSOR_SIZE <= Modes[k].width /\ CURSOR_SIZE <= Modes[k].height
  /\ \A b \in Boxes :
       {b[1], b[2], b[3], b[4]} \subseteq Int /\ Scale <= b[3] /\ Scale <= b[4]

FONT_WIDTH == 5
FONT_HEIGHT == 7

VARIABLES
  mode,         \* the mode that was chosen; 0 for none
  bounds,       \* the clip region of the painter: the whole screen
  painted,      \* the pixels that the last call wrote, and their colours
  job           \* the last call

paintVars == <<mode, bounds, painted, job>>

----------------------------------------------------------------------------
\* rect.cpp: both edges are kept; width and height follow.
Rect(x, y, w, h) ==
  [x |-> x, y |-> y, width |-> w, height |-> h, x2 |-> x + w, y2 |-> y + h]

ContainsPoint(r, x, y) == r.x <= x /\ x <= r.x2 /\ r.y <= y /\ y <= r.y2

Between(v, low, high) == IF v < low THEN low ELSE IF v > high THEN high ELSE v

Clip(r, o) ==
  LET x == Between(r.x, o.x, o.x2)
      y == Between(r.y, o.y, o.y2)
  IN Rect(x, y, Between(r.x2, o.x, o.x2) - x, Between(r.y2, o.y, o.y2) - y)

----------------------------------------------------------------------------
\* painter32.cpp (painter24.cpp differs in the bytes of a pixel).

Pixels(r) == (r.x .. r.x + r.width - 1) \X (r.y .. r.y + r.height - 1)

FillRect(r) == Pixels(Clip(r, bounds))

\* The loop ends before the last pixel: num is decremented and then tested.
Fill == Pixels(bounds) \ {<<bounds.x2 - 1, bounds.y2 - 1>>}

SetPixel(x, y) ==
  IF ContainsPoint(bounds, bounds.x + x, bounds.y + y)
  THEN {<<bounds.x + x, bounds.y + y>>} ELSE {}

DrawCursor(x, y) ==
  Pixels(Rect(Between(x, bounds.x, bounds.x2 - CURSOR_SIZE),
              Between(y, bounds.y, bounds.y2 - CURSOR_SIZE),
              CURSOR_SIZE, CURSOR_SIZE))

\* painter.cpp: a letter is drawn pixel by pixel, each scale times scale.
DrawChar(x, y, scale) ==
  UNION {SetPixel(x + g[1] * scale + i, y + g[2] * scale + j) :
           g \in Glyph, i \in 0 .. scale - 1, j \in 0 .. scale - 1}

\* The letters that DrawString starts: it stops at the right edge.
DrawString(x, y, scale, n) ==
  IF y + FONT_HEIGHT > bounds.y2 THEN {}
  ELSE UNION {DrawChar(x + (k - 1) * (FONT_WIDTH + 1) * scale, y, scale) :
                k \in {j \in 1 .. n :
                  /\ x + (j - 1) * (FONT_WIDTH + 1) * scale < bounds.x2
                  /\ y < bounds.y2
                  /\ x + (j - 1) * (FONT_WIDTH + 1) * scale + FONT_WIDTH * scale > 0
                  /\ y + FONT_HEIGHT * scale > 0}}

\* The nine rectangles of DrawBox, in the order in which they are filled, each
\* with the number of its colour.
BoxParts_OneShort(r, s) ==
  <<<<1, Rect(r.x + s, r.y + s, r.width - s * 2 - 1, r.height - s * 2)>>,
    <<2, Rect(r.x + s, r.y, r.width - s * 2, s)>>,
    <<2, Rect(r.x + s, r.y2 - s, r.width - s * 2, s)>>,
    <<3, Rect(r.x, r.y + s, s, r.height - s * 2)>>,
    <<3, Rect(r.x2 - s, r.y + s, s, r.height - s * 2)>>,
    <<4, Rect(r.x, r.y, s, s)>>, <<4, Rect(r.x2 - s, r.y, s, s)>>,
    <<4, Rect(r.x, r.y2 - s, s, s)>>, <<4, Rect(r.x2 - s, r.y2 - s, s, s)>>>>
BoxParts(r, s) ==
  <<<<1, Rect(r.x + s, r.y + s, r.width - s * 2, r.height - s * 2)>>,
    <<2, Rect(r.x + s, r.y, r.width - s * 2, s)>>,
    <<2, Rect(r.x + s, r.y2 - s, r.width - s * 2, s)>>,
    <<3, Rect(r.x, r.y + s, s, r.height - s * 2)>>,
    <<3, Rect(r.x2 - s, r.y + s, s, r.height - s * 2)>>,
    <<4, Rect(r.x, r.y, s, s)>>, <<4, Rect(r.x2 - s, r.y, s, s)>>,
    <<4, Rect(r.x, r.y2 - s, s, s)>>, <<4, Rect(r.x2 - s, r.y2 - s, s, s)>>>>

\* What the nine fills leave: a later one paints over an earlier one.
DrawBox(r, s) ==
  LET parts == BoxParts(r, s)
      After(k) == UNION {FillRect(parts[j][2]) : j \in k + 1 .. Len(parts)}
  IN  UNION {(FillRect(parts[k][2]) \ After(k)) \X {parts[k][1]} :
               k \in 1 .. Len(parts)}

----------------------------------------------------------------------------
\* vesa.c and video.c.

\* The modes that are considered: the attributes and the memory model are
\* right, the depth has a painter, and the screen is not too wide.
Usable(m) == m.ok /\ m.bpp \in {24, 32} /\ m.width <= WantedWidth

Distance(m) ==
  LET d == m.width * m.height - WantedWidth * WantedHeight
  IN IF d < 0 THEN -d ELSE d

\* One turn of the loop of _vesa_choose_mode; best_bpp stays 0, so that of two
\* modes as good the later one is taken.
Better(best, k) ==
  LET m == Modes[k]
  IN IF Usable(m) /\ best.diff >= Distance(m)
     THEN [mode |-> k, diff |-> Distance(m)] ELSE best

_vesa_choose_mode(first) ==
  LET best[k \in 0 .. Len(Modes)] ==
        IF k = 0 THEN [mode |-> 0, diff |-> first] ELSE Better(best[k - 1], k)
  IN  best[Len(Modes)].mode

\* _video_init selects the mode and measures the screen.  With mode 0 the
\* adapter says what screen there is; no size is known then.
PaintInit ==
  /\ \E first \in FirstBest : mode = _vesa_choose_mode(first)
  /\ bounds = IF mode = 0 THEN Rect(0, 0, 0, 0)
              ELSE Rect(0, 0, Modes[mode].width, Modes[mode].height)
  /\ painted = {} /\ job = <<"none">>

PaintBox ==
  \E b \in Boxes :
    /\ painted' = DrawBox(Rect(b[1], b[2], b[3], b[4]), Scale)
    /\ job' = <<"box", Rect(b[1], b[2], b[3], b[4])>>

PaintText ==
  \E p \in TextPlaces, n \in TextLengths :
    /\ painted' = DrawString(p[1], p[2], 1, n) \X {0}
    /\ job' = <<"text", p, n>>

\* The pointer was clamped to 0 .. width and 0 .. height before.
PaintCursor ==
  \E x \in 0 .. bounds.x2, y \in {0, bounds.y2} :
    /\ painted' = DrawCursor(x, y) \X {0}
    /\ job' = <<"cursor", x, y>>

PaintAll == painted' = Fill \X {0} /\ job' = <<"fill">>

PaintNext ==
  /\ mode # 0
  /\ PaintBox \/ PaintText \/ PaintCursor \/ PaintAll
  /\ UNCHANGED <<mode, bounds>>

PaintSpec == PaintInit /\ [][PaintNext]_paintVars

----------------------------------------------------------------------------
\* Properties.

Inside == (bounds.x .. bounds.x2 - 1) \X (bounds.y .. bounds.y2 - 1)

\* What FillRect, DrawBox, DrawCursor and Fill write stays on the screen, and a
\* box covers all of its rectangle that is on the screen, each pixel with one
\* colour: the nine parts leave no gap (painter.cpp:95-120, rect.cpp:63-71).
BoxTiled ==
  /\ job[1] \in {"box", "cursor", "fill"} => \A p \in painted : p[1] \in Inside
  /\ job[1] = "box" =>
       /\ {p[1] : p \in painted} = Pixels(job[2]) \cap Inside
       /\ \A p, q \in painted : p[1] = q[1] => p[2] = q[2]

\* "chooses a supported video mode closest to the provided resolution"
\* (video.h): no mode that could be used is closer than the chosen one.
ClosestMode ==
  \A k \in DOMAIN Modes : Usable(Modes[k]) =>
    mode # 0 /\ Distance(Modes[mode]) <= Distance(Modes[k])

\* "Restricts the drawing calls to the provided region" (painter.h).
TextClipped == job[1] = "text" => \A p \in painted : p[1] \in Inside
=============================================================================
