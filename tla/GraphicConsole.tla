--------------------------- MODULE GraphicConsole ---------------------------
(***************************************************************************)
(* The console window (video/gconsole.cpp): the routines of c_io.c over an *)
(* array of characters instead of the text screen, each followed by        *)
(* gcon_flush, and the view that the desktop thread paints from the array. *)
(* The macro SCREEN_ADDR takes 1 from the row: row0 is -1, and row 0 is    *)
(* stored in front of the array.  A build has one console or the other.    *)
(***************************************************************************)
EXTENDS Console

VARIABLES
  flushed,  \* whether something was written since the view was painted
  view      \* the lines that were painted, from the top

gconVars == <<conVars, flushed, view>>

\* Each routine computes on its array what its namesake computes on the screen;
\* c_io.h gives the one the name of the other, so that the actions of Console
\* are the actions of the console window, too.
gcon_setscroll(c, r) == c_setscroll(c, r)
gcon_moveto(c, x, y) == c_moveto(c, x, y)
gcon_putchar(c, ch) == c_putchar(c, ch)
gcon_putchar_at(c, x, y, ch) == c_putchar_at(c, x, y, ch)
gcon_scroll(c, lines) == c_scroll(c, lines)
gcon_puts(c, str) == c_puts(c, str)
gcon_clearscroll(c) == c_clearscroll(c)
gcon_field(f, arg) ==
  padstr(Converted(f, arg), f.width, f.left, IF f.zero THEN "0" ELSE " ")
gcon_printf(f) == gcon_field(f[1], f[2])

\* gcon_flush: the window is invalid.
gcon_flush == flushed' = FALSE

\* ConsoleView::Draw: from the start of the array, a line at a time while its
\* end is before the product of the last column and the last row; the last
\* column is left out.
DrawnRow(k) == k * Width
DrawnRows == {k \in 0 .. MaxY : MaxX + k * Width < MaxX * MaxY}

View(c) == [k \in DrawnRows |-> [j \in 0 .. MaxX - 1 |-> c.mem[DrawnRow(k) + j]]]

----------------------------------------------------------------------------
GInit ==
  /\ ConInit
  /\ flushed = FALSE /\ view = <<>>

GPutChar == PutChar /\ gcon_flush /\ UNCHANGED view
GPrintf ==
  /\ \E f \in Formats :
       /\ calls = 0
       /\ PrintAll(gcon_printf(f))
       /\ field' = <<f, gcon_printf(f)>>
       /\ UNCHANGED port
  /\ gcon_flush /\ UNCHANGED view
GMoveTo == MoveTo /\ UNCHANGED <<flushed, view>>
GPutCharAt == PutCharAt /\ gcon_flush /\ UNCHANGED view
GClearScroll == ClearScroll /\ gcon_flush /\ UNCHANGED view

GCall ==
  /\ calls < MaxCalls /\ calls' = calls + 1
  /\ above + con.y - con.y1 < MaxLines
  /\ \/ GPutChar \/ GPrintf \/ GMoveTo \/ GPutCharAt \/ GClearScroll
     \/ SerialPrintf /\ UNCHANGED <<flushed, view>>

DrawView ==
  /\ con.row0 = -1
  /\ view' = View(con) /\ flushed' = TRUE
  /\ UNCHANGED conVars

GNext == GCall \/ DrawView

GSpec == GInit /\ [][GNext]_gconVars

----------------------------------------------------------------------------
\* Properties.

\* Line k of the view is row k + 1 of the console (gconsole.cpp:49, 545-558).
ViewShowsSheet ==
  flushed => \A k \in DrawnRows, j \in 0 .. MaxX - 1 :
    (k + 1 \in con.y1 .. con.y2 /\ j \in con.x1 .. con.x2) =>
      view[k][j] = LineAt(sheet, con, above + k + 1 - con.y1)[j - con.x1]

\* The region of the screen, and each line that was painted of the console
\* window since the last output, show the last lines that were printed: however
\* characters, newlines, returns, movements and clears follow each other, the
\* scroll that is put off until the next character loses no line and repeats
\* none, and what was written at a fixed place outside the region stays
\* (c_io.c:165-286, gconsole.cpp:108-275, 545-558).
ShownAsPrinted == RegionShowsSheet /\ ViewShowsSheet

\* "If x or y is too big or small, don't do any output." (gconsole.cpp:80):
\* nothing is written in front of the array.
OutputOnScreen ==
  \A a \in DOMAIN con.mem : a < 0 => con.mem[a] = Blank
=============================================================================
