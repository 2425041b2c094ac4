------------------------------ MODULE Console -------------------------------
(***************************************************************************)
(* Console output: c_io.c, which writes the text screen.  The console      *)
(* window has the same routines (GraphicConsole) and stores a position     *)
(* elsewhere: row0 is what is added to the row.                            *)
(*                                                                         *)
(* The scroll region behaves like a sheet of paper that is pushed up; the  *)
(* history variable sheet is that sheet, with all its lines.               *)
(***************************************************************************)
EXTENDS Formatting

CONSTANTS
  RowZeros,         \* row0 of the builds: 0, and -1 with the console window
  MaxX, MaxY,       \* SCREEN_MAX_X and SCREEN_MAX_Y: 79 and 24
  Regions,          \* scroll regions asked for: <<x1, y1, x2, y2>>
  Letters,          \* the characters that are printed, besides "nl" and "cr"
  Formats,          \* the format codes that are printed, with arguments
  Fixed,            \* the places written by c_putchar_at
  MaxCalls, MaxLines   \* bounds: calls, and lines of a sheet

Width == MaxX + 1
Blank == " "

\* The regions asked for begin on the screen, and the other places written are
\* on it and in no region; a format code gets an argument of its type.
ConsoleAssumption ==
  /\ {MaxX, MaxY} \subseteq Nat /\ RowZeros \subseteq {0, -1}
  /\ \A r \in Regions : /\ r[1] \in 0 .. MaxX /\ r[3] \in Int /\ r[1] <= r[3]
                        /\ r[2] \in 0 .. MaxY /\ r[4] \in Int /\ r[2] <= r[4]
  /\ "nl" \notin Letters
  /\ Fixed \subseteq (0 .. MaxX) \X (0 .. MaxY)
  /\ \A p \in Fixed, r \in Regions : p[1] < r[1] \/ p[1] > r[3] \/ p[2] < r[2] \/ p[2] > r[4]
  /\ \A f \in Formats :
       /\ f[1].type \in {"d", "x", "o", "s", "c"} /\ f[1].width \in Nat
       /\ f[1].type \in {"d", "x", "o"} => f[2] \in Word
       /\ f[1].type = "s" => f[2] \in Seq(STRING)

ASSUME ConsoleAssumptions == ConsoleAssumption

VARIABLES
  con,      \* the variables of the module and the memory of the screen
  sheet,    \* history: the lines printed in the region since it was set
  above,    \* history: the number of lines that were scrolled away
  outside,  \* history: what was written outside the region
  calls,
  field,    \* the last format code and what was printed for it
  port      \* what left through the first serial port

conVars == <<con, sheet, above, outside, calls, field, port>>

Bound(low, v, high) == LET m == IF v < low THEN low ELSE v
                       IN IF m > high THEN high ELSE m

\* VIDEO_ADDR and SCREEN_ADDR.
Address(c, x, y) == x + (y + c.row0) * Width

\* __c_putchar_at: nothing is written if x or y is too big.
Store(c, x, y, ch) ==
  IF x <= MaxX /\ y <= MaxY THEN [c EXCEPT !.mem[Address(c, x, y)] = ch] ELSE c

BlankRow == [x \in 0 .. MaxX |-> Blank]

\* A number of cells from x on.
StoreRow(c, x1, x2, y, row) ==
  [c EXCEPT !.mem = [a \in DOMAIN @ |->
     IF Address(c, x1, y) <= a /\ a <= Address(c, x2, y)
     THEN row[a - Address(c, 0, y)] ELSE @[a]]]

c_setscroll(c, r) ==
  LET x1 == Bound(0, r[1], MaxX)
      y1 == Bound(0, r[2], MaxY)
  IN [c EXCEPT !.x1 = x1, !.y1 = y1, !.x2 = Bound(x1, r[3], MaxX),
               !.y2 = Bound(y1, r[4], MaxY), !.x = x1, !.y = y1]

c_moveto(c, x, y) ==
  [c EXCEPT !.x = Bound(c.x1, x + c.x1, c.x2), !.y = Bound(c.y1, y + c.y1, c.y2)]

Height(c) == c.y2 - c.y1 + 1

c_clearscroll(c) ==
  LET after[k \in 0 .. Height(c)] ==
        IF k = 0 THEN c
        ELSE StoreRow(after[k - 1], c.x1, c.x2, c.y1 + k - 1, BlankRow)
  IN  after[Height(c)]

\* What a line gets when the region moves up: another one, or blanks.
RowBelow_KeepsLast(c, s, y, lines) ==     \* the last lines stay: ShownAsPrinted
  [x \in 0 .. MaxX |-> s.mem[Address(c, x, IF y + lines <= c.y2 THEN y + lines ELSE y)]]
RowBelow(c, s, y, lines) ==
  [x \in 0 .. MaxX |->
     IF y + lines <= c.y2 THEN s.mem[Address(c, x, y + lines)] ELSE Blank]

\* The whole region or more: it is cleared.  Otherwise line by line.
c_scroll(c, lines) ==
  LET after[k \in 0 .. Height(c)] ==
        IF k = 0 THEN c
        ELSE StoreRow(after[k - 1], c.x1, c.x2, c.y1 + k - 1,
                      RowBelow(c, after[k - 1], c.y1 + k - 1, lines))
  IN  IF lines > c.y2 - c.y1
      THEN [c_clearscroll(c) EXCEPT !.x = c.x1, !.y = c.y1]
      ELSE after[Height(c)]

\* c_putchar scrolls first if the last character left the region.
Scrolled(c) ==
  IF c.y > c.y2 THEN [c_scroll(c, c.y - c.y2) EXCEPT !.y = c.y2] ELSE c

c_putchar(c, ch) ==
  LET s == Scrolled(c)
  IN CASE ch = "nl" ->
            [StoreRow(s, s.x, s.x2, s.y, BlankRow)
               EXCEPT !.x = s.x1, !.y = s.y + 1]
       [] ch = "cr" -> [s EXCEPT !.x = s.x1]
       [] OTHER ->
            LET p == Store(s, s.x, s.y, ch)
            IN IF s.x + 1 > s.x2 THEN [p EXCEPT !.x = s.x1, !.y = s.y + 1]
               ELSE [p EXCEPT !.x = s.x + 1]

c_puts(c, str) == FoldLeft(c_putchar, c, str)

\* c_putchar_at: a newline erases up to the end of the region that x is in, to
\* its beginning, or to the end of the screen.
c_putchar_at(c, x, y, ch) ==
  IF ch # "nl" THEN Store(c, x, y, ch)
  ELSE LET limit == IF x > c.x2 THEN MaxX
                    ELSE IF x >= c.x1 THEN c.x2 ELSE c.x1 - 1
       IN IF y <= MaxY /\ x <= limit
          THEN StoreRow(c, x, limit, y, BlankRow) ELSE c

\* What happens to printf's characters: a format code becomes its field.
c_printf(c, f) == c_puts(c, Field(f[1], f[2]))

\* serial.c: the kernel's messages in QEMU.  It has the conversions once more,
\* and every character waits until the transmitter is empty.
serial_char(sent, ch) == Append(sent, ch)
serial_field(f, arg) ==
  padstr(Converted(f, arg), f.width, f.left, IF f.zero THEN "0" ELSE " ")
serial_printf(sent, f) ==
  LET str == serial_field(f[1], f[2])
      after[k \in 0 .. Len(str)] ==
        IF k = 0 THEN sent ELSE serial_char(after[k - 1], str[k])
  IN after[Len(str)]

----------------------------------------------------------------------------
\* The sheet: a line is a function of the column.

Margin(c) == c.x2 - c.x1
EmptyLine(c) == [j \in 0 .. Margin(c) |-> Blank]
LineAt(s, c, i) == IF i < Len(s) THEN s[i + 1] ELSE EmptyLine(c)

\* One character on the sheet, at line i and column j.
OnSheet(s, c, i, j, ch) ==
  LET longer == s \o [k \in 1 .. (IF i < Len(s) THEN 0 ELSE i + 1 - Len(s)) |->
                        EmptyLine(c)]
  IN CASE ch = "nl" ->
            [longer EXCEPT ![i + 1] = [k \in DOMAIN @ |-> IF k < j THEN @[k] ELSE Blank]]
       [] ch = "cr" -> s
       [] OTHER -> [longer EXCEPT ![i + 1][j] = ch]

\* The state after one character: the console and the sheet.
Printed(s, ch) ==
  LET c == s.con
      i == s.above + (c.y - c.y1)
      d == c_putchar(c, ch)
      down == IF c.y > c.y2 THEN c.y - c.y2 ELSE 0
  IN [con |-> d, above |-> s.above + down,
      sheet |-> OnSheet(s.sheet, c, i, c.x - c.x1, ch)]

PrintAll(str) ==
  LET after[k \in 0 .. Len(str)] ==
        IF k = 0 THEN [con |-> con, above |-> above, sheet |-> sheet]
        ELSE Printed(after[k - 1], str[k])
      s == after[Len(str)]
  IN /\ con' = s.con /\ above' = s.above /\ sheet' = s.sheet
     /\ UNCHANGED outside

----------------------------------------------------------------------------
\* c_io_init and gcon_init, then the region that _init sets.
ConInit ==
  /\ \E row0 \in RowZeros, r \in Regions :
       con = c_setscroll([mem |-> [a \in row0 * Width .. Width * (MaxY + 1) - 1
                                     |-> Blank],
                          x1 |-> 0, y1 |-> 0, x2 |-> MaxX, y2 |-> MaxY,
                          x |-> 0, y |-> 0, row0 |-> row0], r)
  /\ sheet = <<>> /\ above = 0
  /\ outside = [p \in Fixed |-> Blank]
  /\ calls = 0 /\ field = <<>> /\ port = <<>>

PutChar ==
  \E ch \in Letters \union {"nl", "cr"} :
    PrintAll(<<ch>>) /\ UNCHANGED <<field, port>>

\* Bound: formatted output comes first, on the empty region.
Printf ==
  \E f \in Formats :
    /\ calls = 0
    /\ PrintAll(Field(f[1], f[2]))
    /\ field' = <<f, Field(f[1], f[2])>>
    /\ UNCHANGED port

\* The serial port shows the same field.
SerialPrintf ==
  \E f \in Formats :
    /\ calls = 0
    /\ port' = serial_printf(port, f)
    /\ field' = <<f, port'>>
    /\ UNCHANGED <<con, sheet, above, outside>>

MoveTo ==
  \E x \in 0 .. MaxX, y \in 0 .. MaxY :
    /\ con' = c_moveto(con, x, y)
    /\ above' = above
    /\ UNCHANGED <<sheet, outside, field, port>>

\* The status characters of the clock and the line under the banner.
PutCharAt ==
  \E p \in Fixed, ch \in Letters :
    /\ con' = c_putchar_at(con, p[1], p[2], ch)
    /\ outside' = [outside EXCEPT ![p] = ch]
    /\ UNCHANGED <<sheet, above, field, port>>

ClearScroll ==
  /\ con' = c_clearscroll(con)
  /\ sheet' = SubSeq(sheet, 1, IF above < Len(sheet) THEN above ELSE Len(sheet))
  /\ UNCHANGED <<above, outside, field, port>>

----------------------------------------------------------------------------
\* Properties.

Cell(x, y) == con.mem[Address(con, x, y)]

\* The region shows the last lines of the sheet; the cursor is in the region or
\* just below it.
RegionShowsSheet ==
  /\ \A i \in 0 .. con.y2 - con.y1, j \in 0 .. Margin(con) :
       Cell(con.x1 + j, con.y1 + i) = LineAt(sheet, con, above + i)[j]
  /\ \A p \in Fixed : Cell(p[1], p[2]) = outside[p]
  /\ con.x \in con.x1 .. con.x2 /\ con.y \in con.y1 .. con.y2 + 1

\* A printed field is as wide as asked, its padding stands at the right side,
\* and its digits read back give the argument, for the words without an
\* opposite too (c_io.c:288-399).
FieldsReadBack ==
  field # <<>> =>
    LET f == field[1][1]
        arg == field[1][2]
        text == Converted(f, arg)
        n == Len(text)
        all == field[2]
    IN /\ Len(all) = IF n < f.width THEN f.width ELSE n
       /\ text = IF f.left THEN SubSeq(all, 1, n)
                 ELSE SubSeq(all, Len(all) - n + 1, Len(all))
       /\ f.type = "d" =>
            IF arg < 0 THEN Head(text) = "-" /\ ValueOf(Tail(text), 10) = -arg
            ELSE ValueOf(text, 10) = arg
       /\ f.type = "x" => ValueOf(text, 16) = arg % (2 * Half)
       /\ f.type = "o" => ValueOf(text, 8) = arg % (2 * Half)

=============================================================================
