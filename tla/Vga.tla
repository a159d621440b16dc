-------------------------------- MODULE Vga --------------------------------
(***************************************************************************)
(* The text screen of src/kernel/drivers/vga.c: vga_putc store by store,   *)
(* for threads that interrupt each other.  Nothing guards the cursor, and  *)
(* vga_putc keeps the row and the column it has read in registers (the     *)
(* kernel is built with -Os).  memcpy moves one row of the screen per      *)
(* step; the position of the hardware cursor is two digits to the base     *)
(* PosBase.                                                                *)
(***************************************************************************)
EXTENDS Integers

CONSTANTS
    Threads,    \* who calls vga_putc
    Irq,        \* the thread that is an interrupt handler
    Rows,       \* NUM_ROWS
    Cols,       \* NUM_COLS
    TabStop,    \* 8
    SlackRows,  \* rows of video memory below the screen
    Glyphs,     \* printable characters
    Colors,
    White,      \* VGA_COLOR_WHITE on black
    PosBase     \* 256

Chars == Glyphs \cup {"bs", "tab", "cr", "lf", "nul"}

ASSUME VgaAssumption ==
    /\ Rows \in Nat \ {0} /\ Cols \in Nat \ {0} /\ TabStop \in Nat \ {0}
    /\ SlackRows \in Nat /\ PosBase \in Nat \ {0}
    /\ White \in Colors
    /\ Glyphs \cap {"bs", "tab", "cr", "lf", "nul"} = {}
    /\ Irq \in Threads

VARIABLES
    cur_x, cur_y,
    color,
    screen,     \* the cells of video memory
    crt,        \* the CRT controller: selected register, position high and low
    put         \* the activation of vga_putc in each thread

cursor == <<cur_x, cur_y>>
vga == <<cursor, color, screen, crt, put>>

Cells == 0 .. (Rows + SlackRows) * Cols - 1
BLANK == <<" ", White>>    \* 3872
Idle == [at |-> "idle", c |-> "nul", x |-> 0, y |-> 0, i |-> 0]

VgaInit ==
    /\ cur_x = 0 /\ cur_y = 0
    /\ color = White
    /\ screen = [i \in Cells |-> BLANK]
    /\ crt = [index |-> "hi", hi |-> 0, lo |-> 0]
    /\ put = [t \in Threads |-> Idle]

\* A handler runs with interrupts disabled, on top of what it interrupted.
Runs(t) == t = Irq \/ put[Irq].at = "idle"

At(t, line) == put[t].at = line /\ Runs(t)
Go(t, line) == put' = [put EXCEPT ![t].at = line]
Cell(x, y) == y * Cols + x

vga_set_color(k) == color' = k /\ UNCHANGED <<cursor, screen, crt, put>>

vga_putc(t, c) ==
    /\ At(t, "idle")
    /\ put' = [put EXCEPT ![t] = [Idle EXCEPT !.at = "load", !.c = c]]
    /\ UNCHANGED <<cursor, color, screen, crt>>

\* The column after a character read in column x.
column(c, x) ==
    CASE c = "bs"  -> x - 1
      [] c = "tab" -> ((x + TabStop) \div TabStop) * TabStop
      [] c = "cr"  -> 0
      [] OTHER     -> x + 1

\* What a character leaves on the screen: '\b' erases, a glyph has the color.
marks(c, x, y) ==
    CASE c = "bs"     -> [screen EXCEPT ![Cell(x - 1, y)] = BLANK]
      [] c \in Glyphs -> [screen EXCEPT ![Cell(x, y)] = <<c, color>>]
      [] OTHER        -> screen

load(t) ==
    /\ At(t, "load")
    /\ LET c == put[t].c IN
       put' = [put EXCEPT ![t].x = cur_x, ![t].y = cur_y, ![t].at =
                   CASE c = "lf"                -> "newline"
                     [] c = "nul"               -> "wrap"
                     [] c = "bs" /\ cur_x = 0   -> "scroll"
                     [] OTHER                   -> "store"]
    /\ UNCHANGED <<cursor, color, screen, crt>>

store(t) ==
    /\ At(t, "store")
    /\ cur_x' = column(put[t].c, put[t].x)
    /\ screen' = marks(put[t].c, put[t].x, put[t].y)
    /\ Go(t, "wrap")
    /\ UNCHANGED <<cur_y, color, crt>>

\* Mutant: the comparison is off by one.
wrap_late(t) ==
    /\ At(t, "wrap")
    /\ Go(t, IF cur_x > Cols THEN "newline" ELSE "scroll")
    /\ UNCHANGED <<cursor, color, screen, crt>>

wrap(t) ==
    /\ At(t, "wrap")
    /\ Go(t, IF cur_x >= Cols THEN "newline" ELSE "scroll")
    /\ UNCHANGED <<cursor, color, screen, crt>>

newline(t) ==
    /\ At(t, "newline")
    /\ cur_x' = 0
    /\ Go(t, "next_row")
    /\ UNCHANGED <<cur_y, color, screen, crt>>

next_row(t) ==
    /\ At(t, "next_row")
    /\ cur_y' = put[t].y + 1
    /\ Go(t, "scroll")
    /\ UNCHANGED <<cur_x, color, screen, crt>>

\* Scrolling is needed by x rows (the local temp).
scroll(t) ==
    /\ At(t, "scroll")
    /\ put' = IF cur_y >= Rows
              THEN [put EXCEPT ![t].at = "copy", ![t].x = cur_y - Rows + 1]
              ELSE [put EXCEPT ![t].at = "move"]
    /\ UNCHANGED <<cursor, color, screen, crt>>

copy_row(t) ==
    /\ At(t, "copy") /\ put[t].i < Rows - put[t].x
    /\ screen' = [n \in Cells |->
                     IF n \div Cols = put[t].i THEN screen[n + put[t].x * Cols]
                     ELSE screen[n]]
    /\ put' = [put EXCEPT ![t].i = @ + 1]
    /\ UNCHANGED <<cursor, color, crt>>

\* Mutant: the new last row keeps its old text.
clear_row_not(t) ==
    /\ At(t, "copy") /\ put[t].i >= Rows - put[t].x
    /\ cur_y' = Rows - 1
    /\ Go(t, "move")
    /\ UNCHANGED <<cur_x, color, screen, crt>>

\* Mutant: the cursor stays in the row below the screen.
clear_row_keeps_row(t) ==
    /\ At(t, "copy") /\ put[t].i >= Rows - put[t].x
    /\ screen' = [n \in Cells |-> IF n \div Cols = Rows - 1 THEN BLANK ELSE screen[n]]
    /\ Go(t, "move")
    /\ UNCHANGED <<cursor, color, crt>>

clear_row(t) ==
    /\ At(t, "copy") /\ put[t].i >= Rows - put[t].x
    /\ screen' = [n \in Cells |-> IF n \div Cols = Rows - 1 THEN BLANK ELSE screen[n]]
    /\ cur_y' = Rows - 1
    /\ Go(t, "move")
    /\ UNCHANGED <<cur_x, color, crt>>

move_cur(t) ==
    /\ At(t, "move")
    /\ put' = [put EXCEPT ![t].at = "out", ![t].i = 0,
                          ![t].y = Cell(cur_x, cur_y) \div PosBase,
                          ![t].x = Cell(cur_x, cur_y) % PosBase]
    /\ UNCHANGED <<cursor, color, screen, crt>>

next_out(r) == IF r.i = 3 THEN Idle ELSE [r EXCEPT !.i = r.i + 1]

\* The four outb: select, write the high byte, select, write the low byte.
outb(t) ==
    /\ At(t, "out")
    /\ crt' = CASE put[t].i = 0 -> [crt EXCEPT !.index = "hi"]
                [] put[t].i = 1 -> [crt EXCEPT ![crt.index] = put[t].y]
                [] put[t].i = 2 -> [crt EXCEPT !.index = "lo"]
                [] put[t].i = 3 -> [crt EXCEPT ![crt.index] = put[t].x]
    /\ put' = [put EXCEPT ![t] = next_out(put[t])]
    /\ UNCHANGED <<cursor, color, screen>>

PutStep(t) ==
    \/ load(t) \/ store(t) \/ wrap(t) \/ newline(t) \/ next_row(t)
    \/ scroll(t) \/ copy_row(t) \/ clear_row(t) \/ move_cur(t) \/ outb(t)

VgaNext ==
    \E t \in Threads :
        \/ PutStep(t)
        \/ \E c \in Chars : vga_putc(t, c)
        \/ \E k \in Colors : At(t, "idle") /\ vga_set_color(k)

VgaSpec == VgaInit /\ [][VgaNext]_vga

Quiet == \A t \in Threads : put[t].at = "idle"

\* Whatever threads did to each other in the middle of vga_putc, the cursor is on
\* the screen again when none of them is in it: each one that moves the cursor
\* compares it with the edges afterwards.
CursorOnScreen == Quiet => cur_x \in 0 .. Cols - 1 /\ cur_y \in 0 .. Rows - 1

\* A thread that works with a stale row never stores below video memory, and the
\* byte count that scroll gives memcpy, (NUM_ROWS - temp) rows, is not negative.
StoresInVideoMemory ==
    \A t \in Threads :
        /\ put[t].at = "store" /\ put[t].c \in Glyphs \cup {"bs"} =>
               Cell(put[t].x, put[t].y) - (IF put[t].c = "bs" THEN 1 ELSE 0) \in Cells
        /\ put[t].at = "copy" => put[t].x <= Rows
=============================================================================
