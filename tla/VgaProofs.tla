----------------------------- MODULE VgaProofs -----------------------------
(***************************************************************************)
(* The cursor of the text screen, for any number of threads, any screen    *)
(* and any messages.  A thread that has moved the cursor out of the screen *)
(* is still on its way to the comparison that brings it back: the column   *)
(* is too large only while somebody is at the end of the row, the row only *)
(* while somebody is about to scroll.                                      *)
(*                                                                         *)
(* The second half is about what the screen shows when calls of vga_putc   *)
(* do not overlap: at every line it is compared with an endless page.      *)
(***************************************************************************)
EXTENDS Console, WellFoundedInduction, TLAPS

Lines == {"idle", "load", "store", "wrap", "newline", "next_row", "scroll", "copy", "move", "out"}

\* An activation of vga_putc, for any character.
Activation(r) ==
    /\ r \in [at : Lines, c : {r.c}, x : Nat, y : Nat, i : Nat]
    /\ r.at = "store" /\ r.c = "bs" => r.x >= 1

PutOK ==
    /\ put = [t \in Threads |-> put[t]]
    /\ \A t \in Threads : Activation(put[t])

ColumnOK == cur_x < Cols \/ \E t \in Threads : put[t].at \in {"wrap", "newline"}
RowOK == cur_y < Rows \/ \E t \in Threads : put[t].at \in {"scroll", "copy"}

CursorInv == cur_x \in Nat /\ cur_y \in Nat /\ PutOK /\ ColumnOK /\ RowOK

\* What vga_putc's registers look like after one assignment to an activation.
LEMMA Updated ==
    ASSUME NEW f, NEW t \in Threads, NEW r, f = [u \in Threads |-> f[u]]
    PROVE  LET g == [f EXCEPT ![t] = r]
           IN /\ g = [u \in Threads |-> g[u]]
              /\ g[t] = r
              /\ \A u \in Threads \ {t} : g[u] = f[u]
  BY Zenon

\* A step keeps the invariant if it changes one activation, as follows.
LEMMA OneActivation ==
    ASSUME CursorInv, NEW t \in Threads, NEW r,
           put' = [put EXCEPT ![t] = r], Activation(r),
           cur_x' \in Nat, cur_y' \in Nat,
           cur_x' < Cols \/ r.at \in {"wrap", "newline"}
               \/ (cur_x' = cur_x /\ put[t].at \notin {"wrap", "newline"}),
           cur_y' < Rows \/ r.at \in {"scroll", "copy"}
               \/ (cur_y' = cur_y /\ put[t].at \notin {"scroll", "copy"})
    PROVE  CursorInv'
  <1>1. /\ put' = [u \in Threads |-> put'[u]]
        /\ put'[t] = r
        /\ \A u \in Threads \ {t} : put'[u] = put[u]
    BY Updated, Zenon DEF CursorInv, PutOK
  <1>2. PutOK'
    BY <1>1, Zenon DEF CursorInv, PutOK, Activation
  <1>3. ColumnOK'
    BY <1>1, Zenon DEF CursorInv, ColumnOK
  <1>4. RowOK'
    BY <1>1, Zenon DEF CursorInv, RowOK
  <1> QED
    BY <1>2, <1>3, <1>4, Zenon DEF CursorInv

\* The activations that the assignments of vga_putc lead to.
LEMMA Moves ==
    ASSUME NEW r, Activation(r), NEW line \in Lines, line # "store"
    PROVE  /\ Activation([r EXCEPT !.at = line]) /\ [r EXCEPT !.at = line].at = line
           /\ \A n \in Nat :
                  /\ Activation([r EXCEPT !.at = line, !.x = n])
                  /\ [r EXCEPT !.at = line, !.x = n].at = line
  BY Zenon DEF Activation

\* Each assignment of vga_putc keeps the invariant.
LEMMA PutStepKeeps ==
    ASSUME CursorInv, NEW t \in Threads, PutStep(t)
    PROVE  CursorInv'
  <1> USE VgaAssumption
  <1>0. /\ Activation(put[t]) /\ cur_x \in Nat /\ cur_y \in Nat
        /\ put = [u \in Threads |-> put[u]]
    BY Zenon DEF CursorInv, PutOK
  <1>1. CASE load(t)
    <2> DEFINE line == CASE put[t].c = "lf"               -> "newline"
                         [] put[t].c = "nul"              -> "wrap"
                         [] put[t].c = "bs" /\ cur_x = 0  -> "scroll"
                         [] OTHER                         -> "store"
               r == [put[t] EXCEPT !.x = cur_x, !.y = cur_y, !.at = line]
    <2>1. put[t].at = "load" /\ put' = [put EXCEPT ![t] = r] /\ cur_x' = cur_x /\ cur_y' = cur_y
      BY <1>1, <1>0, Zenon DEF load, At, cursor
    <2>2. line \in Lines /\ (line = "store" /\ put[t].c = "bs" => cur_x >= 1)
      BY <1>0 DEF Lines
    <2> HIDE DEF line
    <2>3. Activation(r)
      BY <1>0, <2>2, Zenon DEF Activation
    <2> QED
      BY <2>1, <2>3, <1>0, OneActivation, Zenon
  <1>2. CASE store(t)
    <2> DEFINE r == [put[t] EXCEPT !.at = "wrap"]
    <2>1. put[t].at = "store" /\ put' = [put EXCEPT ![t] = r] /\ cur_y' = cur_y
          /\ cur_x' = column(put[t].c, put[t].x)
      BY <1>2, <1>0, Zenon DEF store, At, Go
    <2>2. Activation(r) /\ r.at = "wrap"
      BY <1>0, Zenon DEF Activation, Lines
    <2>3. cur_x' \in Nat
      <3>1. put[t].x \in Nat /\ (put[t].c = "bs" => put[t].x >= 1)
        BY <1>0, <2>1, Zenon DEF Activation
      <3>2. TabStop \in Nat \ {0}
        BY Zenon
      <3>3. ((put[t].x + TabStop) \div TabStop) * TabStop \in Nat
        BY <3>1, <3>2
      <3> QED
        BY <2>1, <3>1, <3>3 DEF column
    <2> QED
      BY <2>1, <2>2, <2>3, <1>0, OneActivation, Zenon
  <1>3. CASE wrap(t)
    <2> DEFINE line == IF cur_x >= Cols THEN "newline" ELSE "scroll"
               r == [put[t] EXCEPT !.at = line]
    <2>1. put[t].at = "wrap" /\ put' = [put EXCEPT ![t] = r] /\ cur_x' = cur_x /\ cur_y' = cur_y
      BY <1>3, <1>0, Zenon DEF wrap, At, Go, cursor
    <2>2. line \in Lines /\ line # "store" /\ (line = "newline" \/ cur_x < Cols)
      BY <1>0 DEF Lines
    <2> HIDE DEF line
    <2>3. Activation(r) /\ r.at = line
      BY <1>0, <2>2, Moves, Zenon
    <2> QED
      BY <2>1, <2>2, <2>3, <1>0, OneActivation, Zenon
  <1>4. CASE newline(t)
    <2> DEFINE r == [put[t] EXCEPT !.at = "next_row"]
    <2>1. put[t].at = "newline" /\ put' = [put EXCEPT ![t] = r] /\ cur_x' = 0 /\ cur_y' = cur_y
      BY <1>4, <1>0, Zenon DEF newline, At, Go
    <2>2. Activation(r)
      BY <1>0, Moves, Zenon DEF Lines
    <2> QED
      BY <2>1, <2>2, <1>0, OneActivation
  <1>5. CASE next_row(t)
    <2> DEFINE r == [put[t] EXCEPT !.at = "scroll"]
    <2>1. put[t].at = "next_row" /\ put' = [put EXCEPT ![t] = r] /\ cur_x' = cur_x
          /\ cur_y' = put[t].y + 1
      BY <1>5, <1>0, Zenon DEF next_row, At, Go
    <2>2. Activation(r) /\ r.at = "scroll"
      BY <1>0, Moves, Zenon DEF Lines
    <2>3. cur_y' \in Nat
      BY <2>1, <1>0 DEF Activation
    <2> QED
      BY <2>1, <2>2, <2>3, <1>0, OneActivation, Zenon
  <1>6. CASE scroll(t)
    <2>1. CASE cur_y >= Rows
      <3> DEFINE r == [put[t] EXCEPT !.at = "copy", !.x = cur_y - Rows + 1]
      <3>1. put' = [put EXCEPT ![t] = r] /\ put[t].at = "scroll" /\ cur_x' = cur_x /\ cur_y' = cur_y
        BY <1>6, <1>0, <2>1, Zenon DEF scroll, At, cursor
      <3>2. Activation(r) /\ r.at = "copy"
        <4>1. cur_y - Rows + 1 \in Nat
          BY <1>0, <2>1
        <4> QED
          BY <1>0, <4>1, Zenon DEF Activation, Lines
      <3> QED
        BY <3>1, <3>2, <1>0, OneActivation, Zenon
    <2>2. CASE ~(cur_y >= Rows)
      <3> DEFINE r == [put[t] EXCEPT !.at = "move"]
      <3>1. put' = [put EXCEPT ![t] = r] /\ put[t].at = "scroll" /\ cur_x' = cur_x /\ cur_y' = cur_y
        BY <1>6, <1>0, <2>2, Zenon DEF scroll, At, cursor
      <3>2. Activation(r)
        BY <1>0, Moves, Zenon DEF Lines
      <3> QED
        BY <3>1, <3>2, <2>2, <1>0, OneActivation
    <2> QED
      BY <2>1, <2>2, Zenon
  <1>7. CASE copy_row(t)
    <2> DEFINE r == [put[t] EXCEPT !.i = @ + 1]
    <2>1. put[t].at = "copy" /\ put' = [put EXCEPT ![t] = r] /\ cur_x' = cur_x /\ cur_y' = cur_y
      BY <1>7, <1>0, Zenon DEF copy_row, At, cursor
    <2>2. Activation(r) /\ r.at = "copy"
      BY <1>0, <2>1 DEF Activation
    <2> QED
      BY <2>1, <2>2, <1>0, OneActivation, Zenon
  <1>8. CASE clear_row(t)
    <2> DEFINE r == [put[t] EXCEPT !.at = "move"]
    <2>1. put[t].at = "copy" /\ put' = [put EXCEPT ![t] = r] /\ cur_x' = cur_x /\ cur_y' = Rows - 1
      BY <1>8, <1>0, Zenon DEF clear_row, At, Go
    <2>2. Activation(r)
      BY <1>0, Moves, Zenon DEF Lines
    <2> QED
      BY <2>1, <2>2, <1>0, OneActivation
  <1>9. CASE move_cur(t)
    <2> DEFINE r == [put[t] EXCEPT !.at = "out", !.i = 0,
                                   !.y = Cell(cur_x, cur_y) \div PosBase,
                                   !.x = Cell(cur_x, cur_y) % PosBase]
    <2>1. put[t].at = "move" /\ put' = [put EXCEPT ![t] = r] /\ cur_x' = cur_x /\ cur_y' = cur_y
      BY <1>9, <1>0, Zenon DEF move_cur, At, cursor
    <2>2. Cell(cur_x, cur_y) \in Nat
      BY <1>0 DEF Cell
    <2>3. Cell(cur_x, cur_y) \div PosBase \in Nat /\ Cell(cur_x, cur_y) % PosBase \in Nat
      BY <2>2
    <2>4. Activation(r)
      BY <1>0, <2>3, Zenon DEF Activation, Lines
    <2> QED
      BY <2>1, <2>4, <1>0, OneActivation, Zenon
  <1>10. CASE outb(t)
    <2> DEFINE r == next_out(put[t])
    <2>1. put[t].at = "out" /\ put' = [put EXCEPT ![t] = r] /\ cur_x' = cur_x /\ cur_y' = cur_y
      BY <1>10, Zenon DEF outb, At, cursor
    <2>2. Activation(r)
      BY <1>0, <2>1 DEF Activation, next_out, Idle, Lines
    <2> QED
      BY <2>1, <2>2, <1>0, OneActivation, Zenon
  <1> QED
    BY <1>1, <1>2, <1>3, <1>4, <1>5, <1>6, <1>7, <1>8, <1>9, <1>10, Zenon DEF PutStep

\* Calling vga_putc keeps the invariant.
LEMMA PutcKeeps ==
    ASSUME CursorInv, NEW t \in Threads, NEW c, vga_putc(t, c)
    PROVE  CursorInv'
  <1> DEFINE r == [Idle EXCEPT !.at = "load", !.c = c]
  <1>1. put[t].at = "idle" /\ put' = [put EXCEPT ![t] = r] /\ cur_x' = cur_x /\ cur_y' = cur_y
    BY Zenon DEF vga_putc, At, cursor
  <1>2. Activation(r)
    BY Zenon DEF Activation, Idle, Lines
  <1> QED
    BY <1>1, <1>2, OneActivation, Zenon DEF CursorInv

\* The invariant is about the cursor and the activations of vga_putc only.
LEMMA UnchangedKeeps == CursorInv /\ UNCHANGED <<cur_x, cur_y, put>> => CursorInv'
  BY Zenon DEF CursorInv, PutOK, ColumnOK, RowOK

\* The invariant holds for a cleared screen.
LEMMA CursorInvInit == Init => CursorInv
  BY VgaAssumption DEF Init, VgaInit, CursorInv, PutOK, ColumnOK, RowOK, Activation, Idle, Lines

\* Every step of every thread keeps the invariant.
LEMMA CursorInvNext == CursorInv /\ [Next]_vars => CursorInv'
  <1> SUFFICES ASSUME CursorInv, [Next]_vars PROVE CursorInv'
    BY Zenon
  <1>1. ASSUME NEW t \in Threads, PutStep(t) PROVE CursorInv'
    BY <1>1, PutStepKeeps, Zenon
  <1>2. ASSUME NEW t \in Threads, putc(t) PROVE CursorInv'
    BY <1>2, PutcKeeps, Zenon DEF putc
  <1>3. ASSUME NEW t \in Threads, set_color(t) \/ serial_putc(t) PROVE CursorInv'
    BY <1>3, UnchangedKeeps, Zenon DEF set_color, serial_putc, vga_set_color, vga, cursor
  <1>4. ASSUME NEW t \in Threads, kprintf(t) \/ klog(t) PROVE CursorInv'
    BY <1>4, UnchangedKeeps, Zenon DEF kprintf, klog, Call, vga, cursor
  <1>5. CASE keyboard_echo
    BY <1>5, UnchangedKeeps, Zenon DEF keyboard_echo, Call, vga, cursor
  <1>6. CASE UNCHANGED vars
    BY <1>6, UnchangedKeeps, Zenon DEF vars, vga, cursor
  <1> QED
    BY <1>1, <1>2, <1>3, <1>4, <1>5, <1>6, Zenon DEF Next

\* Whenever no thread is inside vga_putc (vga.c:35), the cursor is on the screen,
\* however the threads interrupted each other before.
THEOREM CursorStaysOnScreen == Spec => []CursorOnScreen
  <1>1. CursorInv => CursorOnScreen
    BY VgaAssumption DEF CursorInv, PutOK, ColumnOK, RowOK, CursorOnScreen, Quiet
  <1> QED
    BY <1>1, CursorInvInit, CursorInvNext, PTL DEF Spec

-----------------------------------------------------------------------------
(***************************************************************************)
(* Where vga_putc stores, for the kernel's own two callers: one thread and *)
(* the handler that interrupts it.  The thread reads the cursor only when  *)
(* it is on the screen, for the handler always brings it back.  The        *)
(* handler may read the row below the screen, or a column right of it, but *)
(* never both, and with its own newline it reaches at most one row more.   *)
(***************************************************************************)

\* The lines between the read of the row and its use.
Holding == {"store", "wrap", "newline", "next_row"}

\* What the registers of an activation may hold.
Bounded(t, r) ==
    /\ r.at \in Holding => r.y < Rows \/ (t = Irq /\ r.y = Rows)
    /\ r.at = "store" => r.x < Cols \/ (t = Irq /\ r.x < Cols + TabStop /\ r.y < Rows)
    /\ r.at = "copy" => r.x <= 1 \/ (t = Irq /\ r.x <= 2)

Reach ==
    /\ cur_y <= Rows \/ (cur_y = Rows + 1 /\ put[Irq].at \in {"scroll", "copy"})
    /\ cur_x < Cols + TabStop \/ put[Irq].at \in {"wrap", "newline"}
    /\ \A t \in Threads : Bounded(t, put[t])

StoreInv == CursorInv /\ Reach

\* One thread besides the interrupt handler.
OneThread == \A t, u \in Threads \ {Irq} : t = u

\* A step keeps the registers within reach if it changes one activation, as follows.
LEMMA OneReach ==
    ASSUME StoreInv, NEW t \in Threads, NEW r,
           put' = [put EXCEPT ![t] = r], Bounded(t, r),
           cur_y' <= Rows \/ (t = Irq /\ cur_y' = Rows + 1 /\ r.at \in {"scroll", "copy"}),
           cur_x' < Cols + TabStop \/ (t = Irq /\ r.at \in {"wrap", "newline"})
    PROVE  Reach'
  <1>1. /\ put' = [u \in Threads |-> put'[u]]
        /\ put'[t] = r
        /\ \A u \in Threads \ {t} : put'[u] = put[u]
    BY Updated, Zenon DEF StoreInv, CursorInv, PutOK
  <1>2. \A u \in Threads : Bounded(u, put'[u])
    BY <1>1, Zenon DEF StoreInv, Reach
  <1>3. cur_y' <= Rows \/ (cur_y' = Rows + 1 /\ put'[Irq].at \in {"scroll", "copy"})
    BY <1>1, Zenon
  <1>4. cur_x' < Cols + TabStop \/ put'[Irq].at \in {"wrap", "newline"}
    BY <1>1, Zenon
  <1>5. (\A u \in Threads : Bounded(u, put[u]))'
    BY <1>2, Zenon DEF Bounded
  <1> QED
    BY <1>3, <1>4, <1>5, Zenon DEF Reach

\* What a thread that runs sees of the cursor.
LEMMA Sees ==
    ASSUME StoreInv, OneThread, NEW t \in Threads, Runs(t)
    PROVE  /\ t # Irq => cur_y <= Rows /\ cur_x < Cols + TabStop
           /\ cur_y <= Rows \/ (t = Irq /\ cur_y = Rows + 1 /\ put[t].at \in {"scroll", "copy"})
           /\ cur_x < Cols + TabStop \/ (t = Irq /\ put[t].at \in {"wrap", "newline"})
           /\ put[t].at = "load" => cur_y < Rows \/ (t = Irq /\ cur_y = Rows)
           /\ put[t].at = "load" => cur_x < Cols
                                      \/ (t = Irq /\ cur_x < Cols + TabStop /\ cur_y < Rows)
  <1> USE VgaAssumption
  <1>1. cur_x \in Nat /\ cur_y \in Nat /\ ColumnOK /\ RowOK
    BY Zenon DEF StoreInv, CursorInv
  <1>2. /\ cur_y <= Rows \/ (cur_y = Rows + 1 /\ put[Irq].at \in {"scroll", "copy"})
        /\ cur_x < Cols + TabStop \/ put[Irq].at \in {"wrap", "newline"}
    BY Zenon DEF StoreInv, Reach
  <1>3. t # Irq => put[Irq].at = "idle"
    BY Zenon DEF Runs
  <1>4. t # Irq => \A u \in Threads : u = t \/ u = Irq
    BY Zenon DEF OneThread
  <1>5. ASSUME put[t].at = "load" PROVE cur_y < Rows \/ (t = Irq /\ cur_y = Rows)
    <2>1. CASE cur_y < Rows
      BY <2>1, Zenon
    <2>2. CASE ~(cur_y < Rows)
      <3>1. PICK u \in Threads : put[u].at \in {"scroll", "copy"}
        BY <1>1, <2>2, Zenon DEF RowOK
      <3>2. t = Irq
        BY <3>1, <1>3, <1>4, <1>5, Zenon
      <3> QED
        BY <1>1, <1>2, <1>5, <2>2, <3>2
    <2> QED
      BY <2>1, <2>2, Zenon
  <1>6. ASSUME put[t].at = "load"
        PROVE  cur_x < Cols \/ (t = Irq /\ cur_x < Cols + TabStop /\ cur_y < Rows)
    <2>1. CASE cur_x < Cols
      BY <2>1, Zenon
    <2>2. CASE ~(cur_x < Cols)
      <3>1. PICK u \in Threads : put[u].at \in {"wrap", "newline"}
        BY <1>1, <2>2, Zenon DEF ColumnOK
      <3>2. t = Irq /\ u # Irq
        BY <3>1, <1>3, <1>4, <1>6, Zenon
      <3>3. cur_y < Rows
        <4>1. SUFFICES ASSUME ~(cur_y < Rows) PROVE FALSE
          BY Zenon
        <4>2. PICK v \in Threads : put[v].at \in {"scroll", "copy"}
          BY <1>1, <4>1, Zenon DEF RowOK
        <4>3. v # Irq /\ v # u
          BY <4>2, <3>1, <3>2, <1>6, Zenon
        <4> QED
          BY <4>3, <3>2, Zenon DEF OneThread
      <3> QED
        BY <1>2, <1>6, <3>2, <3>3, Zenon
    <2> QED
      BY <2>1, <2>2, Zenon
  <1> QED
    BY <1>1, <1>2, <1>3, <1>5, <1>6, Zenon

\* A column read on the screen leads at most a tab stop beyond it.
LEMMA ColumnBound ==
    ASSUME NEW c, NEW x \in Nat, x < Cols
    PROVE  column(c, x) < Cols + TabStop
  <1> USE VgaAssumption
  <1>1. ASSUME NEW n \in Nat PROVE (n \div TabStop) * TabStop <= n
    <2>1. n = TabStop * (n \div TabStop) + (n % TabStop) /\ n % TabStop \in 0 .. TabStop - 1
          /\ n \div TabStop \in Nat
      BY <1>1
    <2>2. ASSUME NEW q \in Nat PROVE q * TabStop = TabStop * q /\ TabStop * q \in Nat
      BY <2>2
    <2> QED
      BY <2>1, <2>2
  <1>2. ((x + TabStop) \div TabStop) * TabStop <= x + TabStop
    BY <1>1
  <1>3. ((x + TabStop) \div TabStop) * TabStop \in Int
    OBVIOUS
  <1>4. ASSUME NEW m \in Int, m <= x + TabStop PROVE m < Cols + TabStop
    BY <1>4
  <1>5. x - 1 < Cols + TabStop /\ 0 < Cols + TabStop /\ x + 1 < Cols + TabStop
    OBVIOUS
  <1> QED
    BY <1>2, <1>3, <1>4, <1>5, Zenon DEF column

\* Each assignment of vga_putc keeps the registers within reach.
LEMMA PutStepReach ==
    ASSUME StoreInv, OneThread, NEW t \in Threads, PutStep(t)
    PROVE  Reach'
  <1> USE VgaAssumption
  <1>0. /\ Activation(put[t]) /\ cur_x \in Nat /\ cur_y \in Nat /\ Bounded(t, put[t])
        /\ put = [u \in Threads |-> put[u]]
    BY Zenon DEF StoreInv, CursorInv, PutOK, Reach
  <1>R. Runs(t)
    BY Zenon DEF PutStep, load, store, wrap, newline, next_row, scroll, copy_row, clear_row,
           move_cur, outb, At
  <1>S. /\ t # Irq => cur_y <= Rows /\ cur_x < Cols + TabStop
        /\ cur_y <= Rows \/ (t = Irq /\ cur_y = Rows + 1 /\ put[t].at \in {"scroll", "copy"})
        /\ cur_x < Cols + TabStop \/ (t = Irq /\ put[t].at \in {"wrap", "newline"})
        /\ put[t].at = "load" => cur_y < Rows \/ (t = Irq /\ cur_y = Rows)
        /\ put[t].at = "load" => cur_x < Cols
                                   \/ (t = Irq /\ cur_x < Cols + TabStop /\ cur_y < Rows)
    BY <1>R, Sees, Zenon
  <1>1. CASE load(t)
    <2> DEFINE line == CASE put[t].c = "lf"               -> "newline"
                         [] put[t].c = "nul"              -> "wrap"
                         [] put[t].c = "bs" /\ cur_x = 0  -> "scroll"
                         [] OTHER                         -> "store"
               r == [put[t] EXCEPT !.x = cur_x, !.y = cur_y, !.at = line]
    <2>1. put[t].at = "load" /\ put' = [put EXCEPT ![t] = r] /\ cur_x' = cur_x /\ cur_y' = cur_y
      BY <1>1, <1>0, Zenon DEF load, At, cursor
    <2>2. line # "copy"
      BY Zenon
    <2> HIDE DEF line
    <2>3. r.at = line /\ r.x = cur_x /\ r.y = cur_y
      BY <1>0, Zenon DEF Activation
    <2>4. Bounded(t, r)
      BY <1>S, <2>1, <2>2, <2>3, Zenon DEF Bounded
    <2> HIDE DEF r
    <2> QED
      BY <2>1, <2>4, <1>S, OneReach, Zenon
  <1>2. CASE store(t)
    <2> DEFINE r == [put[t] EXCEPT !.at = "wrap"]
    <2>1. put[t].at = "store" /\ put' = [put EXCEPT ![t] = r] /\ cur_y' = cur_y
          /\ cur_x' = column(put[t].c, put[t].x)
      BY <1>2, <1>0, Zenon DEF store, At, Go
    <2>2. r.at = "wrap" /\ r.y = put[t].y /\ put[t].x \in Nat
      BY <1>0, Zenon DEF Activation
    <2>3. Bounded(t, r)
      BY <1>0, <2>1, <2>2, Zenon DEF Bounded, Holding
    <2>4. t # Irq => put[t].x < Cols
      BY <1>0, <2>1, Zenon DEF Bounded
    <2>5. t # Irq => cur_x' < Cols + TabStop
      BY <2>1, <2>2, <2>4, ColumnBound, Zenon
    <2> HIDE DEF r
    <2> QED
      BY <2>1, <2>2, <2>3, <2>5, <1>S, OneReach, Zenon
  <1>3. CASE wrap(t)
    <2> DEFINE line == IF cur_x >= Cols THEN "newline" ELSE "scroll"
               r == [put[t] EXCEPT !.at = line]
    <2>1. put[t].at = "wrap" /\ put' = [put EXCEPT ![t] = r] /\ cur_x' = cur_x /\ cur_y' = cur_y
      BY <1>3, <1>0, Zenon DEF wrap, At, Go, cursor
    <2>2. line \in {"newline", "scroll"} /\ (line = "newline" \/ cur_x < Cols + TabStop)
      BY <1>0
    <2> HIDE DEF line
    <2>3. r.at = line /\ r.y = put[t].y
      BY <1>0, Zenon DEF Activation
    <2>4. Bounded(t, r)
      BY <1>0, <2>1, <2>2, <2>3, Zenon DEF Bounded, Holding
    <2> HIDE DEF r
    <2> QED
      BY <2>1, <2>2, <2>3, <2>4, <1>S, OneReach, Zenon
  <1>4. CASE newline(t)
    <2> DEFINE r == [put[t] EXCEPT !.at = "next_row"]
    <2>1. put[t].at = "newline" /\ put' = [put EXCEPT ![t] = r] /\ cur_x' = 0 /\ cur_y' = cur_y
      BY <1>4, <1>0, Zenon DEF newline, At, Go
    <2>2. r.at = "next_row" /\ r.y = put[t].y
      BY <1>0, Zenon DEF Activation
    <2>3. Bounded(t, r)
      BY <1>0, <2>1, <2>2, Zenon DEF Bounded, Holding
    <2> HIDE DEF r
    <2>4. /\ cur_y' <= Rows \/ (t = Irq /\ cur_y' = Rows + 1 /\ r.at \in {"scroll", "copy"})
          /\ cur_x' < Cols + TabStop \/ (t = Irq /\ r.at \in {"wrap", "newline"})
      BY <2>1, <1>S, <1>0
    <2> QED
      BY <2>1, <2>3, <2>4, OneReach, Zenon
  <1>5. CASE next_row(t)
    <2> DEFINE r == [put[t] EXCEPT !.at = "scroll"]
    <2>1. put[t].at = "next_row" /\ put' = [put EXCEPT ![t] = r] /\ cur_x' = cur_x
          /\ cur_y' = put[t].y + 1
      BY <1>5, <1>0, Zenon DEF next_row, At, Go
    <2>2. r.at = "scroll" /\ put[t].y \in Nat
      BY <1>0, Zenon DEF Activation
    <2>3. Bounded(t, r)
      BY <2>2, Zenon DEF Bounded, Holding
    <2>4. put[t].y < Rows \/ (t = Irq /\ put[t].y = Rows)
      BY <1>0, <2>1, Zenon DEF Bounded, Holding
    <2> HIDE DEF r
    <2>5. /\ cur_y' <= Rows \/ (t = Irq /\ cur_y' = Rows + 1 /\ r.at \in {"scroll", "copy"})
          /\ cur_x' < Cols + TabStop \/ (t = Irq /\ r.at \in {"wrap", "newline"})
      BY <2>1, <2>2, <2>4, <1>S
    <2> QED
      BY <2>1, <2>3, <2>5, OneReach, Zenon
  <1>6. CASE scroll(t)
    <2>1. CASE cur_y >= Rows
      <3> DEFINE r == [put[t] EXCEPT !.at = "copy", !.x = cur_y - Rows + 1]
      <3>1. put' = [put EXCEPT ![t] = r] /\ put[t].at = "scroll" /\ cur_x' = cur_x /\ cur_y' = cur_y
        BY <1>6, <1>0, <2>1, Zenon DEF scroll, At, cursor
      <3>2. r.at = "copy" /\ r.x = cur_y - Rows + 1
        BY <1>0, Zenon DEF Activation
      <3>3. Bounded(t, r)
        BY <3>2, <1>S, <1>0, <2>1 DEF Bounded, Holding
      <3> HIDE DEF r
      <3> QED
        BY <3>1, <3>2, <3>3, <1>S, OneReach, Zenon
    <2>2. CASE ~(cur_y >= Rows)
      <3> DEFINE r == [put[t] EXCEPT !.at = "move"]
      <3>1. put' = [put EXCEPT ![t] = r] /\ put[t].at = "scroll" /\ cur_x' = cur_x /\ cur_y' = cur_y
        BY <1>6, <1>0, <2>2, Zenon DEF scroll, At, cursor
      <3>2. Bounded(t, r)
        BY <1>0, Zenon DEF Bounded, Holding, Activation
      <3> HIDE DEF r
      <3>3. cur_y' <= Rows
        BY <3>1, <2>2, <1>0
      <3> QED
        BY <3>1, <3>2, <3>3, <1>S, OneReach, Zenon
    <2> QED
      BY <2>1, <2>2, Zenon
  <1>7. CASE copy_row(t)
    <2> DEFINE r == [put[t] EXCEPT !.i = @ + 1]
    <2>1. put[t].at = "copy" /\ put' = [put EXCEPT ![t] = r] /\ cur_x' = cur_x /\ cur_y' = cur_y
      BY <1>7, <1>0, Zenon DEF copy_row, At, cursor
    <2>2. r.at = "copy" /\ r.x = put[t].x
      BY <1>0, <2>1, Zenon DEF Activation
    <2>3. Bounded(t, r)
      BY <1>0, <2>1, <2>2, Zenon DEF Bounded, Holding
    <2> HIDE DEF r
    <2> QED
      BY <2>1, <2>2, <2>3, <1>S, OneReach, Zenon
  <1>8. CASE clear_row(t)
    <2> DEFINE r == [put[t] EXCEPT !.at = "move"]
    <2>1. put[t].at = "copy" /\ put' = [put EXCEPT ![t] = r] /\ cur_x' = cur_x /\ cur_y' = Rows - 1
      BY <1>8, <1>0, Zenon DEF clear_row, At, Go
    <2>2. Bounded(t, r)
      BY <1>0, Zenon DEF Bounded, Holding, Activation
    <2> HIDE DEF r
    <2>3. /\ cur_y' <= Rows \/ (t = Irq /\ cur_y' = Rows + 1 /\ r.at \in {"scroll", "copy"})
          /\ cur_x' < Cols + TabStop \/ (t = Irq /\ r.at \in {"wrap", "newline"})
      BY <2>1, <1>S, <1>0
    <2> QED
      BY <2>1, <2>2, <2>3, OneReach, Zenon
  <1>9. CASE move_cur(t)
    <2> DEFINE r == [put[t] EXCEPT !.at = "out", !.i = 0,
                                   !.y = Cell(cur_x, cur_y) \div PosBase,
                                   !.x = Cell(cur_x, cur_y) % PosBase]
    <2>1. put[t].at = "move" /\ put' = [put EXCEPT ![t] = r] /\ cur_x' = cur_x /\ cur_y' = cur_y
      BY <1>9, <1>0, Zenon DEF move_cur, At, cursor
    <2>2. Bounded(t, r)
      BY <1>0, Zenon DEF Bounded, Holding, Activation
    <2> HIDE DEF r
    <2> QED
      BY <2>1, <2>2, <1>S, OneReach, Zenon
  <1>10. CASE outb(t)
    <2> DEFINE r == next_out(put[t])
    <2>1. put[t].at = "out" /\ put' = [put EXCEPT ![t] = r] /\ cur_x' = cur_x /\ cur_y' = cur_y
      BY <1>10, Zenon DEF outb, At, cursor
    <2>2. r.at \in {"out", "idle"}
      BY <1>0, <2>1, Zenon DEF Activation, next_out, Idle
    <2>3. Bounded(t, r)
      BY <2>2, Zenon DEF Bounded, Holding
    <2> HIDE DEF r
    <2> QED
      BY <2>1, <2>3, <1>S, OneReach, Zenon
  <1> QED
    BY <1>1, <1>2, <1>3, <1>4, <1>5, <1>6, <1>7, <1>8, <1>9, <1>10, Zenon DEF PutStep

\* The registers are within reach on a cleared screen.
LEMMA StoreInvInit == Init => StoreInv
  <1> SUFFICES ASSUME Init PROVE Reach
    BY CursorInvInit, Zenon DEF StoreInv
  <1>1. cur_x = 0 /\ cur_y = 0 /\ \A t \in Threads : put[t].at = "idle"
    BY Zenon DEF Init, VgaInit, Idle
  <1> QED
    BY <1>1, VgaAssumption DEF Reach, Bounded, Holding

\* Every step of the two callers keeps the registers within reach.
LEMMA StoreInvNext == OneThread /\ StoreInv /\ [Next]_vars => StoreInv'
  <1> SUFFICES ASSUME OneThread, StoreInv, [Next]_vars PROVE Reach'
    BY CursorInvNext, Zenon DEF StoreInv
  <1>0. UNCHANGED <<cur_x, cur_y, put>> => Reach'
    BY Zenon DEF StoreInv, Reach, Bounded
  <1>1. ASSUME NEW t \in Threads, PutStep(t) PROVE Reach'
    BY <1>1, PutStepReach, Zenon
  <1>2. ASSUME NEW t \in Threads, putc(t) PROVE Reach'
    <2> DEFINE r == [Idle EXCEPT !.at = "load", !.c = Argument(t)]
    <2>1. /\ put[t].at = "idle" /\ Runs(t)
          /\ put' = [put EXCEPT ![t] = r] /\ cur_x' = cur_x /\ cur_y' = cur_y
      BY <1>2, Zenon DEF putc, vga_putc, At, cursor
    <2>2. Bounded(t, r)
      BY Zenon DEF Bounded, Holding, Idle
    <2> HIDE DEF r
    <2>3. cur_y' <= Rows /\ cur_x' < Cols + TabStop
      BY <2>1, Sees, Zenon
    <2> QED
      BY <2>1, <2>2, <2>3, OneReach, Zenon
  <1>3. ASSUME NEW t \in Threads, set_color(t) \/ serial_putc(t) PROVE Reach'
    BY <1>0, <1>3, Zenon DEF set_color, serial_putc, vga_set_color, vga, cursor
  <1>4. ASSUME NEW t \in Threads, kprintf(t) \/ klog(t) PROVE Reach'
    BY <1>0, <1>4, Zenon DEF kprintf, klog, Call, vga, cursor
  <1>5. CASE keyboard_echo
    BY <1>0, <1>5, Zenon DEF keyboard_echo, Call, vga, cursor
  <1>6. CASE UNCHANGED vars
    BY <1>0, <1>6, Zenon DEF vars, vga, cursor
  <1> QED
    BY <1>1, <1>2, <1>3, <1>4, <1>5, <1>6, Zenon DEF Next

\* A cell of a row of video memory, and of the one below it for a column too far.
LEMMA CellBound ==
    ASSUME SlackRows >= 1, TabStop <= Cols, NEW x \in Nat, NEW y \in Nat,
           (y <= Rows /\ x < Cols) \/ (y < Rows /\ x < Cols + TabStop)
    PROVE  /\ Cell(x, y) \in Cells
           /\ x >= 1 => Cell(x, y) - 1 \in Cells
  <1> USE VgaAssumption
  <1>1. ASSUME NEW a \in Nat, NEW b \in Nat, a <= b PROVE a * Cols <= b * Cols /\ a * Cols \in Nat
    BY <1>1
  <1>2. (Rows + 1) * Cols = Rows * Cols + Cols /\ (y + 1) * Cols = y * Cols + Cols
    OBVIOUS
  <1>3. (Rows + 1) * Cols <= (Rows + SlackRows) * Cols
    BY <1>1
  <1>4. y <= Rows => y * Cols <= Rows * Cols
    BY <1>1, Zenon
  <1>5. y < Rows => (y + 1) * Cols <= Rows * Cols
    BY <1>1
  <1>6. y * Cols \in Nat /\ Rows * Cols \in Nat /\ (Rows + SlackRows) * Cols \in Nat
    BY <1>1
  <1> DEFINE p == y * Cols
             q == Rows * Cols
             all == (Rows + SlackRows) * Cols
  <1>7. /\ p \in Nat /\ q \in Nat /\ all \in Nat /\ q + Cols <= all
        /\ y <= Rows => p <= q
        /\ y < Rows => p + Cols <= q
    BY <1>2, <1>3, <1>4, <1>5, <1>6, Zenon
  <1>8. Cell(x, y) = p + x /\ Cells = 0 .. all - 1
    BY Zenon DEF Cell, Cells
  <1> HIDE DEF p, q, all
  <1> QED
    BY <1>7, <1>8

\* A thread and the handler that interrupts it never store outside video memory
\* (vga.c:42, vga.c:53), even with a stale row or column in a register, nor scroll by
\* more rows than the screen has (vga.c:16), if there is a row of video memory below
\* the screen and a tab stop is no wider than a row: the 32 kB at 0xB8000 hold 179
\* rows more than the 25 of the screen.
THEOREM StoresStayInVideoMemory ==
    ASSUME OneThread, SlackRows >= 1, Rows >= 2, TabStop <= Cols
    PROVE  Spec => []StoresInVideoMemory
  <1> USE VgaAssumption
  <1>1. StoreInv => StoresInVideoMemory
    <2> SUFFICES ASSUME StoreInv, NEW t \in Threads
                 PROVE  /\ put[t].at = "store" /\ put[t].c \in Glyphs \cup {"bs"} =>
                             Cell(put[t].x, put[t].y) - (IF put[t].c = "bs" THEN 1 ELSE 0) \in Cells
                        /\ put[t].at = "copy" => put[t].x <= Rows
      BY Zenon DEF StoresInVideoMemory
    <2>1. /\ put[t].x \in Nat /\ put[t].y \in Nat
          /\ put[t].at = "store" /\ put[t].c = "bs" => put[t].x >= 1
      BY Zenon DEF StoreInv, CursorInv, PutOK, Activation
    <2>2. Bounded(t, put[t])
      BY Zenon DEF StoreInv, Reach
    <2>3. put[t].at = "copy" => put[t].x <= Rows
      BY <2>1, <2>2 DEF Bounded
    <2>4. ASSUME put[t].at = "store"
          PROVE  Cell(put[t].x, put[t].y) - (IF put[t].c = "bs" THEN 1 ELSE 0) \in Cells
      <3>1. \/ put[t].y <= Rows /\ put[t].x < Cols
            \/ put[t].y < Rows /\ put[t].x < Cols + TabStop
        BY <2>1, <2>2, <2>4 DEF Bounded, Holding
      <3>2. /\ Cell(put[t].x, put[t].y) \in Cells
            /\ put[t].x >= 1 => Cell(put[t].x, put[t].y) - 1 \in Cells
        BY <2>1, <3>1, CellBound, Zenon
      <3>3. Cell(put[t].x, put[t].y) \in Int
        BY <2>1 DEF Cell
      <3> QED
        BY <2>1, <2>4, <3>2, <3>3
    <2> QED
      BY <2>3, <2>4, Zenon
  <1>2. StoreInv /\ [Next]_vars => StoreInv'
    BY StoreInvNext, Zenon
  <1> QED
    BY <1>1, <1>2, StoreInvInit, PTL DEF Spec
-----------------------------------------------------------------------------
(***************************************************************************)
(* What the screen shows, for the kernel's own two callers, as long as     *)
(* they do not overlap.                                                    *)
(***************************************************************************)

\* A set of naturals has a least element.
LEMMA LeastNatural ==
    ASSUME NEW A \in SUBSET Nat, A # {}
    PROVE  \E n \in A : \A m \in A : n <= m
  <1>1. PICK n \in A : \A x \in A : ~(<<x, n>> \in OpToRel(<, Nat))
    BY NatLessThanWellFounded, WFMin, Zenon
  <1>2. \A m \in A : ~(m < n)
    BY <1>1, Zenon DEF OpToRel
  <1> QED
    BY <1>2

\* A set of naturals that has 0, and with n < top also n + 1, has every natural up
\* to top: one it has not would leave a least one.
LEMMA UpTo ==
    ASSUME NEW top \in Nat, NEW Q, 0 \in Q,
           \A n \in 0 .. (top - 1) : n \in Q => n + 1 \in Q
    PROVE  \A n \in 0 .. top : n \in Q
  <1> DEFINE Wrong == {n \in 0 .. top : n \notin Q}
  <1>1. SUFFICES ASSUME Wrong # {} PROVE FALSE
    BY Zenon
  <1>2. PICK n \in Wrong : \A m \in Wrong : n <= m
    <2>1. Wrong \in SUBSET Nat
      OBVIOUS
    <2> HIDE DEF Wrong
    <2> QED
      BY <1>1, <2>1, LeastNatural, Zenon
  <1>3. n # 0
    BY <1>2, Zenon
  <1>4. n - 1 \in 0 .. (top - 1) /\ (n - 1) + 1 = n /\ n - 1 \in 0 .. top /\ ~(n <= n - 1)
    BY <1>2, <1>3
  <1>5. n - 1 \in Q
    BY <1>2, <1>4, Zenon
  <1> QED
    BY <1>2, <1>4, <1>5, Zenon

\* One page from the pages before it.
PageAt(s, g, i) == IF i = 0 THEN EmptyPage ELSE Typeset(g[i - 1], s[i])
Pages(s) == CHOOSE g : g = [i \in 0 .. Len(s) |-> PageAt(s, g, i)]

\* The pages of every prefix of a sequence exist.
LEMMA PagesExist ==
    ASSUME NEW S, NEW s \in Seq(S)
    PROVE  \A i \in 0 .. Len(s) : Pages(s)[i] = PageAt(s, Pages(s), i)
  <1> DEFINE Part(n) == \E g : g = [i \in 0 .. n |-> PageAt(s, g, i)]
             Q == {n \in Nat : Part(n)}
  <1>0. Len(s) \in Nat
    OBVIOUS
  <1>1. 0 \in Q
    <2> DEFINE g == [i \in 0 .. 0 |-> EmptyPage]
    <2>1. \A i \in 0 .. 0 : i = 0
      OBVIOUS
    <2>2. g = [i \in 0 .. 0 |-> PageAt(s, g, i)]
      BY <2>1, Zenon DEF PageAt
    <2> QED BY <2>2, Zenon
  <1>2. ASSUME NEW n \in 0 .. (Len(s) - 1), n \in Q PROVE n + 1 \in Q
    <2>1. PICK g : g = [i \in 0 .. n |-> PageAt(s, g, i)]
      BY <1>2, Zenon
    <2> DEFINE h == [i \in 0 .. n + 1 |-> PageAt(s, g, i)]
    <2>2. ASSUME NEW i \in 0 .. n + 1 PROVE PageAt(s, g, i) = PageAt(s, h, i)
      <3>1. CASE i = 0
        BY <3>1, Zenon DEF PageAt
      <3>2. CASE i # 0
        <4>1. i - 1 \in 0 .. n /\ i - 1 \in 0 .. n + 1
          BY <1>2, <3>2
        <4>2. g[i - 1] = PageAt(s, g, i - 1)
          BY <4>1, <2>1, Zenon
        <4>3. h[i - 1] = PageAt(s, g, i - 1)
          BY <4>1, Zenon
        <4>4. g[i - 1] = h[i - 1]
          BY <4>2, <4>3, Zenon
        <4> HIDE DEF h
        <4> QED BY <4>4, <3>2, Zenon DEF PageAt
      <3> QED BY <3>1, <3>2, Zenon
    <2>3. h = [i \in 0 .. n + 1 |-> PageAt(s, h, i)]
      BY <2>2, Zenon
    <2>4. Part(n + 1)
      BY <2>3, Zenon
    <2>5. n + 1 \in Nat
      OBVIOUS
    <2> HIDE DEF Part
    <2> QED BY <2>4, <2>5, Zenon
  <1>3. Len(s) \in Q
    <2>1. Len(s) \in 0 .. Len(s)
      BY <1>0
    <2> HIDE DEF Q
    <2> QED BY <1>0, <1>1, <1>2, <2>1, UpTo, Zenon
  <1>4. Pages(s) = [i \in 0 .. Len(s) |-> PageAt(s, Pages(s), i)]
    BY <1>3, Zenon DEF Pages
  <1> QED BY <1>4, Zenon

LEMMA PaperIsPage ==
    ASSUME NEW s
    PROVE  Paper(s) = Pages(s)[Len(s)]
  BY Zenon DEF Paper, Pages, PageAt

\* An empty page, and one character more.
LEMMA PaperEmpty == Paper(<<>>) = EmptyPage
  <1>1. <<>> \in Seq({}) /\ Len(<<>>) = 0 /\ 0 \in 0 .. Len(<<>>)
    OBVIOUS
  <1>2. Pages(<<>>)[0] = PageAt(<<>>, Pages(<<>>), 0)
    BY <1>1, PagesExist, Zenon
  <1> QED BY <1>1, <1>2, PaperIsPage, Zenon DEF PageAt

LEMMA PaperAppend ==
    ASSUME NEW S, NEW s \in Seq(S), NEW e
    PROVE  Paper(Append(s, e)) = Typeset(Paper(s), e)
  <1> DEFINE r == Append(s, e)
             P == Pages(s)
             R == Pages(r)
             Q == {n \in Nat : R[n] = P[n]}
  <1>0. /\ Len(s) \in Nat /\ r \in Seq(S \cup {e}) /\ Len(r) = Len(s) + 1
        /\ \A i \in 1 .. Len(s) : r[i] = s[i]
        /\ r[Len(s) + 1] = e
    OBVIOUS
  <1>1. \A i \in 0 .. Len(s) : P[i] = PageAt(s, P, i)
    BY PagesExist, Zenon
  <1>2. \A i \in 0 .. Len(r) : R[i] = PageAt(r, R, i)
    <2> HIDE DEF r
    <2> QED BY <1>0, PagesExist, Zenon
  <1> HIDE DEF r, P, R
  <1>3. 0 \in Q
    <2>1. 0 \in 0 .. Len(s) /\ 0 \in 0 .. Len(r)
      BY <1>0
    <2> QED BY <2>1, <1>1, <1>2, Zenon DEF PageAt
  <1>4. ASSUME NEW n \in 0 .. (Len(s) - 1), n \in Q PROVE n + 1 \in Q
    <2>1. n + 1 \in 1 .. Len(s) /\ n + 1 \in 0 .. Len(s) /\ n + 1 \in 0 .. Len(r)
          /\ (n + 1) - 1 = n /\ n + 1 # 0 /\ n + 1 \in Nat
      BY <1>0
    <2>2. P[n + 1] = Typeset(P[n], s[n + 1])
      BY <2>1, <1>1, Zenon DEF PageAt
    <2>3. R[n + 1] = Typeset(R[n], r[n + 1])
      BY <2>1, <1>2, Zenon DEF PageAt
    <2>4. r[n + 1] = s[n + 1] /\ R[n] = P[n]
      BY <1>0, <1>4, <2>1, Zenon
    <2> QED BY <2>1, <2>2, <2>3, <2>4, Zenon
  <1>5. R[Len(s)] = P[Len(s)]
    <2>1. Len(s) \in 0 .. Len(s)
      BY <1>0
    <2>2. Len(s) \in Q
      <3> HIDE DEF Q
      <3> QED BY <1>0, <1>3, <1>4, <2>1, UpTo, Zenon
    <2> QED BY <2>2, Zenon
  <1>6. R[Len(s) + 1] = Typeset(R[Len(s)], r[Len(s) + 1])
    <2>1. Len(s) + 1 \in 0 .. Len(r) /\ (Len(s) + 1) - 1 = Len(s) /\ Len(s) + 1 # 0
      BY <1>0
    <2> QED BY <2>1, <1>2, Zenon DEF PageAt
  <1>7. Paper(s) = P[Len(s)] /\ Paper(r) = R[Len(r)]
    BY PaperIsPage, Zenon DEF P, R
  <1>8. Paper(r) = Typeset(Paper(s), e)
    BY <1>0, <1>5, <1>6, <1>7, Zenon
  <1> QED BY <1>8, Zenon DEF r
-----------------------------------------------------------------------------
\* A page on which something has been written.
IsPage(p) ==
    /\ p.x \in 0 .. Cols - 1 /\ p.y \in Nat
    /\ \A q \in DOMAIN p.text : q[2] \in Nat /\ q[2] <= p.y

\* What one character changes of the text.
LEMMA TypesetText ==
    ASSUME NEW p, NEW e, NEW q
    PROVE  Letter(Typeset(p, e), q) =
              IF e[2] \in Glyphs /\ q = <<p.x, p.y>> THEN <<e[2], e[3]>>
              ELSE IF e[2] = "bs" /\ p.x > 0 /\ q = <<p.x - 1, p.y>> THEN BLANK
              ELSE Letter(p, q)
  <1> DEFINE written == CASE e[2] \in Glyphs           -> {<<p.x, p.y>>}
                          [] e[2] = "bs" /\ p.x > 0    -> {<<p.x - 1, p.y>>}
                          [] OTHER                     -> {}
             ink == IF e[2] = "bs" THEN BLANK ELSE <<e[2], e[3]>>
             text == [r \in DOMAIN p.text \cup written |->
                         IF r \in written THEN ink ELSE p.text[r]]
  <1>1. Typeset(p, e).text = text
    BY Zenon DEF Typeset
  <1>2. e[2] \in Glyphs => e[2] # "bs"
    BY VgaAssumption, Zenon
  <1>3. /\ e[2] \in Glyphs => written = {<<p.x, p.y>>}
        /\ e[2] = "bs" /\ p.x > 0 => written = {<<p.x - 1, p.y>>}
        /\ e[2] \notin Glyphs /\ ~(e[2] = "bs" /\ p.x > 0) => written = {}
    BY <1>2, Zenon
  <1> HIDE DEF written, ink
  <1>4. Letter(Typeset(p, e), q) = IF q \in written THEN ink ELSE Letter(p, q)
    <2>1. DOMAIN text = DOMAIN p.text \cup written
      BY Zenon
    <2>2. q \in written => Letter(Typeset(p, e), q) = ink
      BY <1>1, <2>1, Zenon DEF Letter
    <2>3. q \notin written /\ q \in DOMAIN p.text => Letter(Typeset(p, e), q) = p.text[q]
      BY <1>1, <2>1, Zenon DEF Letter
    <2>4. q \notin written /\ q \notin DOMAIN p.text => Letter(Typeset(p, e), q) = BLANK
      BY <1>1, <2>1, Zenon DEF Letter
    <2> QED
      BY <2>2, <2>3, <2>4, Zenon DEF Letter
  <1>5. ink = IF e[2] = "bs" THEN BLANK ELSE <<e[2], e[3]>>
    BY Zenon DEF ink
  <1> QED
    BY <1>2, <1>3, <1>4, <1>5, Zenon

\* A tab goes to the next multiple of TabStop.
LEMMA TabColumn ==
    ASSUME NEW x \in Nat
    PROVE  /\ x + TabStop - (x % TabStop) = ((x + TabStop) \div TabStop) * TabStop
           /\ ((x + TabStop) \div TabStop) * TabStop \in Nat
  <1>1. TabStop \in Nat \ {0}
    BY VgaAssumption, Zenon
  <1>2. PICK q \in Nat, r \in 0 .. (TabStop - 1) : x = TabStop * q + r /\ r = x % TabStop
    BY <1>1
  <1>3. x + TabStop = TabStop * (q + 1) + r /\ TabStop * (q + 1) = (q + 1) * TabStop
        /\ TabStop * (q + 1) \in Nat
    BY ONLY <1>1, <1>2, x \in Nat, q \in Nat, r \in 0 .. (TabStop - 1)
  <1>4. (TabStop * (q + 1) + r) \div TabStop = q + 1
    BY ONLY <1>1, q \in Nat, r \in 0 .. (TabStop - 1)
  <1>5. ((x + TabStop) \div TabStop) * TabStop = TabStop * (q + 1)
    BY <1>3, <1>4, Zenon
  <1>6. x + TabStop - r = TabStop * (q + 1)
    BY ONLY <1>1, <1>3, x \in Nat, r \in 0 .. (TabStop - 1), SMTT(30)
  <1> QED
    BY <1>2, <1>3, <1>5, <1>6, Zenon

\* What one character changes of the place of the next one: as vga_putc does.
LEMMA TypesetPlace ==
    ASSUME NEW p, IsPage(p), NEW e
    PROVE  LET n == Typeset(p, e)
               c == e[2]
               m == column(c, p.x)
           IN /\ c = "lf" => n.x = 0 /\ n.y = p.y + 1
              /\ c = "nul" \/ (c = "bs" /\ p.x = 0) => n.x = p.x /\ n.y = p.y
              /\ c \notin {"lf", "nul"} /\ (c = "bs" => p.x # 0) =>
                    /\ m \in Nat
                    /\ m >= Cols => n.x = 0 /\ n.y = p.y + 1
                    /\ m < Cols => n.x = m /\ n.y = p.y
  <1> DEFINE c == e[2]
             moved == CASE c = "lf"  -> <<0, p.y + 1>>
                        [] c = "cr"  -> <<0, p.y>>
                        [] c = "bs"  -> <<IF p.x = 0 THEN 0 ELSE p.x - 1, p.y>>
                        [] c = "tab" -> <<p.x + TabStop - (p.x % TabStop), p.y>>
                        [] c = "nul" -> <<p.x, p.y>>
                        [] OTHER     -> <<p.x + 1, p.y>>
             folded == IF moved[1] >= Cols THEN <<0, p.y + 1>> ELSE moved
             n == Typeset(p, e)
             m == column(c, p.x)
             tab == ((p.x + TabStop) \div TabStop) * TabStop
  <1>1. /\ p.x \in Nat /\ p.x < Cols /\ p.y \in Nat /\ Cols \in Nat \ {0}
        /\ TabStop \in Nat \ {0}
    BY VgaAssumption DEF IsPage
  <1>2. n.x = folded[1] /\ n.y = folded[2]
    BY Zenon DEF Typeset
  <1>3. p.x + TabStop - (p.x % TabStop) = tab /\ tab \in Nat
    BY <1>1, TabColumn, Zenon
  <1>4. m = CASE c = "bs" -> p.x - 1 [] c = "tab" -> tab [] c = "cr" -> 0 [] OTHER -> p.x + 1
    BY Zenon DEF column
  <1> HIDE DEF n, m, tab
  <1>5. CASE c = "lf"
    <2>1. moved = <<0, p.y + 1>>
      BY <1>5, Zenon
    <2> QED
      BY <1>1, <1>2, <1>5, <2>1, Zenon DEF n, m
  <1>6. CASE c = "nul"
    <2>1. moved = <<p.x, p.y>>
      BY <1>6, Zenon
    <2> QED
      BY <1>1, <1>2, <1>6, <2>1 DEF n, m
  <1>7. CASE c = "bs" /\ p.x = 0
    <2>1. moved = <<0, p.y>>
      BY <1>7, Zenon
    <2> QED
      BY <1>1, <1>2, <1>7, <2>1 DEF n, m
  <1>8. CASE c \notin {"lf", "nul"} /\ (c = "bs" => p.x # 0)
    <2>1. moved = <<m, p.y>>
      BY <1>3, <1>4, <1>8, Zenon
    <2>2. m \in Nat
      BY <1>1, <1>3, <1>4, <1>8
    <2> HIDE DEF moved
    <2>3. moved[1] = m /\ moved[2] = p.y
      BY <2>1, Zenon
    <2>4. /\ m >= Cols => folded = <<0, p.y + 1>>
          /\ m < Cols => folded = <<m, p.y>>
      BY <2>1, <2>2, <2>3, <1>1
    <2> HIDE DEF folded
    <2>5. /\ m >= Cols => n.x = 0 /\ n.y = p.y + 1
          /\ m < Cols => n.x = m /\ n.y = p.y
      BY <2>4, <1>2
    <2> QED
      BY <1>8, <2>2, <2>5, Zenon DEF n, m
  <1> QED
    BY <1>5, <1>6, <1>7, <1>8, Zenon
\* The page after one character: text only up to the row before.
LEMMA TypesetPage ==
    ASSUME NEW p, IsPage(p), NEW e
    PROVE  LET n == Typeset(p, e)
           IN /\ IsPage(n)
              /\ n.y \in {p.y, p.y + 1}
              /\ \A q \in DOMAIN n.text : q[2] \in Nat /\ q[2] <= p.y
  <1> DEFINE n == Typeset(p, e)
             c == e[2]
             m == column(c, p.x)
             written == CASE c \in Glyphs           -> {<<p.x, p.y>>}
                          [] c = "bs" /\ p.x > 0    -> {<<p.x - 1, p.y>>}
                          [] OTHER                  -> {}
  <1>1. p.x \in Nat /\ p.x < Cols /\ p.y \in Nat /\ Cols \in Nat \ {0}
    BY VgaAssumption DEF IsPage
  <1>2. /\ c = "lf" => n.x = 0 /\ n.y = p.y + 1
        /\ c = "nul" \/ (c = "bs" /\ p.x = 0) => n.x = p.x /\ n.y = p.y
        /\ c \notin {"lf", "nul"} /\ (c = "bs" => p.x # 0) =>
              /\ m \in Nat
              /\ m >= Cols => n.x = 0 /\ n.y = p.y + 1
              /\ m < Cols => n.x = m /\ n.y = p.y
    BY TypesetPlace, Zenon
  <1>3. DOMAIN n.text = DOMAIN p.text \cup written
    BY Zenon DEF Typeset
  <1>4. \A q \in written : q[2] = p.y
    OBVIOUS
  <1> HIDE DEF n, m, written
  <1>5. n.x \in 0 .. Cols - 1 /\ n.y \in {p.y, p.y + 1}
    BY <1>1, <1>2
  <1>6. \A q \in DOMAIN n.text : q[2] \in Nat /\ q[2] <= p.y
    BY <1>1, <1>3, <1>4 DEF IsPage
  <1>7. \A q \in DOMAIN n.text : q[2] \in Nat /\ q[2] <= n.y
    BY <1>1, <1>5, <1>6
  <1>8. IsPage(n)
    BY <1>1, <1>5, <1>7 DEF IsPage
  <1> QED
    BY <1>5, <1>6, <1>8, Zenon DEF n

\* The cells of the screen are those of its rows and columns, each of them once.
LEMMA Division ==
    ASSUME NEW k \in Nat \ {0}, NEW x \in 0 .. k - 1, NEW y \in Nat
    PROVE  (y * k + x) \div k = y /\ y * k \in Nat
  <1>1. y * k + x = k * y + x /\ k * y \in Nat
    OBVIOUS
  <1>2. (k * y + x) \div k = y
    OBVIOUS
  <1> QED
    BY <1>1, <1>2

LEMMA CellRow ==
    ASSUME NEW x \in 0 .. Cols - 1, NEW y \in 0 .. Rows - 1
    PROVE  Cell(x, y) \in Cells /\ Cell(x, y) \div Cols = y
  <1>1. Cols \in Nat \ {0} /\ Rows \in Nat \ {0} /\ SlackRows \in Nat /\ y \in Nat
    BY VgaAssumption
  <1>2. Cell(x, y) \div Cols = y /\ y * Cols \in Nat
    BY <1>1, Division, Zenon DEF Cell
  <1>3. PICK d \in Nat : Rows + SlackRows = (y + 1) + d
    <2>1. Rows + SlackRows - (y + 1) \in Nat /\ Rows + SlackRows = (y + 1) + (Rows + SlackRows - (y + 1))
      BY <1>1
    <2> QED
      BY <2>1, Zenon
  <1>4. ((y + 1) + d) * Cols = y * Cols + Cols + d * Cols /\ d * Cols \in Nat
    BY ONLY <1>1, d \in Nat
  <1>5. ASSUME NEW u \in Nat, NEW v \in Nat PROVE u + x \in 0 .. (u + Cols + v) - 1
    BY <1>1
  <1>6. y * Cols + x \in 0 .. (y * Cols + Cols + d * Cols) - 1
    BY <1>2, <1>4, <1>5, Zenon
  <1> QED
    BY <1>2, <1>3, <1>4, <1>6, Zenon DEF Cell, Cells

LEMMA CellsDiffer ==
    ASSUME NEW x \in 0 .. Cols - 1, NEW y \in 0 .. Rows - 1,
           NEW a \in 0 .. Cols - 1, NEW b \in 0 .. Rows - 1, Cell(x, y) = Cell(a, b)
    PROVE  x = a /\ y = b
  <1>1. y = b
    <2>1. Cell(x, y) \div Cols = y
      BY CellRow, Zenon
    <2>2. Cell(a, b) \div Cols = b
      BY CellRow, Zenon
    <2> QED
      BY <2>1, <2>2, Zenon
  <1>2. Cols \in Nat \ {0} /\ Rows \in Nat \ {0}
    BY VgaAssumption, Zenon
  <1>3. b * Cols \in Nat /\ b * Cols + x = b * Cols + a
    BY <1>1, <1>2 DEF Cell
  <1>4. ASSUME NEW u \in Nat, u + x = u + a PROVE x = a
    BY <1>2, <1>4
  <1> QED
    BY <1>1, <1>3, <1>4, Zenon

LEMMA CellBelow ==
    ASSUME NEW x \in 0 .. Cols - 1, NEW y \in 0 .. Rows - 1
    PROVE  Cell(x, y) + 1 * Cols = Cell(x, y + 1)
  <1>1. Cols \in Nat \ {0} /\ y \in Nat /\ x \in Nat
    BY VgaAssumption
  <1> QED
    BY ONLY <1>1 DEF Cell
-----------------------------------------------------------------------------
(***************************************************************************)
(* The screen against the endless page, for the kernel's own two callers.  *)
(* While a thread is between its first and its last step of vga_putc, the  *)
(* screen is on its way from page p, before the character e, to the page   *)
(* after it: at every line it is known which rows are old and which new.   *)
(***************************************************************************)

\* The screen shows the rows of page p from row top on.
Shows(p, top) ==
    \A x \in 0 .. Cols - 1, y \in 0 .. Rows - 1 :
        screen[Cell(x, y)] = Letter(p, <<x, top + y>>)

\* While scroll copies: the rows up to row i are those one further down.
ShowsMoved(p, top, i) ==
    \A x \in 0 .. Cols - 1, y \in 0 .. Rows - 1 :
        screen[Cell(x, y)] = Letter(p, <<x, IF y < i THEN top + y + 1 ELSE top + y>>)

\* Screen and cursor are those of page p.
Synced(p) == cur_x = p.x /\ cur_y = p.y - Top(p) /\ Shows(p, Top(p))

\* Where thread t is in vga_putc, writing e on page p: n is the page after it.
Writing(t, p, e) ==
    LET n == Typeset(p, e)
        r == put[t]
    IN /\ r.c = e[2]
       /\ r.at \in {"load", "store"} => Synced(p) /\ color = e[3]
       /\ r.at = "store" => /\ r.x = cur_x /\ r.y = cur_y
                            /\ r.c \notin {"lf", "nul"} /\ (r.c = "bs" => cur_x # 0)
       /\ r.at \in {"wrap", "newline", "next_row", "scroll"} => Shows(n, Top(p))
       /\ r.at \in {"wrap", "newline", "next_row"} => r.y = p.y - Top(p) /\ cur_y = r.y
       /\ r.at = "wrap" => /\ cur_x >= Cols => n.x = 0 /\ n.y = p.y + 1
                           /\ cur_x < Cols => n.x = cur_x /\ n.y = p.y
       /\ r.at \in {"newline", "next_row"} => n.x = 0 /\ n.y = p.y + 1
       /\ r.at = "next_row" => cur_x = 0
       /\ r.at \in {"scroll", "copy"} => cur_x = n.x /\ cur_y = n.y - Top(p)
       /\ r.at \notin {"copy", "move", "out"} => r.i = 0
       /\ r.at = "copy" => cur_y = Rows /\ r.x = 1 /\ r.i < Rows /\ ShowsMoved(n, Top(p), r.i)
       /\ r.at \in {"move", "out"} => Synced(n)

\* The video memory is all there.
Memory == screen = [n \in Cells |-> screen[n]]

\* The rows of a page that are on the screen.
LEMMA TopRow ==
    ASSUME NEW p, IsPage(p)
    PROVE  /\ Top(p) \in Nat /\ p.y - Top(p) \in 0 .. Rows - 1
           /\ Top(p) + (p.y - Top(p)) = p.y
  BY VgaAssumption DEF Top, IsPage

\* The steps of vga_putc.
LEMMA LoadWrites ==
    ASSUME CursorInv, NEW t \in Threads, NEW p, IsPage(p), NEW e, Writing(t, p, e), load(t)
    PROVE  Writing(t, p, e)' /\ put'[t].at # "idle"
  <1> DEFINE n == Typeset(p, e)
             c == put[t].c
             line == CASE c = "lf"                -> "newline"
                       [] c = "nul"               -> "wrap"
                       [] c = "bs" /\ cur_x = 0   -> "scroll"
                       [] OTHER                   -> "store"
             r == [put[t] EXCEPT !.x = cur_x, !.y = cur_y, !.at = line]
  <1>0. /\ Activation(put[t]) /\ cur_x \in Nat /\ cur_y \in Nat
        /\ put = [u \in Threads |-> put[u]]
    BY Zenon DEF CursorInv, PutOK
  <1>1. put[t].at = "load" /\ put' = [put EXCEPT ![t] = r]
        /\ cur_x' = cur_x /\ cur_y' = cur_y /\ screen' = screen /\ color' = color
    BY <1>0, Zenon DEF load, At, cursor
  <1>2. put'[t] = r
    BY <1>0, <1>1, Updated, Zenon
  <1>3. /\ c = e[2] /\ Synced(p) /\ color = e[3] /\ put[t].i = 0
    BY <1>1, Zenon DEF Writing
  <1>4. \/ c = "lf" /\ line = "newline"
        \/ c = "nul" /\ line = "wrap"
        \/ c = "bs" /\ cur_x = 0 /\ line = "scroll"
        \/ c \notin {"lf", "nul"} /\ (c = "bs" => cur_x # 0) /\ line = "store"
    BY Zenon
  <1> HIDE DEF line
  <1>5. r.at = line /\ r.x = cur_x /\ r.y = cur_y /\ r.c = c /\ r.i = 0
    BY <1>0, <1>3, Zenon DEF Activation
  <1>6. cur_x = p.x /\ cur_y = p.y - Top(p) /\ Shows(p, Top(p))
    BY <1>3, Zenon DEF Synced
  <1>7. /\ p.x \in Nat /\ p.x < Cols /\ p.y \in Nat /\ Top(p) \in Nat /\ Cols \in Nat
    BY TopRow, VgaAssumption DEF IsPage
  <1>8. /\ c = "lf" => n.x = 0 /\ n.y = p.y + 1
        /\ c = "nul" \/ (c = "bs" /\ p.x = 0) => n.x = p.x /\ n.y = p.y
    BY <1>3, TypesetPlace, Zenon
  <1>9. ASSUME c \in {"lf", "nul"} \/ (c = "bs" /\ cur_x = 0) PROVE Shows(n, Top(p))
    <2>1. c \notin Glyphs
      BY <1>9, VgaAssumption, Zenon
    <2>2. ~(c = "bs" /\ p.x > 0)
      BY <1>6, <1>7, <1>9
    <2>3. \A q : Letter(n, q) = Letter(p, q)
      BY <1>3, <2>1, <2>2, TypesetText, Zenon
    <2> HIDE DEF n
    <2> QED
      BY <1>6, <2>3, Zenon DEF Shows
  <1>10. /\ Synced(p)' = Synced(p) /\ Shows(n, Top(p))' = Shows(n, Top(p))
    BY <1>1, Zenon DEF Synced, Shows
  <1> HIDE DEF n, r
  <1>11. put'[t].at = line /\ put'[t].x = cur_x /\ put'[t].y = cur_y /\ put'[t].c = c
         /\ put'[t].i = 0 /\ put'[t].at \notin {"load", "next_row", "copy", "move", "out"}
    BY <1>2, <1>4, <1>5, Zenon
  <1>12. CASE c = "lf" /\ line = "newline"
    BY <1>1, <1>3, <1>6, <1>8, <1>9, <1>10, <1>11, <1>12, Zenon DEF Writing, n
  <1>13. CASE c = "nul" /\ line = "wrap"
    BY <1>1, <1>3, <1>6, <1>7, <1>8, <1>9, <1>10, <1>11, <1>13, SMTT(30) DEF Writing, n
  <1>14. CASE c = "bs" /\ cur_x = 0 /\ line = "scroll"
    BY <1>1, <1>3, <1>6, <1>8, <1>9, <1>10, <1>11, <1>14, Zenon DEF Writing, n
  <1>15. CASE c \notin {"lf", "nul"} /\ (c = "bs" => cur_x # 0) /\ line = "store"
    BY <1>1, <1>3, <1>10, <1>11, <1>15, Zenon DEF Writing, n
  <1> QED
    BY <1>4, <1>12, <1>13, <1>14, <1>15, Zenon
LEMMA StoreWrites ==
    ASSUME CursorInv, Memory, NEW t \in Threads, NEW p, IsPage(p), NEW e,
           Writing(t, p, e), store(t)
    PROVE  Writing(t, p, e)' /\ put'[t].at # "idle"
  <1> DEFINE n == Typeset(p, e)
             c == put[t].c
             r == [put[t] EXCEPT !.at = "wrap"]
             m == column(c, p.x)
             top == Top(p)
             row == p.y - top
  <1>0. /\ Activation(put[t]) /\ cur_x \in Nat /\ cur_y \in Nat
        /\ put = [u \in Threads |-> put[u]]
    BY Zenon DEF CursorInv, PutOK
  <1>1. /\ put[t].at = "store" /\ put' = [put EXCEPT ![t] = r]
        /\ cur_x' = column(c, put[t].x) /\ cur_y' = cur_y /\ color' = color
        /\ screen' = marks(c, put[t].x, put[t].y)
    BY <1>0, Zenon DEF store, At, Go
  <1>2. put'[t] = r
    BY <1>0, <1>1, Updated, Zenon
  <1>3. /\ c = e[2] /\ Synced(p) /\ color = e[3] /\ put[t].i = 0
        /\ put[t].x = cur_x /\ put[t].y = cur_y
        /\ c \notin {"lf", "nul"} /\ (c = "bs" => cur_x # 0)
    BY <1>1, Zenon DEF Writing
  <1>4. cur_x = p.x /\ cur_y = row /\ Shows(p, top)
    BY <1>3, Zenon DEF Synced
  <1>5. r.at = "wrap" /\ r.y = cur_y /\ r.c = c /\ r.i = 0
    BY <1>0, <1>3, Zenon DEF Activation
  <1>6. /\ p.x \in 0 .. Cols - 1 /\ p.y \in Nat /\ top \in Nat /\ Cols \in Nat
        /\ row \in 0 .. Rows - 1 /\ top + row = p.y /\ Rows \in Nat
    BY TopRow, VgaAssumption, Zenon DEF IsPage
  <1>7. /\ m \in Nat
        /\ m >= Cols => n.x = 0 /\ n.y = p.y + 1
        /\ m < Cols => n.x = m /\ n.y = p.y
    BY <1>3, <1>4, TypesetPlace
  <1>8. cur_x' = m
    BY <1>1, <1>3, <1>4, Zenon
  <1>9. \A q : Letter(n, q) =
              IF c \in Glyphs /\ q = <<p.x, p.y>> THEN <<c, color>>
              ELSE IF c = "bs" /\ p.x > 0 /\ q = <<p.x - 1, p.y>> THEN BLANK
              ELSE Letter(p, q)
    BY <1>3, TypesetText
  <1>10. c \in Glyphs => c # "bs"
    BY VgaAssumption, Zenon
  <1> HIDE DEF n, r, m, top, row
  <1>11. ASSUME NEW a \in 0 .. Cols - 1, NEW y \in 0 .. Rows - 1, NEW l,
                screen' = [screen EXCEPT ![Cell(a, row)] = l],
                \A q : Letter(n, q) = IF q = <<a, p.y>> THEN l ELSE Letter(p, q),
                NEW x \in 0 .. Cols - 1
         PROVE  screen'[Cell(x, y)] = Letter(n, <<x, top + y>>)
    <2>1. Cell(x, y) \in Cells /\ Cell(a, row) \in Cells
      BY <1>6, CellRow, Zenon
    <2>2. screen[Cell(x, y)] = Letter(p, <<x, top + y>>)
      BY <1>4, Zenon DEF Shows
    <2>3. CASE x = a /\ y = row
      <3>1. screen'[Cell(x, y)] = l
        BY <1>11, <2>1, <2>3, Zenon DEF Memory
      <3>2. <<x, top + y>> = <<a, p.y>>
        BY <1>6, <2>3, Zenon
      <3> QED
        BY <1>11, <3>1, <3>2, Zenon
    <2>4. CASE ~(x = a /\ y = row)
      <3>1. Cell(x, y) # Cell(a, row)
        BY <1>6, <2>4, CellsDiffer, Zenon
      <3>2. screen'[Cell(x, y)] = screen[Cell(x, y)]
        BY <1>11, <2>1, <3>1, Zenon DEF Memory
      <3>3. top + y = p.y => y = row
        BY <1>6
      <3>4. <<x, top + y>> # <<a, p.y>>
        BY <2>4, <3>3, Zenon
      <3> QED
        BY <1>11, <2>2, <3>2, <3>4, Zenon
    <2> QED
      BY <2>3, <2>4, Zenon
  <1>12. Shows(n, top)'
    <2>1. CASE c \in Glyphs
      <3>1. screen' = [screen EXCEPT ![Cell(p.x, row)] = <<c, color>>]
        BY <1>1, <1>3, <1>4, <1>10, <2>1, Zenon DEF marks
      <3>2. \A q : Letter(n, q) = IF q = <<p.x, p.y>> THEN <<c, color>> ELSE Letter(p, q)
        BY <1>9, <1>10, <2>1, Zenon
      <3> QED
        BY <1>6, <1>11, <3>1, <3>2, Zenon DEF Shows
    <2>2. CASE c = "bs"
      <3>1. p.x - 1 \in 0 .. Cols - 1 /\ p.x > 0
        BY <1>3, <1>4, <1>6, <2>2
      <3>2. screen' = [screen EXCEPT ![Cell(p.x - 1, row)] = BLANK]
        BY <1>1, <1>3, <1>4, <1>10, <2>2, Zenon DEF marks
      <3>3. \A q : Letter(n, q) = IF q = <<p.x - 1, p.y>> THEN BLANK ELSE Letter(p, q)
        BY <1>9, <1>10, <2>2, <3>1, Zenon
      <3> QED
        BY <1>11, <3>1, <3>2, <3>3, Zenon DEF Shows
    <2>3. CASE c \notin Glyphs /\ c # "bs"
      <3>1. screen' = screen
        BY <1>1, <2>3, Zenon DEF marks
      <3>2. \A q : Letter(n, q) = Letter(p, q)
        BY <1>9, <2>3, Zenon
      <3> QED
        BY <1>4, <3>1, <3>2, Zenon DEF Shows
    <2> QED
      BY <2>1, <2>2, <2>3, Zenon
  <1>13. put'[t].at = "wrap" /\ put'[t].y = cur_y /\ put'[t].c = c /\ put'[t].i = 0
    BY <1>2, <1>5, Zenon
  <1> QED
    BY <1>1, <1>3, <1>4, <1>7, <1>8, <1>12, <1>13, Zenon DEF Writing, n, top, row
LEMMA WrapWrites ==
    ASSUME CursorInv, NEW t \in Threads, NEW p, IsPage(p), NEW e, Writing(t, p, e),
           wrap(t) \/ newline(t) \/ next_row(t)
    PROVE  Writing(t, p, e)' /\ put'[t].at # "idle"
  <1> DEFINE n == Typeset(p, e)
  <1>0. /\ Activation(put[t]) /\ cur_x \in Nat /\ cur_y \in Nat
        /\ put = [u \in Threads |-> put[u]]
    BY Zenon DEF CursorInv, PutOK
  <1>1. /\ screen' = screen
        /\ put[t].at \in {"wrap", "newline", "next_row"}
        /\ \E line : put' = [put EXCEPT ![t] = [put[t] EXCEPT !.at = line]]
    BY <1>0, Zenon DEF wrap, newline, next_row, At, Go
  <1>2. Shows(n, Top(p))' = Shows(n, Top(p))
    BY <1>1, Zenon DEF Shows
  <1>3. /\ put[t].c = e[2] /\ put[t].i = 0 /\ Shows(n, Top(p))
        /\ put[t].y = p.y - Top(p) /\ cur_y = put[t].y
    BY <1>1, Zenon DEF Writing
  <1>4. p.y \in Nat /\ Top(p) \in Nat /\ Cols \in Nat
    BY TopRow, VgaAssumption, Zenon DEF IsPage
  <1>5. CASE wrap(t)
    <2> DEFINE line == IF cur_x >= Cols THEN "newline" ELSE "scroll"
               r == [put[t] EXCEPT !.at = line]
    <2>1. put[t].at = "wrap" /\ put' = [put EXCEPT ![t] = r] /\ cur_x' = cur_x /\ cur_y' = cur_y
      BY <1>5, <1>0, Zenon DEF wrap, At, Go, cursor
    <2>2. /\ cur_x >= Cols => n.x = 0 /\ n.y = p.y + 1
          /\ cur_x < Cols => n.x = cur_x /\ n.y = p.y
      BY <2>1, Zenon DEF Writing
    <2>3. \/ line = "newline" /\ cur_x >= Cols
          \/ line = "scroll" /\ cur_x < Cols
      BY <1>0, <1>4
    <2> HIDE DEF line
    <2>4. r.at = line /\ r.y = put[t].y /\ r.c = put[t].c /\ r.i = put[t].i
      BY <1>0, Zenon DEF Activation
    <2> HIDE DEF r
    <2>5. put'[t] = r
      BY <1>0, <2>1, Updated, Zenon
    <2> HIDE DEF n
    <2> QED
      BY <1>2, <1>3, <1>4, <2>1, <2>2, <2>3, <2>4, <2>5, Zenon DEF Writing, n
  <1>6. CASE newline(t)
    <2> DEFINE r == [put[t] EXCEPT !.at = "next_row"]
    <2>1. put[t].at = "newline" /\ put' = [put EXCEPT ![t] = r] /\ cur_x' = 0 /\ cur_y' = cur_y
      BY <1>6, <1>0, Zenon DEF newline, At, Go
    <2>2. n.x = 0 /\ n.y = p.y + 1
      BY <2>1, Zenon DEF Writing
    <2>3. r.at = "next_row" /\ r.y = put[t].y /\ r.c = put[t].c /\ r.i = put[t].i
      BY <1>0, Zenon DEF Activation
    <2> HIDE DEF r
    <2>4. put'[t] = r
      BY <1>0, <2>1, Updated, Zenon
    <2> HIDE DEF n
    <2> QED
      BY <1>2, <1>3, <2>1, <2>2, <2>3, <2>4, Zenon DEF Writing, n
  <1>7. CASE next_row(t)
    <2> DEFINE r == [put[t] EXCEPT !.at = "scroll"]
    <2>1. put[t].at = "next_row" /\ put' = [put EXCEPT ![t] = r] /\ cur_x' = cur_x
          /\ cur_y' = put[t].y + 1
      BY <1>7, <1>0, Zenon DEF next_row, At, Go
    <2>2. n.x = 0 /\ n.y = p.y + 1 /\ cur_x = 0
      BY <2>1, Zenon DEF Writing
    <2>3. r.at = "scroll" /\ r.y = put[t].y /\ r.c = put[t].c /\ r.i = put[t].i
      BY <1>0, Zenon DEF Activation
    <2> HIDE DEF r
    <2>4. put'[t] = r
      BY <1>0, <2>1, Updated, Zenon
    <2> HIDE DEF n
    <2>5. cur_y' = n.y - Top(p)
      BY <1>3, <1>4, <2>1, <2>2
    <2> QED
      BY <1>2, <1>3, <2>1, <2>2, <2>3, <2>4, <2>5, Zenon DEF Writing, n
  <1> QED
    BY <1>5, <1>6, <1>7, Zenon

\* The first row of the page after e, from the row where the cursor is.
LEMMA NextTop ==
    ASSUME NEW p, IsPage(p), NEW e
    PROVE  LET n == Typeset(p, e)
           IN /\ n.y - Top(p) \in 0 .. Rows
              /\ n.y - Top(p) < Rows => Top(n) = Top(p)
              /\ n.y - Top(p) = Rows => Top(n) = Top(p) + 1 /\ n.y = p.y + 1
  <1> DEFINE n == Typeset(p, e)
  <1>1. IsPage(n) /\ n.y \in {p.y, p.y + 1}
    BY TypesetPage, Zenon
  <1> HIDE DEF n
  <1>2. p.y \in Nat /\ n.y \in Nat /\ Rows \in Nat \ {0}
    BY <1>1, VgaAssumption, Zenon DEF IsPage
  <1>3. /\ n.y - Top(p) \in 0 .. Rows
        /\ n.y - Top(p) < Rows => Top(n) = Top(p)
        /\ n.y - Top(p) = Rows => Top(n) = Top(p) + 1 /\ n.y = p.y + 1
    BY <1>1, <1>2 DEF Top
  <1> QED
    BY <1>3, Zenon DEF n

LEMMA ScrollWrites ==
    ASSUME CursorInv, NEW t \in Threads, NEW p, IsPage(p), NEW e, Writing(t, p, e), scroll(t)
    PROVE  Writing(t, p, e)' /\ put'[t].at # "idle"
  <1> DEFINE n == Typeset(p, e)
  <1>0. /\ Activation(put[t]) /\ cur_x \in Nat /\ cur_y \in Nat
        /\ put = [u \in Threads |-> put[u]]
    BY Zenon DEF CursorInv, PutOK
  <1>1. /\ screen' = screen /\ cur_x' = cur_x /\ cur_y' = cur_y /\ put[t].at = "scroll"
    BY Zenon DEF scroll, At, cursor
  <1>2. /\ put[t].c = e[2] /\ put[t].i = 0 /\ Shows(n, Top(p))
        /\ cur_x = n.x /\ cur_y = n.y - Top(p)
    BY <1>1, Zenon DEF Writing
  <1>3. /\ n.y - Top(p) \in 0 .. Rows
        /\ n.y - Top(p) < Rows => Top(n) = Top(p)
    BY NextTop, Zenon
  <1>4. Rows \in Nat \ {0}
    BY VgaAssumption, Zenon
  <1>5. Shows(n, Top(p))'
    BY <1>1, <1>2, Zenon DEF Shows
  <1>6. CASE cur_y >= Rows
    <2> DEFINE r == [put[t] EXCEPT !.at = "copy", !.x = cur_y - Rows + 1]
    <2>1. put' = [put EXCEPT ![t] = r]
      BY <1>0, <1>6, Zenon DEF scroll
    <2>2. r.at = "copy" /\ r.x = cur_y - Rows + 1 /\ r.c = put[t].c /\ r.i = put[t].i
      BY <1>0, Zenon DEF Activation
    <2> HIDE DEF r
    <2>3. put'[t] = r
      BY <1>0, <2>1, Updated, Zenon
    <2> HIDE DEF n
    <2>4. cur_y = Rows /\ r.x = 1
      <3>1. cur_y \in Nat /\ Rows \in Nat /\ cur_y >= Rows
        BY <1>0, <1>4, <1>6, Zenon
      <3>2. cur_y \in 0 .. Rows
        BY <1>2, <1>3, Zenon
      <3>3. cur_y = Rows
        BY ONLY <3>1, <3>2
      <3>4. r.x = Rows - Rows + 1
        BY <3>3, <2>2, Zenon
      <3>5. r.x = 1
        BY ONLY <3>1, <3>4
      <3> QED
        BY <3>3, <3>5, Zenon
    <2>5. ShowsMoved(n, Top(p), 0)'
      BY <1>5, SMTT(30) DEF Shows, ShowsMoved
    <2>6. r.i = 0 /\ r.i < Rows /\ r.c = e[2]
      BY <1>2, <1>4, <2>2
    <2>7. cur_x' = n.x /\ cur_y' = n.y - Top(p) /\ cur_y' = Rows
      BY <1>1, <1>2, <2>4, Zenon
    <2> QED
      BY <1>2, <2>2, <2>3, <2>4, <2>5, <2>6, <2>7, ZenonT(30) DEF Writing, n
  <1>7. CASE ~(cur_y >= Rows)
    <2> DEFINE r == [put[t] EXCEPT !.at = "move"]
    <2>1. put' = [put EXCEPT ![t] = r]
      BY <1>0, <1>7, Zenon DEF scroll
    <2>2. r.at = "move" /\ r.c = put[t].c /\ r.i = put[t].i
      BY <1>0, Zenon DEF Activation
    <2> HIDE DEF r
    <2>3. put'[t] = r
      BY <1>0, <2>1, Updated, Zenon
    <2> HIDE DEF n
    <2>4. Top(n) = Top(p)
      BY <1>0, <1>2, <1>3, <1>4, <1>7
    <2>5. Synced(n)'
      BY <1>1, <1>2, <1>5, <2>4, Zenon DEF Synced
    <2> QED
      BY <1>2, <2>2, <2>3, <2>5, Zenon DEF Writing, n
  <1> QED
    BY <1>6, <1>7, Zenon
LEMMA CopyWrites ==
    ASSUME CursorInv, Memory, NEW t \in Threads, NEW p, IsPage(p), NEW e,
           Writing(t, p, e), copy_row(t)
    PROVE  Writing(t, p, e)' /\ put'[t].at # "idle"
  <1> DEFINE n == Typeset(p, e)
             top == Top(p)
             r == [put[t] EXCEPT !.i = @ + 1]
  <1>0. /\ Activation(put[t]) /\ cur_x \in Nat /\ cur_y \in Nat
        /\ put = [u \in Threads |-> put[u]]
    BY Zenon DEF CursorInv, PutOK
  <1>i. PICK i \in Nat : i = put[t].i
    BY <1>0, Zenon DEF Activation
  <1>1. /\ put[t].at = "copy" /\ put' = [put EXCEPT ![t] = r]
        /\ cur_x' = cur_x /\ cur_y' = cur_y /\ i < Rows - put[t].x
        /\ screen' = [k \in Cells |-> IF k \div Cols = i THEN screen[k + put[t].x * Cols]
                                      ELSE screen[k]]
    BY <1>0, <1>i, Zenon DEF copy_row, At, cursor
  <1>2. /\ put[t].c = e[2] /\ cur_x = n.x /\ cur_y = n.y - top
        /\ cur_y = Rows /\ put[t].x = 1 /\ i < Rows /\ ShowsMoved(n, top, i)
    BY <1>1, <1>i, Zenon DEF Writing
  <1>3. r.at = "copy" /\ r.x = put[t].x /\ r.c = put[t].c /\ r.i = i + 1
    BY <1>0, <1>1, <1>i, Zenon DEF Activation
  <1> HIDE DEF r, n
  <1>4. put'[t] = r
    BY <1>0, <1>1, Updated, Zenon
  <1>5. Rows \in Nat \ {0} /\ Cols \in Nat \ {0} /\ top \in Nat
    BY VgaAssumption, TopRow, Zenon
  <1> HIDE DEF top
  <1>6. ASSUME NEW x \in 0 .. Cols - 1, NEW y \in 0 .. Rows - 1
        PROVE  screen'[Cell(x, y)] = Letter(n, <<x, IF y < i + 1 THEN top + y + 1 ELSE top + y>>)
    <2>1. Cell(x, y) \in Cells /\ Cell(x, y) \div Cols = y
      BY CellRow, Zenon
    <2>2. \A b \in 0 .. Rows - 1 :
              screen[Cell(x, b)] = Letter(n, <<x, IF b < i THEN top + b + 1 ELSE top + b>>)
      BY <1>2, Zenon DEF ShowsMoved
    <2>3. CASE y = i
      <3>1. screen'[Cell(x, y)] = screen[Cell(x, y) + 1 * Cols]
        BY <1>1, <1>2, <2>1, <2>3, Zenon
      <3>2. Cell(x, y) + 1 * Cols = Cell(x, y + 1)
        BY CellBelow, Zenon
      <3>3. y + 1 \in 0 .. Rows - 1 /\ ~(y + 1 < i) /\ y < i + 1 /\ top + (y + 1) = top + y + 1
        BY <1>1, <1>2, <1>3, <1>5, <2>3
      <3>4. screen[Cell(x, y + 1)] = Letter(n, <<x, top + y + 1>>)
        BY <2>2, <3>3, Zenon
      <3> QED
        BY <3>1, <3>2, <3>3, <3>4, Zenon
    <2>4. CASE y # i
      <3>1. screen'[Cell(x, y)] = screen[Cell(x, y)]
        BY <1>1, <2>1, <2>4, Zenon
      <3>2. y < i + 1 <=> y < i
        BY <1>3, <2>4
      <3> QED
        BY <2>2, <3>1, <3>2, Zenon
    <2> QED
      BY <2>3, <2>4, Zenon
  <1>7. ShowsMoved(n, top, i + 1)'
    BY <1>6, Zenon DEF ShowsMoved, n, top
  <1>8. i + 1 < Rows
    BY <1>1, <1>2, <1>3, <1>5, SMTT(30)
  <1> QED
    BY <1>1, <1>2, <1>3, <1>4, <1>7, <1>8, Zenon DEF Writing, n, top
LEMMA ClearWrites ==
    ASSUME CursorInv, Memory, NEW t \in Threads, NEW p, IsPage(p), NEW e,
           Writing(t, p, e), clear_row(t)
    PROVE  Writing(t, p, e)' /\ put'[t].at # "idle"
  <1> DEFINE n == Typeset(p, e)
             top == Top(p)
             i == put[t].i
             r == [put[t] EXCEPT !.at = "move"]
  <1>0. /\ Activation(put[t]) /\ cur_x \in Nat /\ cur_y \in Nat
        /\ put = [u \in Threads |-> put[u]]
    BY Zenon DEF CursorInv, PutOK
  <1>1. /\ put[t].at = "copy" /\ put' = [put EXCEPT ![t] = r]
        /\ cur_x' = cur_x /\ cur_y' = Rows - 1 /\ i >= Rows - put[t].x
        /\ screen' = [k \in Cells |-> IF k \div Cols = Rows - 1 THEN BLANK ELSE screen[k]]
    BY <1>0, Zenon DEF clear_row, At, Go
  <1>2. /\ put[t].c = e[2] /\ cur_x = n.x /\ cur_y = n.y - top
        /\ cur_y = Rows /\ put[t].x = 1 /\ i < Rows /\ ShowsMoved(n, top, i)
    BY <1>1, Zenon DEF Writing
  <1>3. r.at = "move" /\ r.c = put[t].c /\ i \in Nat
    BY <1>0, Zenon DEF Activation
  <1>4. Top(n) = top + 1 /\ n.y = p.y + 1
    BY <1>2, NextTop, ZenonT(60)
  <1>5. IsPage(n) /\ \A q \in DOMAIN n.text : q[2] \in Nat /\ q[2] <= p.y
    BY TypesetPage, Zenon
  <1> HIDE DEF r, n
  <1>6. put'[t] = r
    BY <1>0, <1>1, Updated, Zenon
  <1>7. Rows \in Nat \ {0} /\ Cols \in Nat \ {0} /\ top \in Nat /\ p.y \in Nat /\ n.y \in Nat
    BY <1>5, VgaAssumption, TopRow, Zenon DEF IsPage
  <1> HIDE DEF top, i
  <1>8. i = Rows - 1
    BY <1>1, <1>2, <1>3, <1>7
  <1>9. ASSUME NEW x \in 0 .. Cols - 1, NEW y \in 0 .. Rows - 1
        PROVE  screen'[Cell(x, y)] = Letter(n, <<x, Top(n) + y>>)
    <2>1. Cell(x, y) \in Cells /\ Cell(x, y) \div Cols = y
      BY CellRow, Zenon
    <2>2. CASE y = Rows - 1
      <3>1. screen'[Cell(x, y)] = BLANK
        BY <1>1, <2>1, <2>2, Zenon
      <3>2. Top(n) + y = p.y + 1
        BY <1>2, <1>4, <1>7, <2>2
      <3>3. <<x, p.y + 1>> \notin DOMAIN n.text
        <4>1. SUFFICES ASSUME <<x, p.y + 1>> \in DOMAIN n.text PROVE FALSE
          BY Zenon
        <4>2. <<x, p.y + 1>>[2] <= p.y
          BY <1>5, <4>1, Zenon
        <4> QED
          BY <1>7, <4>2
      <3> QED
        BY <3>1, <3>2, <3>3, Zenon DEF Letter
    <2>3. CASE y # Rows - 1
      <3>1. screen'[Cell(x, y)] = screen[Cell(x, y)]
        BY <1>1, <2>1, <2>3, Zenon
      <3>2. y < i /\ top + y + 1 = (top + 1) + y
        BY <1>7, <1>8, <2>3
      <3>3. screen[Cell(x, y)] = Letter(n, <<x, top + y + 1>>)
        BY <1>2, <3>2, Zenon DEF ShowsMoved
      <3> QED
        BY <1>4, <3>1, <3>2, <3>3, Zenon
    <2> QED
      BY <2>2, <2>3, Zenon
  <1>10. n.y - Top(n) = Rows - 1
    BY <1>2, <1>4, <1>7, SMTT(30)
  <1>11. Synced(n)'
    <2>1. Shows(n, Top(n))'
      BY <1>9, Zenon DEF Shows, n
    <2> QED
      BY <1>1, <1>2, <1>10, <2>1, Zenon DEF Synced, n
  <1> QED
    BY <1>2, <1>3, <1>6, <1>11, Zenon DEF Writing, n

LEMMA MoveWrites ==
    ASSUME CursorInv, NEW t \in Threads, NEW p, NEW e, Writing(t, p, e), move_cur(t) \/ outb(t)
    PROVE  /\ put'[t].at # "idle" => Writing(t, p, e)'
           /\ Synced(Typeset(p, e))'
  <1> DEFINE n == Typeset(p, e)
  <1>0. /\ Activation(put[t]) /\ put = [u \in Threads |-> put[u]]
    BY Zenon DEF CursorInv, PutOK
  <1>1. put[t].at \in {"move", "out"} /\ cur_x' = cur_x /\ cur_y' = cur_y /\ screen' = screen
    BY Zenon DEF move_cur, outb, At, cursor
  <1>2. Synced(n) /\ put[t].c = e[2]
    BY <1>1, ZenonT(60) DEF Writing
  <1>3. Synced(n)'
    BY <1>1, <1>2, Zenon DEF Synced, Shows
  <1>4. put'[t].at \in {"idle", "out"} /\ (put'[t].at = "out" => put'[t].c = put[t].c)
    <2>1. CASE move_cur(t)
      <3> DEFINE r == [put[t] EXCEPT !.at = "out", !.i = 0,
                                     !.y = Cell(cur_x, cur_y) \div PosBase,
                                     !.x = Cell(cur_x, cur_y) % PosBase]
      <3>1. put' = [put EXCEPT ![t] = r]
        BY <1>0, <2>1, Zenon DEF move_cur
      <3>2. r.at = "out" /\ r.c = put[t].c
        BY <1>0, Zenon DEF Activation
      <3> HIDE DEF r
      <3>3. put'[t] = r
        BY <1>0, <3>1, Updated, Zenon
      <3> QED
        BY <3>2, <3>3, Zenon
    <2>2. CASE outb(t)
      <3>1. put' = [put EXCEPT ![t] = next_out(put[t])] /\ put[t].at = "out"
        BY <2>2, Zenon DEF outb, At
      <3>2. put'[t] = next_out(put[t])
        BY <1>0, <3>1, Updated, Zenon
      <3> QED
        BY <1>0, <3>1, <3>2, Zenon DEF next_out, Idle, Activation
    <2> QED
      BY <2>1, <2>2, Zenon
  <1> HIDE DEF n
  <1> QED
    BY <1>2, <1>3, <1>4, Zenon DEF Writing, n
\* A step of vga_putc by thread t leaves the other activations alone.
LEMMA PutStepOthers ==
    ASSUME CursorInv, Memory, NEW t \in Threads, PutStep(t)
    PROVE  /\ put[t].at # "idle" /\ \A u \in Threads \ {t} : put'[u] = put[u]
           /\ Memory'
  <1>0. put = [u \in Threads |-> put[u]]
    BY Zenon DEF CursorInv, PutOK
  <1>1. /\ put[t].at # "idle"
        /\ \E r : put' = [put EXCEPT ![t] = r]
    <2>1. CASE load(t)
      BY <1>0, <2>1, Zenon DEF load, At
    <2>2. CASE store(t) \/ wrap(t) \/ newline(t) \/ next_row(t) \/ clear_row(t)
      BY <1>0, <2>2, Zenon DEF store, wrap, newline, next_row, clear_row, At, Go
    <2>3. CASE scroll(t)
      <3>1. \/ put' = [put EXCEPT ![t].at = "copy", ![t].x = cur_y - Rows + 1]
            \/ put' = [put EXCEPT ![t].at = "move"]
        BY <2>3, Zenon DEF scroll
      <3> QED
        BY <1>0, <2>3, <3>1, Zenon DEF scroll, At
    <2>4. CASE copy_row(t)
      BY <1>0, <2>4, Zenon DEF copy_row, At
    <2>5. CASE move_cur(t)
      BY <1>0, <2>5, Zenon DEF move_cur, At
    <2>6. CASE outb(t)
      BY <2>6, Zenon DEF outb, At
    <2> QED
      BY <2>1, <2>2, <2>3, <2>4, <2>5, <2>6, Zenon DEF PutStep
  <1>2. PICK r : put' = [put EXCEPT ![t] = r]
    BY <1>1, Zenon
  <1>3. \A u \in Threads \ {t} : put'[u] = put[u]
    BY <1>0, <1>2, Updated, Zenon
  <1>4. Memory'
    <2>1. CASE store(t)
      <3>1. screen' = marks(put[t].c, put[t].x, put[t].y)
        BY <2>1, Zenon DEF store
      <3>2. ASSUME NEW k, NEW l, screen' = [screen EXCEPT ![k] = l] PROVE Memory'
        BY <3>2, Zenon DEF Memory
      <3>3. CASE put[t].c = "bs"
        <4>1. put[t].c \notin Glyphs
          BY <3>3, VgaAssumption, Zenon
        <4>2. screen' = [screen EXCEPT ![Cell(put[t].x - 1, put[t].y)] = BLANK]
          BY <3>1, <3>3, <4>1, Zenon DEF marks
        <4> QED
          BY <3>2, <4>2, Zenon
      <3>4. CASE put[t].c \in Glyphs
        <4>1. put[t].c # "bs"
          BY <3>4, VgaAssumption, Zenon
        <4>2. screen' = [screen EXCEPT ![Cell(put[t].x, put[t].y)] = <<put[t].c, color>>]
          BY <3>1, <3>4, <4>1, Zenon DEF marks
        <4> QED
          BY <3>2, <4>2, Zenon
      <3>5. CASE put[t].c # "bs" /\ put[t].c \notin Glyphs
        BY <3>1, <3>5, Zenon DEF marks, Memory
      <3> QED
        BY <3>3, <3>4, <3>5, Zenon
    <2>2. CASE copy_row(t)
      BY <2>2, Zenon DEF copy_row, Memory
    <2>3. CASE clear_row(t)
      BY <2>3, Zenon DEF clear_row, Memory
    <2>4. CASE ~store(t) /\ ~copy_row(t) /\ ~clear_row(t)
      <3>1. screen' = screen
        BY <2>4, Zenon DEF PutStep, load, wrap, newline, next_row, scroll, move_cur, outb
      <3> QED
        BY <3>1, Zenon DEF Memory
    <2> QED
      BY <2>1, <2>2, <2>3, <2>4, Zenon
  <1> QED
    BY <1>1, <1>3, <1>4, Zenon

LEMMA PutStepWrites ==
    ASSUME CursorInv, Memory, NEW t \in Threads, NEW p, IsPage(p), NEW e, Writing(t, p, e),
           PutStep(t)
    PROVE  /\ put'[t].at # "idle" => Writing(t, p, e)'
           /\ put'[t].at = "idle" => Synced(Typeset(p, e))'
  <1>1. CASE load(t)
    BY <1>1, LoadWrites, Zenon
  <1>2. CASE store(t)
    BY <1>2, StoreWrites, Zenon
  <1>3. CASE wrap(t) \/ newline(t) \/ next_row(t)
    BY <1>3, WrapWrites, Zenon
  <1>4. CASE scroll(t)
    BY <1>4, ScrollWrites, Zenon
  <1>5. CASE copy_row(t)
    BY <1>5, CopyWrites, Zenon
  <1>6. CASE clear_row(t)
    BY <1>6, ClearWrites, Zenon
  <1>7. CASE move_cur(t) \/ outb(t)
    BY <1>7, MoveWrites, Zenon
  <1> QED
    BY <1>1, <1>2, <1>3, <1>4, <1>5, <1>6, <1>7, Zenon DEF PutStep
-----------------------------------------------------------------------------
\* Programs of the keyboard handler: one character for each driver, no color.
Echo(s) == \E c : s \in {<<>>, <<<<"vga", c>>, <<"com", c>>>>, <<<<"com", c>>>>}

\* What kprintf makes of the format "%c".
LEMMA EchoProgram ==
    ASSUME NEW c
    PROVE  __kprintf_va_list(<<<<"c", c>>>>) = <<<<"vga", c>>, <<"com", c>>>>
  <1> DEFINE s == <<<<"c", c>>>>
             program == <<<<"vga", c>>, <<"com", c>>>>
             Join(f) == [i \in 0 .. Len(s) |-> IF i = 0 THEN <<>> ELSE f[i - 1] \o item(s[i])]
             g == [i \in 0 .. 1 |-> IF i = 0 THEN <<>> ELSE <<>> \o item(s[1])]
             f == CHOOSE h : h = Join(h)
  <1>1. item(s[1]) = program
    <2>1. item(s[1]) = vga_puts(<<c>>) \o serial_puts(<<c>>)
      BY Zenon DEF item
    <2>2. vga_puts(<<c>>) = <<<<"vga", c>>>> /\ serial_puts(<<c>>) = <<<<"com", c>>>>
      BY DEF vga_puts, serial_puts
    <2>3. <<<<"vga", c>>>> \o <<<<"com", c>>>> = program
      <3>1. ASSUME NEW v, NEW w PROVE <<v>> \o <<w>> = <<v, w>>
        <4>1. <<v>> \in Seq({v, w}) /\ <<w>> \in Seq({v, w}) /\ <<v, w>> \in Seq({v, w})
          OBVIOUS
        <4>2. <<v>> \o <<w>> \in Seq({v, w}) /\ Len(<<v>> \o <<w>>) = 2
          <5>1. Len(<<v>>) = 1 /\ Len(<<w>>) = 1
            BY Zenon
          <5> QED
            BY <4>1, <5>1
        <4>3. (<<v>> \o <<w>>)[1] = v /\ (<<v>> \o <<w>>)[2] = w
          BY <4>1
        <4>4. PICK x : x = <<v>> \o <<w>>
          BY Zenon
        <4>5. x = [i \in 1 .. 2 |-> x[i]]
          <5>1. x \in Seq({v, w}) /\ Len(x) = 2
            BY <4>2, <4>4, Zenon
          <5> QED
            BY ONLY <5>1
        <4>6. x = <<v, w>>
          <5>0. x[1] = v /\ x[2] = w
            BY <4>3, <4>4, Zenon
          <5>i. \A i \in 1 .. 2 : i = 1 \/ i = 2
            OBVIOUS
          <5>1. x = [i \in 1 .. 2 |-> IF i = 1 THEN v ELSE w]
            <6>1. \A i \in 1 .. 2 : x[i] = IF i = 1 THEN v ELSE w
              BY ONLY <5>0, <5>i, Zenon
            <6> QED
              BY ONLY <4>5, <6>1, Zenon
          <5>2. <<v, w>> = [i \in 1 .. 2 |-> IF i = 1 THEN v ELSE w]
            OBVIOUS
          <5> QED
            BY <5>1, <5>2, Zenon
        <4> QED
          BY <4>4, <4>6, Zenon
      <3> QED
        BY <3>1, Zenon
    <2> QED
      BY <2>1, <2>2, <2>3, Zenon
  <1>2. <<>> \o program = program
    OBVIOUS
  <1>3. Len(s) = 1
    BY Zenon
  <1> HIDE DEF program
  <1>4. g = Join(g)
    BY <1>3
  <1>5. f = Join(f)
    BY <1>4, Zenon
  <1> HIDE DEF f
  <1>6. f[0] = <<>>
    BY <1>3, <1>5
  <1>7. f[1] = f[0] \o item(s[1])
    <2>1. 1 \in 0 .. Len(s) /\ 1 # 0 /\ 1 - 1 = 0
      BY <1>3
    <2>2. f[1] = IF 1 = 0 THEN <<>> ELSE f[1 - 1] \o item(s[1])
      BY <1>5, <2>1, Zenon
    <2> QED
      BY <2>1, <2>2, Zenon
  <1>8. f[Len(s)] = program
    BY <1>1, <1>2, <1>3, <1>6, <1>7, Zenon
  <1> QED
    BY <1>8, Zenon DEF __kprintf_va_list, Concat, f, program

\* What the rest of such a program is.
LEMMA EchoRest ==
    ASSUME NEW s, Echo(s), s # <<>>
    PROVE  Echo(Tail(s)) /\ Head(s)[1] # "color"
  <1>1. PICK c : s \in {<<<<"vga", c>>, <<"com", c>>>>, <<<<"com", c>>>>}
    BY Zenon DEF Echo
  <1>2. CASE s = <<<<"vga", c>>, <<"com", c>>>>
    <2>1. Tail(s) = <<<<"com", c>>>> /\ Head(s) = <<"vga", c>>
      BY <1>2
    <2> QED
      BY <2>1 DEF Echo
  <1>3. CASE s = <<<<"com", c>>>>
    <2>1. Tail(s) = <<>> /\ Head(s) = <<"com", c>>
      BY <1>3
    <2> QED
      BY <2>1 DEF Echo
  <1> QED
    BY <1>1, <1>2, <1>3, Zenon

EchoInv == rest = [t \in Threads |-> rest[t]] /\ Echo(rest[Irq])

\* The keyboard handler never changes the color.
LEMMA EchoInvNext == EchoInv /\ [Next]_vars => EchoInv'
  <1> SUFFICES ASSUME EchoInv, [Next]_vars PROVE EchoInv'
    BY Zenon
  <1> USE VgaAssumption
  <1>0. rest = [t \in Threads |-> rest[t]] /\ Echo(rest[Irq])
    BY Zenon DEF EchoInv
  <1>1. ASSUME NEW t \in Threads, NEW s, rest' = [rest EXCEPT ![t] = s], t = Irq => Echo(s)
        PROVE  EchoInv'
    <2>1. /\ rest' = [u \in Threads |-> rest'[u]]
          /\ rest'[t] = s /\ \A u \in Threads \ {t} : rest'[u] = rest[u]
      BY <1>0, <1>1, Updated, Zenon
    <2> QED
      BY <1>0, <1>1, <2>1, Zenon DEF EchoInv
  <1>2. CASE rest' = rest
    BY <1>0, <1>2, Zenon DEF EchoInv
  <1>3. CASE keyboard_echo
    <2>1. PICK c : rest' = [rest EXCEPT ![Irq] = __kprintf_va_list(<<<<"c", c>>>>)]
      BY <1>3, Zenon DEF keyboard_echo, Call
    <2>2. Echo(__kprintf_va_list(<<<<"c", c>>>>))
      BY EchoProgram, Zenon DEF Echo
    <2> QED
      BY <1>1, <2>1, <2>2, Zenon
  <1>4. ASSUME NEW t \in Threads \ {Irq}, kprintf(t) \/ klog(t) PROVE EchoInv'
    <2>1. PICK s : rest' = [rest EXCEPT ![t] = s]
      BY <1>4, Zenon DEF kprintf, klog, Call
    <2> QED
      BY <1>1, <2>1, Zenon
  <1>5. ASSUME NEW t \in Threads, putc(t) \/ set_color(t) \/ serial_putc(t) PROVE EchoInv'
    <2>1. rest' = [rest EXCEPT ![t] = Tail(rest[t])] /\ rest[t] # <<>>
      BY <1>0, <1>5, Zenon DEF putc, set_color, serial_putc, Calls, Done
    <2>2. t = Irq => Echo(Tail(rest[t]))
      BY <1>0, <2>1, EchoRest, Zenon
    <2> QED
      BY <1>1, <2>1, <2>2, Zenon
  <1>6. CASE UNCHANGED console \/ UNCHANGED vars
    BY <1>2, <1>6, Zenon DEF console, vars
  <1> QED
    BY <1>3, <1>4, <1>5, <1>6, Zenon DEF Next
-----------------------------------------------------------------------------
\* Thread t is in the middle of writing the last character given to the screen.
Busy(t) == \E p, e : IsPage(p) /\ Paper(shown) = Typeset(p, e) /\ Writing(t, p, e)

\* At most one thread is inside vga_putc.
Alone == \A t, u \in Threads : put[t].at # "idle" /\ put[u].at # "idle" => t = u

\* Between two calls the screen is that of the page, within one it is on its way.
PageInv ==
    /\ CursorInv /\ Memory /\ EchoInv
    /\ \E S : shown \in Seq(S)
    /\ raced \in BOOLEAN /\ overlap \in BOOLEAN
    /\ overlap => raced
    /\ ~overlap => Alone
    /\ ~raced /\ Quiet => IsPage(Paper(shown)) /\ Synced(Paper(shown))
    /\ ~raced => \A t \in Threads : put[t].at # "idle" => Busy(t)

LEMMA PageInvInit == Init => PageInv
  <1> SUFFICES ASSUME Init PROVE PageInv
    BY Zenon
  <1> USE VgaAssumption
  <1>1. CursorInv
    BY CursorInvInit, Zenon
  <1>2. Memory
    BY Zenon DEF Init, VgaInit, Memory
  <1>3. EchoInv
    <2>1. Echo(<<>>)
      BY Zenon DEF Echo
    <2> QED
      BY <2>1, Zenon DEF Init, EchoInv
  <1>4. shown = <<>> /\ raced = FALSE /\ overlap = FALSE /\ shown \in Seq({})
    BY DEF Init
  <1>5. \A t \in Threads : put[t].at = "idle"
    BY Zenon DEF Init, VgaInit, Idle
  <1>6. Paper(shown) = EmptyPage
    BY <1>4, PaperEmpty, Zenon
  <1>7. IsPage(EmptyPage) /\ Top(EmptyPage) = 0 /\ EmptyPage.x = 0 /\ EmptyPage.y = 0
    BY DEF IsPage, Top, EmptyPage
  <1>8. \A q : Letter(EmptyPage, q) = BLANK
    BY Zenon DEF Letter, EmptyPage
  <1>9. \A x \in 0 .. Cols - 1, y \in 0 .. Rows - 1 : screen[Cell(x, y)] = BLANK
    BY CellRow, Zenon DEF Init, VgaInit
  <1>10. Synced(EmptyPage)
    BY <1>7, <1>8, <1>9, SMTT(30) DEF Synced, Shows, Init, VgaInit
  <1> QED
    BY <1>1, <1>2, <1>3, <1>4, <1>5, <1>6, <1>7, <1>10, Zenon DEF PageInv, Alone

\* A step inside vga_putc.
LEMMA PutStepPage ==
    ASSUME PageInv, NEW t \in Threads, PutStep(t), UNCHANGED console
    PROVE  PageInv'
  <1>0. CursorInv /\ Memory /\ EchoInv
    BY Zenon DEF PageInv
  <1>1. /\ put[t].at # "idle" /\ \A u \in Threads \ {t} : put'[u] = put[u]
        /\ Memory'
    BY <1>0, PutStepOthers, Zenon
  <1>2. CursorInv'
    BY <1>0, PutStepKeeps, Zenon
  <1>3. rest' = rest /\ shown' = shown /\ overlap' = overlap /\ raced' = raced
    BY Zenon DEF console
  <1>4. EchoInv'
    BY <1>0, <1>3, Zenon DEF EchoInv
  <1>5. (~overlap => Alone)'
    BY <1>1, <1>3, ZenonT(60) DEF PageInv, Alone
  <1>6. ASSUME ~raced
        PROVE  /\ (Quiet => IsPage(Paper(shown)) /\ Synced(Paper(shown)))'
               /\ (\A u \in Threads : put[u].at # "idle" => Busy(u))'
    <2>1. Alone /\ Busy(t)
      BY <1>1, <1>6, Zenon DEF PageInv
    <2>2. PICK p, e : IsPage(p) /\ Paper(shown) = Typeset(p, e) /\ Writing(t, p, e)
      BY <2>1, Zenon DEF Busy
    <2>3. /\ put'[t].at # "idle" => Writing(t, p, e)'
          /\ put'[t].at = "idle" => Synced(Typeset(p, e))'
      BY <1>0, <2>2, PutStepWrites, ZenonT(60)
    <2>4. \A u \in Threads \ {t} : put'[u].at = "idle"
      BY <1>1, <2>1, Zenon DEF Alone
    <2>5. put'[t].at # "idle" => Busy(t)'
      BY <1>3, <2>2, <2>3, Zenon DEF Busy
    <2>6. (\A u \in Threads : put[u].at # "idle" => Busy(u))'
      BY <2>4, <2>5, Zenon
    <2>7. IsPage(Typeset(p, e))
      BY <2>2, TypesetPage, Zenon
    <2>8. Paper(shown)' = Typeset(p, e)
      BY <1>3, <2>2, Zenon
    <2>9. put'[t].at = "idle" => IsPage(Paper(shown))' /\ Synced(Paper(shown))'
      BY <2>3, <2>7, <2>8, ZenonT(60) DEF Synced, Shows, IsPage
    <2> QED
      BY <2>6, <2>9, Zenon DEF Quiet
  <1> QED
    BY <1>1, <1>2, <1>3, <1>4, <1>5, <1>6, Zenon DEF PageInv

\* A call of vga_putc.
LEMMA PutcPage ==
    ASSUME PageInv, NEW t \in Threads, putc(t), EchoInv'
    PROVE  PageInv'
  <1> DEFINE e == <<t, Argument(t), color>>
             r == [Idle EXCEPT !.at = "load", !.c = Argument(t)]
             p == Paper(shown)
  <1>0. CursorInv /\ Memory /\ raced \in BOOLEAN /\ overlap \in BOOLEAN
        /\ put = [u \in Threads |-> put[u]]
    BY Zenon DEF PageInv, CursorInv, PutOK
  <1>1. /\ put[t].at = "idle" /\ put' = [put EXCEPT ![t] = r]
        /\ cur_x' = cur_x /\ cur_y' = cur_y /\ screen' = screen /\ color' = color
        /\ shown' = Append(shown, e)
        /\ overlap' = (\E u \in Threads \ {t} : put[u].at # "idle")
        /\ raced' = (raced \/ overlap')
    BY Zenon DEF putc, vga_putc, At, cursor
  <1>2. put'[t] = r /\ \A u \in Threads \ {t} : put'[u] = put[u]
    BY <1>0, <1>1, Updated, Zenon
  <1>3. CursorInv'
    BY <1>0, PutcKeeps, Zenon DEF putc
  <1>4. Memory'
    BY <1>0, <1>1, Zenon DEF Memory
  <1>5. PICK S : shown \in Seq(S)
    BY Zenon DEF PageInv
  <1>6. shown' \in Seq(S \cup {e})
    <2>1. shown \in Seq(S \cup {e}) /\ e \in S \cup {e}
      BY <1>5
    <2> HIDE DEF e
    <2> QED
      BY <1>1, <2>1
  <1>7. raced' \in BOOLEAN /\ overlap' \in BOOLEAN /\ (overlap' => raced')
    BY <1>0, <1>1, Zenon
  <1>8. (~overlap => Alone)'
    BY <1>1, <1>2 DEF Alone
  <1>9. r.at = "load" /\ r.c = e[2] /\ r.i = 0
    BY Zenon DEF Idle
  <1>10. ~Quiet'
    BY <1>2, <1>9, Zenon DEF Quiet
  <1>11. ASSUME ~raced' PROVE (\A u \in Threads : put[u].at # "idle" => Busy(u))'
    <2>1. ~raced /\ Quiet /\ \A u \in Threads \ {t} : put'[u].at = "idle"
      BY <1>0, <1>1, <1>2, <1>11, Zenon DEF Quiet
    <2>2. IsPage(p) /\ Synced(p)
      BY <2>1, Zenon DEF PageInv
    <2>3. Paper(Append(shown, e)) = Typeset(p, e)
      BY <1>5, PaperAppend, Zenon
    <2>4. PICK q, d : q = p /\ d = e
      BY Zenon
    <2> HIDE DEF p, e, r
    <2>5. Synced(q)'
      BY <1>1, <2>2, <2>4, Zenon DEF Synced, Shows
    <2>6. Writing(t, q, d)'
      BY <1>1, <1>2, <1>9, <2>4, <2>5, Zenon DEF Writing, e
    <2>7. Busy(t)'
      BY <1>1, <2>2, <2>3, <2>4, <2>6, Zenon DEF Busy
    <2> QED
      BY <2>1, <2>7, Zenon
  <1> QED
    BY <1>3, <1>4, <1>6, <1>7, <1>8, <1>10, <1>11, Zenon DEF PageInv

\* Nobody is inside vga_putc when the color changes: the keyboard handler leaves
\* it alone, and the thread is not inside vga_putc itself.
LEMMA ColorIsQuiet ==
    ASSUME EchoInv, OneThread, NEW t \in Threads, set_color(t)
    PROVE  Quiet
  <1>1. put[t].at = "idle" /\ rest[t] # <<>> /\ Head(rest[t])[1] = "color"
        /\ (t = Irq \/ put[Irq].at = "idle")
    BY Zenon DEF set_color, Calls, Between
  <1>2. t # Irq
    BY <1>1, EchoRest, Zenon DEF EchoInv
  <1> QED
    BY <1>1, <1>2 DEF OneThread, Quiet

LEMMA PageInvNext == PageInv /\ OneThread /\ [Next]_vars => PageInv'
  <1> SUFFICES ASSUME PageInv, OneThread, [Next]_vars PROVE PageInv'
    BY Zenon
  <1>0. EchoInv' /\ CursorInv'
    BY EchoInvNext, CursorInvNext, Zenon DEF PageInv
  <1>1. ASSUME UNCHANGED <<cur_x, cur_y, screen, put, shown, overlap, raced>>,
               color' = color \/ Quiet
        PROVE  PageInv'
    <2>1. Memory'
      BY <1>1, Zenon DEF PageInv, Memory
    <2>2. (~overlap => Alone)'
      BY <1>1, Zenon DEF PageInv, Alone
    <2>3. Quiet' = Quiet /\ Paper(shown)' = Paper(shown)
      BY <1>1, Zenon DEF Quiet
    <2>4. ASSUME NEW p, NEW top, NEW i
          PROVE  /\ Synced(p)' <=> Synced(p)
                 /\ Shows(p, top)' <=> Shows(p, top)
                 /\ ShowsMoved(p, top, i)' <=> ShowsMoved(p, top, i)
      BY <1>1, Zenon DEF Synced, Shows, ShowsMoved
    <2>5. (~raced /\ Quiet => IsPage(Paper(shown)) /\ Synced(Paper(shown)))'
      <3>1. PICK p : p = Paper(shown)
        BY Zenon
      <3>2. Synced(p)' <=> Synced(p)
        BY <2>4, Zenon
      <3> QED
        BY <1>1, <2>3, <3>1, <3>2, Zenon DEF PageInv, Synced, Shows
    <2>6. ASSUME ~raced, NEW t \in Threads, put'[t].at # "idle" PROVE Busy(t)'
      <3>1. put[t].at # "idle" /\ color' = color
        BY <1>1, <2>6, Zenon DEF Quiet
      <3>2. Busy(t)
        BY <2>6, <3>1, Zenon DEF PageInv
      <3>3. PICK p, e : IsPage(p) /\ Paper(shown) = Typeset(p, e) /\ Writing(t, p, e)
        BY <3>2, Zenon DEF Busy
      <3>4. Writing(t, p, e)'
        <4>1. PICK n, top, r : n = Typeset(p, e) /\ top = Top(p) /\ r = put[t]
          BY Zenon
        <4>2. PICK i : i = r.i
          BY Zenon
        <4>3. /\ Synced(p)' <=> Synced(p)
              /\ Synced(n)' <=> Synced(n)
              /\ Shows(n, top)' <=> Shows(n, top)
              /\ ShowsMoved(n, top, i)' <=> ShowsMoved(n, top, i)
          BY <2>4, Zenon
        <4>4. put'[t] = r
          BY <1>1, <4>1, Zenon
        <4> QED
          BY <1>1, <3>1, <3>3, <4>1, <4>2, <4>3, <4>4, ZenonT(30) DEF Writing
      <3> QED
        BY <1>1, <3>3, <3>4, Zenon DEF Busy
    <2> QED
      BY <1>0, <1>1, <2>1, <2>2, <2>5, <2>6, Zenon DEF PageInv
  <1>2. ASSUME NEW t \in Threads, PutStep(t), UNCHANGED console PROVE PageInv'
    BY <1>2, PutStepPage, Zenon
  <1>3. ASSUME NEW t \in Threads, putc(t) PROVE PageInv'
    BY <1>0, <1>3, PutcPage, Zenon
  <1>4. ASSUME NEW t \in Threads, set_color(t) PROVE PageInv'
    <2>1. Quiet
      BY <1>4, ColorIsQuiet, Zenon DEF PageInv
    <2> QED
      BY <1>1, <1>4, <2>1, Zenon DEF set_color, vga_set_color, cursor
  <1>5. ASSUME NEW t \in Threads, serial_putc(t) PROVE PageInv'
    BY <1>1, <1>5, Zenon DEF serial_putc, vga, cursor
  <1>6. ASSUME NEW t \in Threads, kprintf(t) \/ klog(t) PROVE PageInv'
    BY <1>1, <1>6, Zenon DEF kprintf, klog, Call, vga, cursor
  <1>7. CASE keyboard_echo
    BY <1>1, <1>7, Zenon DEF keyboard_echo, Call, vga, cursor
  <1>8. CASE UNCHANGED vars
    BY <1>1, <1>8, Zenon DEF vars, vga, cursor, console
  <1> QED
    BY <1>2, <1>3, <1>4, <1>5, <1>6, <1>7, <1>8, Zenon DEF Next

-----------------------------------------------------------------------------
\* The position in the CRT controller, while a thread that is not interrupted
\* writes its two halves, and afterwards.
Sending(r) ==
    /\ r.y * PosBase + r.x = Cell(cur_x, cur_y)
    /\ r.i = 1 => crt.index = "hi"
    /\ r.i \in {2, 3} => crt.hi = r.y
    /\ r.i = 3 => crt.index = "lo"

CrtInv ==
    /\ crt = [k \in {"index", "hi", "lo"} |-> crt[k]]
    /\ crt.index \in {"hi", "lo"}
    /\ \A t \in Threads : put[t].at = "out" => put[t].i \in 0 .. 3
    /\ ~overlap => Alone
    /\ ~overlap /\ Quiet => crt.hi * PosBase + crt.lo = Cell(cur_x, cur_y)
    /\ ~overlap => \A t \in Threads : put[t].at = "out" => Sending(put[t])

\* One outb: the register that is selected gets the half of the position.
LEMMA OutbCrt ==
    ASSUME CursorInv, CrtInv, NEW t \in Threads, outb(t)
    PROVE  /\ crt' = [k \in {"index", "hi", "lo"} |-> crt'[k]]
           /\ crt'.index \in {"hi", "lo"}
           /\ put'[t].at = "out" => put'[t].i \in 0 .. 3
           /\ put'[t].at \in {"idle", "out"}
           /\ Sending(put[t]) =>
                 /\ put'[t].at = "idle" => crt'.hi * PosBase + crt'.lo = Cell(cur_x, cur_y)
                 /\ put'[t].at = "out" => Sending(put[t])'
  <1> DEFINE r == put[t]
             s == put'[t]
  <1>0. /\ put = [u \in Threads |-> put[u]]
        /\ Activation(r)
        /\ crt = [k \in {"index", "hi", "lo"} |-> crt[k]]
        /\ crt.index \in {"hi", "lo"}
    BY Zenon DEF CursorInv, PutOK, CrtInv
  <1>1. /\ r.at = "out" /\ put' = [put EXCEPT ![t] = next_out(r)]
        /\ cur_x' = cur_x /\ cur_y' = cur_y
    BY Zenon DEF outb, At, cursor
  <1>2. s = next_out(r)
    BY <1>0, <1>1, Updated, Zenon
  <1>3. r.i \in 0 .. 3
    BY <1>1, Zenon DEF CrtInv
  <1>4. crt' = CASE r.i = 0 -> [crt EXCEPT !.index = "hi"]
                 [] r.i = 1 -> [crt EXCEPT ![crt.index] = r.y]
                 [] r.i = 2 -> [crt EXCEPT !.index = "lo"]
                 [] r.i = 3 -> [crt EXCEPT ![crt.index] = r.x]
    BY Zenon DEF outb
  <1>5. Cell(cur_x, cur_y)' = Cell(cur_x, cur_y)
    BY <1>1, Zenon
  <1>6. r.i # 3 => s.at = "out" /\ s.x = r.x /\ s.y = r.y /\ s.i = r.i + 1
    BY <1>0, <1>1, <1>2, Zenon DEF next_out, Activation
  <1>7. r.i = 3 => s.at = "idle"
    BY <1>2 DEF next_out, Idle
  <1> HIDE DEF r, s
  <1>8. /\ r.i = 0 => crt' = [crt EXCEPT !.index = "hi"]
        /\ r.i = 1 => crt' = [crt EXCEPT ![crt.index] = r.y]
        /\ r.i = 2 => crt' = [crt EXCEPT !.index = "lo"]
        /\ r.i = 3 => crt' = [crt EXCEPT ![crt.index] = r.x]
    BY <1>4
  <1>9. /\ r.i = 0 => crt'.index = "hi"
        /\ r.i = 1 /\ crt.index = "hi" => crt'.hi = r.y /\ crt'.index = "hi"
        /\ r.i = 2 => crt'.index = "lo" /\ crt'.hi = crt.hi
        /\ r.i = 3 /\ crt.index = "lo" => crt'.lo = r.x /\ crt'.hi = crt.hi
        /\ r.i \in {1, 3} => crt'.index = crt.index
        /\ crt' = [k \in {"index", "hi", "lo"} |-> crt'[k]]
    <2>1. ASSUME NEW f, f = [k \in {"index", "hi", "lo"} |-> f[k]], NEW j, NEW v
          PROVE  LET g == [f EXCEPT ![j] = v]
                 IN /\ g = [k \in {"index", "hi", "lo"} |-> g[k]]
                    /\ \A k \in {"index", "hi", "lo"} : g[k] = IF k = j THEN v ELSE f[k]
      BY <2>1, Zenon
    <2>2. \A j, v : LET g == [crt EXCEPT ![j] = v]
                    IN /\ g = [k \in {"index", "hi", "lo"} |-> g[k]]
                       /\ \A k \in {"index", "hi", "lo"} : g[k] = IF k = j THEN v ELSE crt[k]
      BY <1>0, <2>1, Zenon
    <2>3. PICK j, v : crt' = [crt EXCEPT ![j] = v]
      BY <1>3, <1>8
    <2>4. crt' = [k \in {"index", "hi", "lo"} |-> crt'[k]]
      BY <2>2, <2>3, Zenon
    <2> QED
      BY <1>0, <1>3, <1>8, <2>4, Zenon
  <1>S. crt'.index \in {"hi", "lo"}
    BY <1>0, <1>3, <1>9
  <1>10. s.at \in {"idle", "out"} /\ (s.at = "out" => s.i \in 0 .. 3 /\ r.i # 3)
    BY <1>3, <1>6, <1>7
  <1>11. ASSUME Sending(r)
         PROVE  s.at = "idle" => crt'.hi * PosBase + crt'.lo = Cell(cur_x, cur_y)
    <2>1. s.at = "idle" => r.i = 3
      BY <1>3, <1>6, Zenon
    <2>2. r.i = 3 => crt'.hi = r.y /\ crt'.lo = r.x
      BY <1>9, <1>11, Zenon DEF Sending
    <2> QED
      BY <1>11, <2>1, <2>2, Zenon DEF Sending
  <1>12. ASSUME Sending(r), s.at = "out" PROVE Sending(put[t])'
    <2>1. s.y * PosBase + s.x = Cell(cur_x, cur_y)'
      BY <1>5, <1>6, <1>10, <1>12, Zenon DEF Sending
    <2>2. s.i = 1 => crt'.index = "hi"
      BY <1>3, <1>6, <1>9, <1>10, <1>12
    <2>3. s.i = 2 => crt'.hi = s.y
      BY <1>3, <1>6, <1>9, <1>10, <1>12 DEF Sending
    <2>4. s.i = 3 => crt'.hi = s.y /\ crt'.index = "lo"
      BY <1>3, <1>6, <1>9, <1>10, <1>12, SMTT(30) DEF Sending
    <2> QED
      BY <2>1, <2>2, <2>3, <2>4, Zenon DEF Sending, s
  <1> QED
    BY <1>9, <1>S, <1>10, <1>11, <1>12, Zenon DEF r, s
LEMMA CrtInvInit == Init => CrtInv
  <1> SUFFICES ASSUME Init PROVE CrtInv
    BY Zenon
  <1>1. crt = [index |-> "hi", hi |-> 0, lo |-> 0] /\ cur_x = 0 /\ cur_y = 0
    BY Zenon DEF Init, VgaInit
  <1>2. \A t \in Threads : put[t].at = "idle"
    BY Zenon DEF Init, VgaInit, Idle
  <1>3. 0 * PosBase + 0 = 0 /\ Cell(0, 0) = 0
    BY VgaAssumption DEF Cell
  <1>4. /\ crt = [k \in {"index", "hi", "lo"} |-> crt[k]]
        /\ crt.index \in {"hi", "lo"} /\ crt.hi = 0 /\ crt.lo = 0
    BY <1>1, Zenon
  <1> QED
    BY <1>1, <1>2, <1>3, <1>4, Zenon DEF CrtInv, Alone

LEMMA PutStepCrt ==
    ASSUME CursorInv, Memory, CrtInv, NEW t \in Threads, PutStep(t), overlap' = overlap
    PROVE  CrtInv'
  <1>1. /\ put[t].at # "idle" /\ \A u \in Threads \ {t} : put'[u] = put[u]
    BY PutStepOthers, Zenon
  <1>2. (~overlap => Alone)'
    BY <1>1, Zenon DEF CrtInv, Alone
  <1>3. ~overlap => \A u \in Threads \ {t} : put'[u].at = "idle"
    BY <1>1, Zenon DEF CrtInv, Alone
  <1>4. SUFFICES
           /\ crt' = [k \in {"index", "hi", "lo"} |-> crt'[k]]
           /\ crt'.index \in {"hi", "lo"}
           /\ put'[t].at = "out" => put'[t].i \in 0 .. 3
           /\ ~overlap /\ put'[t].at = "idle" =>
                 crt'.hi * PosBase + crt'.lo = Cell(cur_x, cur_y)'
           /\ ~overlap /\ put'[t].at = "out" => Sending(put[t])'
    <2>1. (\A u \in Threads : put[u].at = "out" => put[u].i \in 0 .. 3)'
      BY <1>1, <1>4, Zenon DEF CrtInv
    <2>2. (~overlap /\ Quiet => crt.hi * PosBase + crt.lo = Cell(cur_x, cur_y))'
      BY <1>4, Zenon DEF Quiet
    <2>3. (~overlap => \A u \in Threads : put[u].at = "out" => Sending(put[u]))'
      BY <1>3, <1>4, Zenon
    <2> QED
      BY <1>2, <1>4, <2>1, <2>2, <2>3, Zenon DEF CrtInv
  <1>5. CASE outb(t)
    <2>1. cur_x' = cur_x /\ cur_y' = cur_y /\ put[t].at = "out"
      BY <1>5, Zenon DEF outb, At, cursor
    <2>2. ~overlap => Sending(put[t])
      BY <2>1, Zenon DEF CrtInv
    <2>3. Cell(cur_x, cur_y)' = Cell(cur_x, cur_y)
      BY <2>1, Zenon
    <2> QED
      BY <1>5, <2>2, <2>3, OutbCrt, Zenon
  <1>6. CASE move_cur(t)
    <2> DEFINE cell == Cell(cur_x, cur_y)
               r == [put[t] EXCEPT !.at = "out", !.i = 0, !.y = cell \div PosBase,
                                   !.x = cell % PosBase]
    <2>0. put = [u \in Threads |-> put[u]] /\ Activation(put[t])
          /\ cur_x \in Nat /\ cur_y \in Nat
      BY Zenon DEF CursorInv, PutOK
    <2>1. put' = [put EXCEPT ![t] = r] /\ crt' = crt /\ cur_x' = cur_x /\ cur_y' = cur_y
      BY <1>6, <2>0, Zenon DEF move_cur, cursor
    <2>2. r.at = "out" /\ r.i = 0 /\ r.y = cell \div PosBase /\ r.x = cell % PosBase
      BY <2>0, Zenon DEF Activation
    <2>3. cell \in Nat /\ PosBase \in Nat \ {0}
      BY <2>0, VgaAssumption DEF Cell
    <2>4. Cell(cur_x, cur_y)' = cell
      BY <2>1, Zenon
    <2> HIDE DEF r, cell
    <2>5. put'[t] = r
      BY <2>0, <2>1, Updated, Zenon
    <2>6. (cell \div PosBase) * PosBase + (cell % PosBase) = cell
      <3>1. PICK q \in Nat, m \in 0 .. (PosBase - 1) :
               cell = PosBase * q + m /\ m = cell % PosBase /\ q = cell \div PosBase
        BY ONLY <2>3
      <3>2. q * PosBase = PosBase * q
        BY ONLY <2>3, q \in Nat, SMTT(30)
      <3> QED
        BY <3>1, <3>2, Zenon
    <2>7. Sending(put[t])'
      BY <2>2, <2>4, <2>5, <2>6 DEF Sending
    <2> QED
      BY <2>1, <2>2, <2>5, <2>7 DEF CrtInv
  <1>7. CASE ~outb(t) /\ ~move_cur(t)
    <2>1. crt' = crt
      BY <1>7, Zenon DEF PutStep, load, store, wrap, newline, next_row, scroll, copy_row, clear_row
    <2>2. put'[t].at \notin {"idle", "out"}
      <3>0. put = [u \in Threads |-> put[u]] /\ Activation(put[t])
        BY Zenon DEF CursorInv, PutOK
      <3>1. ASSUME NEW r, put' = [put EXCEPT ![t] = r] PROVE put'[t] = r
        BY <3>0, <3>1, Updated, Zenon
      <3>2. CASE load(t)
        <4> DEFINE line == CASE put[t].c = "lf"               -> "newline"
                             [] put[t].c = "nul"              -> "wrap"
                             [] put[t].c = "bs" /\ cur_x = 0  -> "scroll"
                             [] OTHER                         -> "store"
                   r == [put[t] EXCEPT !.x = cur_x, !.y = cur_y, !.at = line]
        <4>1. put' = [put EXCEPT ![t] = r]
          BY <3>0, <3>2, Zenon DEF load
        <4>2. line \notin {"idle", "out"}
          BY Zenon
        <4> HIDE DEF line
        <4>3. r.at = line
          BY <3>0, Zenon DEF Activation
        <4> HIDE DEF r
        <4> QED
          BY <3>1, <4>1, <4>2, <4>3, Zenon
      <3>3. ASSUME NEW line \in Lines \ {"idle", "out"}, Go(t, line)
            PROVE  put'[t].at \notin {"idle", "out"}
        BY <3>0, <3>3, Zenon DEF Go, Activation
      <3>4. CASE store(t) \/ newline(t) \/ next_row(t) \/ clear_row(t)
        BY <3>3, <3>4, Zenon DEF store, newline, next_row, clear_row, Lines
      <3>5. CASE wrap(t)
        BY <3>3, <3>5, Zenon DEF wrap, Lines
      <3>6. CASE scroll(t)
        BY <3>0, <3>6, Zenon DEF scroll, Activation
      <3>7. CASE copy_row(t)
        BY <3>0, <3>7, Zenon DEF copy_row, Activation, At
      <3> QED
        BY <1>7, <3>2, <3>4, <3>5, <3>6, <3>7, Zenon DEF PutStep
    <2> QED
      BY <2>1, <2>2, Zenon DEF CrtInv
  <1> QED
    BY <1>5, <1>6, <1>7, Zenon

LEMMA CrtInvNext == PageInv /\ CrtInv /\ [Next]_vars => CrtInv'
  <1> SUFFICES ASSUME PageInv, CrtInv, [Next]_vars PROVE CrtInv'
    BY Zenon
  <1>0. CursorInv /\ Memory /\ put = [u \in Threads |-> put[u]]
    BY Zenon DEF PageInv, CursorInv, PutOK
  <1>1. ASSUME UNCHANGED <<cur_x, cur_y, crt, put, overlap>> PROVE CrtInv'
    BY <1>1, Zenon DEF CrtInv, Alone, Quiet, Sending
  <1>2. ASSUME NEW t \in Threads, PutStep(t), UNCHANGED console PROVE CrtInv'
    BY <1>0, <1>2, PutStepCrt, Zenon DEF console
  <1>3. ASSUME NEW t \in Threads, putc(t) PROVE CrtInv'
    <2> DEFINE r == [Idle EXCEPT !.at = "load", !.c = Argument(t)]
    <2>1. /\ put[t].at = "idle" /\ put' = [put EXCEPT ![t] = r] /\ crt' = crt
          /\ overlap' = (\E u \in Threads \ {t} : put[u].at # "idle")
      BY <1>3, Zenon DEF putc, vga_putc, At
    <2>2. r.at = "load"
      BY Zenon DEF Idle
    <2> HIDE DEF r
    <2>3. put'[t] = r /\ \A u \in Threads \ {t} : put'[u] = put[u]
      BY <1>0, <2>1, Updated, Zenon
    <2>4. ~overlap' => \A u \in Threads \ {t} : put'[u].at = "idle"
      BY <2>1, <2>3, Zenon
    <2>5. (~overlap => Alone)'
      BY <2>4, Zenon DEF Alone
    <2>6. ~Quiet'
      BY <2>2, <2>3, Zenon DEF Quiet
    <2>7. (\A u \in Threads : put[u].at = "out" => put[u].i \in 0 .. 3)'
      BY <2>2, <2>3, Zenon DEF CrtInv
    <2>8. (~overlap => \A u \in Threads : put[u].at = "out" => Sending(put[u]))'
      BY <2>2, <2>3, <2>4, Zenon
    <2> QED
      BY <2>1, <2>5, <2>6, <2>7, <2>8, Zenon DEF CrtInv
  <1>4. ASSUME NEW t \in Threads, set_color(t) \/ serial_putc(t) PROVE CrtInv'
    BY <1>1, <1>4, Zenon DEF set_color, serial_putc, vga_set_color, vga, cursor
  <1>5. ASSUME NEW t \in Threads, kprintf(t) \/ klog(t) PROVE CrtInv'
    BY <1>1, <1>5, Zenon DEF kprintf, klog, Call, vga, cursor
  <1>6. CASE keyboard_echo
    BY <1>1, <1>6, Zenon DEF keyboard_echo, Call, vga, cursor
  <1>7. CASE UNCHANGED vars
    BY <1>1, <1>7, Zenon DEF vars, vga, cursor, console
  <1> QED
    BY <1>2, <1>3, <1>4, <1>5, <1>6, <1>7, Zenon DEF Next

\* With one thread besides the keyboard handler, the screen shows the last rows of
\* what was written as long as no two calls of vga_putc (vga.c:35) overlapped, and
\* the hardware cursor (vga.c:26) is where the next character goes.
THEOREM ScreenIsTail ==
    ASSUME OneThread
    PROVE  Spec => []ScreenShowsTail
  <1>1. PageInv /\ CrtInv => ScreenShowsTail
    BY Zenon DEF PageInv, CrtInv, ScreenShowsTail, Synced, Shows
  <1>2. PageInv /\ CrtInv /\ [Next]_vars => PageInv' /\ CrtInv'
    BY PageInvNext, CrtInvNext, Zenon
  <1> QED
    BY <1>1, <1>2, PageInvInit, CrtInvInit, PTL DEF Spec
=============================================================================
