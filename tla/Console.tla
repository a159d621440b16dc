------------------------------ MODULE Console ------------------------------
(***************************************************************************)
(* Kernel messages: kprintf and klog of src/kernel/utils/display.c, which  *)
(* write every character to the screen (Vga) and to the serial port, while *)
(* the keyboard handler prints what is typed.                              *)
(*                                                                         *)
(* A call turns into a program, the sequence of calls it makes of the two  *)
(* drivers.  A format is a sequence of items <<kind, argument>>: literal   *)
(* characters "lit", the conversions "c", "s", "d", "x", and "?" for a     *)
(* conversion kprintf does not know.  Integers have IntBits bits.          *)
(***************************************************************************)
EXTENDS Vga, Sequences

CONSTANTS
    IntBits,    \* 32
    MaxCalls,   \* bound on the calls of each thread
    Formats,    \* what kprintf prints
    Logged,     \* what klog prints
    Typed       \* the characters the keyboard handler prints

VARIABLES
    rest,       \* what is left of the program of a thread
    said,       \* the calls a thread has made: <<tag, format>>
    com,        \* characters sent to the serial port, with the thread
    shown,      \* characters given to the screen, with the thread and the color
    overlap,    \* did the last calls of vga_putc overlap?
    raced       \* did any?

console == <<rest, said, com, shown, overlap, raced>>
vars == <<vga, console>>

Concat(F(_), s) ==
    LET join[i \in 0 .. Len(s)] == IF i = 0 THEN <<>> ELSE join[i - 1] \o F(s[i])
    IN  join[Len(s)]

vga_puts(s) == [i \in DOMAIN s |-> <<"vga", s[i]>>]
serial_puts(s) == [i \in DOMAIN s |-> <<"com", s[i]>>]

bchars == <<"0", "1", "2", "3", "4", "5", "6", "7", "8", "9", "A", "B", "C", "D", "E", "F">>

\* int to unsigned, in two's complement.
unsigned(n) == n % 2^IntBits

__itoa(n, base) ==
    LET digits[i \in 0 .. 2^IntBits] ==
            IF i = 0 THEN <<>> ELSE Append(digits[i \div base], bchars[(i % base) + 1])
    IN  IF n = 0 THEN <<"0">> ELSE digits[n]

\* Mutant: the sign is taken off after the conversion to unsigned.
__itoa_s_unsigned(n, base) ==
    IF n < 0 THEN <<"-">> \o __itoa(unsigned(n), base) ELSE __itoa(n, base)

__itoa_s(n, base) ==
    IF n < 0 THEN <<"-">> \o __itoa(unsigned(-n), base) ELSE __itoa(n, base)

\* One round of the loop of __kprintf_va_list: both drivers get the text, string
\* by string.  The % of an unknown conversion is lost, the next character is not.
item(f) ==
    LET text == CASE f[1] \in {"lit", "c", "?"} -> <<f[2]>>
                  [] f[1] = "s" -> f[2]
                  [] f[1] = "d" -> __itoa_s(f[2], 10)
                  [] f[1] = "x" -> __itoa(unsigned(f[2]), 16)
    IN  vga_puts(text) \o serial_puts(text)

__kprintf_va_list(format) == Concat(item, format)

TagColor == [ok |-> "green", err |-> "red", warn |-> "yellow"]
Tags == DOMAIN TagColor

\* The tag of klog, "[ OK ]", is one character per string here.
klog_tag(status) ==
    vga_puts(<<"[">>) \o <<<<"color", TagColor[status]>>>> \o vga_puts(<<"k">>)
        \o <<<<"color", White>>>> \o vga_puts(<<"]">>)
        \o serial_puts(<<"[", "k", "]">>)

Init ==
    /\ VgaInit
    /\ rest = [t \in Threads |-> <<>>]
    /\ said = [t \in Threads |-> <<>>]
    /\ com = <<>> /\ shown = <<>>
    /\ overlap = FALSE /\ raced = FALSE

\* The thread is between two calls of the drivers, and not interrupted.
Between(t) == put[t].at = "idle" /\ (t = Irq \/ (put[Irq].at = "idle" /\ rest[Irq] = <<>>))

Call(t, call, program) ==
    /\ Between(t) /\ rest[t] = <<>> /\ Len(said[t]) < MaxCalls[t]
    /\ rest' = [rest EXCEPT ![t] = program]
    /\ said' = [said EXCEPT ![t] = Append(@, call)]
    /\ UNCHANGED <<vga, com, shown, overlap, raced>>

kprintf(t) ==
    \E f \in Formats : Call(t, <<"none", f>>, __kprintf_va_list(f))

klog(t) ==
    \E f \in Logged, s \in Tags : Call(t, <<s, f>>, klog_tag(s) \o __kprintf_va_list(f))

\* keyboard_handler: kprintf("%c", c), with interrupts disabled.
keyboard_echo ==
    \E c \in Typed : Call(Irq, <<"none", <<<<"c", c>>>>>>, __kprintf_va_list(<<<<"c", c>>>>))

\* The next thing thread t does is to call op.
Calls(t, op) == Between(t) /\ rest[t] # <<>> /\ Head(rest[t])[1] = op

Argument(t) == Head(rest[t])[2]
Done(t) == rest' = [rest EXCEPT ![t] = Tail(@)] /\ UNCHANGED said

putc(t) ==
    /\ Calls(t, "vga") /\ vga_putc(t, Argument(t)) /\ Done(t)
    /\ shown' = Append(shown, <<t, Argument(t), color>>)
    /\ overlap' = (\E u \in Threads \ {t} : put[u].at # "idle")
    /\ raced' = (raced \/ overlap')
    /\ UNCHANGED com

set_color(t) ==
    /\ Calls(t, "color") /\ vga_set_color(Argument(t)) /\ Done(t)
    /\ UNCHANGED <<com, shown, overlap, raced>>

serial_putc(t) ==
    /\ Calls(t, "com") /\ Done(t)
    /\ com' = Append(com, <<t, Argument(t)>>)
    /\ UNCHANGED <<vga, shown, overlap, raced>>

Next ==
    \/ keyboard_echo
    \/ \E t \in Threads \ {Irq} : kprintf(t) \/ klog(t)
    \/ \E t \in Threads :
           \/ putc(t) \/ set_color(t) \/ serial_putc(t)
           \/ (t = Irq \/ rest[Irq] = <<>>) /\ PutStep(t) /\ UNCHANGED console

Spec == Init /\ [][Next]_vars

AllQuiet == Quiet /\ \A t \in Threads : rest[t] = <<>>

\* The numeral of a number: the only sequence of digits with that value.
Numeral(n, base) ==
    LET Value[s \in UNION {[1 .. k -> 0 .. base - 1] : k \in 0 .. 2}] ==
            IF s = <<>> THEN 0 ELSE base * Value[SubSeq(s, 1, Len(s) - 1)] + s[Len(s)]
        digits == CHOOSE s \in UNION {[1 .. k -> 0 .. base - 1] : k \in 1 .. 2} :
                      Value[s] = n /\ (Len(s) > 1 => s[1] # 0)
    IN  [i \in DOMAIN digits |-> bchars[digits[i] + 1]]

TextOf(call) ==
    LET Text(f) == CASE f[1] = "s" -> f[2]
                     [] f[1] = "d" /\ f[2] < 0 -> <<"-">> \o Numeral(-f[2], 10)
                     [] f[1] = "d" -> Numeral(f[2], 10)
                     [] f[1] = "x" -> Numeral(unsigned(f[2]), 16)
                     [] OTHER -> <<f[2]>>
    IN  (IF call[1] \in Tags THEN <<"[", "k", "]">> ELSE <<>>) \o Concat(Text, call[2])

OfThread(t, s) ==
    LET Pick(e) == IF e[1] = t THEN <<e[2]>> ELSE <<>> IN Concat(Pick, s)

\* Every message arrives as a whole and in order on the screen and on the serial
\* port, whatever the keyboard handler printed in between; a number reads back as
\* the argument, the most negative one included.
MessagesComplete ==
    AllQuiet => \A t \in Threads : /\ OfThread(t, com) = Concat(TextOf, said[t])
                                   /\ OfThread(t, shown) = Concat(TextOf, said[t])

\* An endless page on which the characters given to the screen are written: the
\* place of the next one and the text so far, and the page after character e.
EmptyPage == [x |-> 0, y |-> 0, text |-> [q \in {} |-> BLANK]]

Typeset(p, e) ==
    LET c == e[2]
        moved == CASE c = "lf"  -> <<0, p.y + 1>>
                   [] c = "cr"  -> <<0, p.y>>
                   [] c = "bs"  -> <<IF p.x = 0 THEN 0 ELSE p.x - 1, p.y>>
                   [] c = "tab" -> <<p.x + TabStop - (p.x % TabStop), p.y>>
                   [] c = "nul" -> <<p.x, p.y>>
                   [] OTHER     -> <<p.x + 1, p.y>>
        folded == IF moved[1] >= Cols THEN <<0, p.y + 1>> ELSE moved
        written == CASE c \in Glyphs         -> {<<p.x, p.y>>}
                     [] c = "bs" /\ p.x > 0  -> {<<p.x - 1, p.y>>}
                     [] OTHER                -> {}
        ink == IF c = "bs" THEN BLANK ELSE <<c, e[3]>>
    IN  [x |-> folded[1], y |-> folded[2],
         text |-> [q \in DOMAIN p.text \cup written |-> IF q \in written THEN ink ELSE p.text[q]]]

Paper(s) ==
    LET page[i \in 0 .. Len(s)] == IF i = 0 THEN EmptyPage ELSE Typeset(page[i - 1], s[i])
    IN  page[Len(s)]

Letter(p, q) == IF q \in DOMAIN p.text THEN p.text[q] ELSE BLANK

\* The row of the page that is the first of the screen.
Top(p) == IF p.y >= Rows THEN p.y - Rows + 1 ELSE 0

\* As long as no two calls of vga_putc overlapped, the screen is the last rows of
\* the endless page: scrolling loses, repeats and leaves behind nothing.  The
\* hardware cursor stands where the next character goes, unless the last calls
\* overlapped; one call that is not interrupted repairs it.
ScreenShowsTail ==
    /\ Quiet /\ ~raced =>
          LET p == Paper(shown)
          IN  \A x \in 0 .. Cols - 1, y \in 0 .. Rows - 1 :
                  screen[Cell(x, y)] = Letter(p, <<x, Top(p) + y>>)
    /\ Quiet /\ ~overlap => crt.hi * PosBase + crt.lo = Cell(cur_x, cur_y)
=============================================================================
