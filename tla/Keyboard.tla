------------------------------ MODULE Keyboard ------------------------------
(***************************************************************************)
(* The keyboard driver src/kernel/drivers/keyboard.c with the controller   *)
(* as it uses it: one output byte, an interrupt on the edge when it fills. *)
(* A key is <<extended, make code>>; shift is the set of its bits.         *)
(***************************************************************************)
EXTENDS KernelMain

CONSTANTS Keys, MaxBytes    \* MaxBytes bounds what the keyboard has yet to send

\* The make codes of scan code set 1.  No key has an extended 2A or 36: keyboards
\* that send these around a key with an extended code are left out.
ASSUME KeysAssumption ==
    /\ Keys \subseteq BOOLEAN \X (1 .. 95)
    /\ \A k \in Keys : k[1] => k[2] \notin {42, 54}

VARIABLES
    unsent,         \* bytes the keyboard has yet to send
    held,           \* the keys that are down
    ps2,            \* PS2_DATA: the byte, and whether it has been read
    kbd_irq,        \* is IRQ 1 pending?
    kbd_handler,    \* is keyboard_irq_handler installed?
    shift,
    echo            \* the map and the code of the last character printed

kbd == <<unsent, held, ps2, kbd_irq, kbd_handler, shift, echo>>

E0 == 224
RELEASE == 128
SHIFT == "SHIFT"
CTL == "CTL"
ALT == "ALT"
E0ESC == "E0ESC"

\* The entries of shiftcode and togglecode that are not 0.
shiftcode(data) ==
    CASE data \in {29, 157} -> {CTL}
      [] data \in {42, 54}  -> {SHIFT}
      [] data \in {56, 184} -> {ALT}
      [] OTHER              -> {}
togglecode(data) ==
    CASE data = 58 -> {"CAPSLOCK"}
      [] data = 69 -> {"NUMLOCK"}
      [] data = 70 -> {"SCROLLLOCK"}
      [] OTHER     -> {}

KbdInit ==
    /\ unsent = <<>> /\ held = {}
    /\ ps2 = [data |-> 0, full |-> FALSE]
    /\ kbd_irq = FALSE /\ kbd_handler = FALSE
    /\ shift = {}
    /\ echo = <<"none", 0>>

Codes(k, up) == (IF k[1] THEN <<E0>> ELSE <<>>) \o <<IF up THEN k[2] + RELEASE ELSE k[2]>>

\* A key goes down, or repeats.
press(k) ==
    /\ Len(unsent) < MaxBytes
    /\ held' = held \cup {k}
    /\ unsent' = unsent \o Codes(k, FALSE)
    /\ UNCHANGED <<boot, ps2, kbd_irq, kbd_handler, shift, echo>>

release(k) ==
    /\ k \in held /\ Len(unsent) < MaxBytes
    /\ held' = held \ {k}
    /\ unsent' = unsent \o Codes(k, TRUE)
    /\ UNCHANGED <<boot, ps2, kbd_irq, kbd_handler, shift, echo>>

\* The edge is seen by controllers that have been programmed.
send ==
    /\ unsent # <<>> /\ ~ps2.full
    /\ ps2' = [data |-> Head(unsent), full |-> TRUE]
    /\ unsent' = Tail(unsent)
    /\ kbd_irq' = Enabled
    /\ UNCHANGED <<boot, held, kbd_handler, shift, echo>>

toggle(s, bits) == (s \ bits) \cup (bits \ s)

charcode(s) ==
    CASE CTL \in s   -> "ctlmap"
      [] SHIFT \in s -> "shiftmap"
      [] OTHER       -> "normalmap"

\* Mutant: the code of a released extended key is cut to 7 bits, and the escape
\* is left behind.
decode_sticky(data) ==
    IF data = E0 THEN shift' = shift \cup {E0ESC} /\ UNCHANGED echo
    ELSE IF data >= RELEASE
    THEN /\ shift' = shift \ shiftcode(IF E0ESC \in shift THEN data ELSE data - RELEASE)
         /\ UNCHANGED echo
    ELSE LET code == IF E0ESC \in shift THEN data + RELEASE ELSE data
             now == toggle((shift \ {E0ESC}) \cup shiftcode(code), togglecode(code))
         IN  shift' = now /\ echo' = <<charcode(now), code>>

decode(data) ==
    IF data = E0 THEN shift' = shift \cup {E0ESC} /\ UNCHANGED echo
    ELSE IF data >= RELEASE
    THEN /\ shift' = shift \ (shiftcode(IF E0ESC \in shift THEN data ELSE data - RELEASE)
                              \cup {E0ESC})
         /\ UNCHANGED echo
    ELSE LET code == IF E0ESC \in shift THEN data + RELEASE ELSE data
             now == toggle((shift \ {E0ESC}) \cup shiftcode(code), togglecode(code))
         IN  shift' = now /\ echo' = <<charcode(now), code>>

keyboard_irq_handler ==
    /\ Enabled /\ kbd_irq
    /\ kbd_irq' = FALSE
    /\ IF kbd_handler
       THEN ps2' = [ps2 EXCEPT !.full = FALSE] /\ decode(ps2.data)
       ELSE UNCHANGED <<ps2, shift, echo>>
    /\ UNCHANGED <<boot, unsent, held, kbd_handler>>

install == kbd_handler' = TRUE /\ UNCHANGED <<unsent, held, ps2, kbd_irq, shift, echo>>
keyboard_reset ==
    ps2' = [ps2 EXCEPT !.full = FALSE]
    /\ UNCHANGED <<unsent, held, kbd_irq, kbd_handler, shift, echo>>

\* Mutant: the output byte is drained before the handler is installed.
keyboard_init_late ==
    /\ ~kbd_irq
    /\ \/ At("kbd_first") /\ keyboard_reset /\ GoTo("kbd_second")
       \/ At("kbd_second") /\ install /\ GoTo("rtc_enable")

\* An interrupt that is pending comes before the next instruction.
keyboard_init ==
    /\ ~kbd_irq
    /\ \/ At("kbd_first") /\ install /\ GoTo("kbd_second")
       \/ At("kbd_second") /\ keyboard_reset /\ GoTo("rtc_enable")

KbdDevice == send \/ \E k \in Keys : press(k) \/ release(k)

\* No byte is left anywhere between a key and the driver.
AllRead == unsent = <<>> /\ ~ps2.full

\* A modifier never sticks: once all bytes are read, each bit has a key that is
\* down, whatever happened before the handler was installed and with extended
\* codes in between.  (The converse fails: releasing one shift key clears the bit
\* of both.)
ModifiersAreHeld ==
    AllRead => /\ \A m \in shift \cap {SHIFT, CTL, ALT} :
                      \E k \in held : m \in shiftcode(k[2])
               /\ E0ESC \notin shift

\* The keyboard never falls silent: a byte is always read in the end, also one
\* that arrived before anybody could handle its interrupt.
BytesAreRead == ps2.full ~> ~ps2.full
=============================================================================
