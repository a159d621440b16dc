---------------------------- MODULE KernelMain ----------------------------
(***************************************************************************)
(* The order in which kernel_main (src/kernel/kernel.c) brings up the      *)
(* devices, as far as their interrupts are concerned.  Interrupts are      *)
(* enabled from the end of idt_init on, long before most handlers are      *)
(* installed.                                                              *)
(***************************************************************************)
EXTENDS Integers, Sequences

Stages == <<"serial_port", "serial_install", "serial_enable", "idt_init",
            "kbd_first", "kbd_second",
            "rtc_enable", "rtc_flag", "rtc_low", "rtc_high", "rtc_install", "done">>

VARIABLE boot    \* index of the stage the boot thread is at

BootInit == boot = 1

At(stage) == Stages[boot] = stage
GoTo(stage) == boot' = CHOOSE i \in DOMAIN Stages : Stages[i] = stage

\* The processor accepts interrupts, and the controllers are programmed.
Enabled == \E i \in 1 .. boot - 1 : Stages[i] = "idt_init"
Booted == At("done")
=============================================================================
