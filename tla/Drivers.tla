------------------------------ MODULE Drivers ------------------------------
(***************************************************************************)
(* The drivers of Keyboard, Serial and Rtc next to each other, brought up  *)
(* in the order of KernelMain while their devices already work.  In one    *)
(* behaviour only the device called busy has anything to say; the boot     *)
(* thread goes through all of them.                                        *)
(***************************************************************************)
EXTENDS Keyboard, Serial, Rtc

VARIABLE busy

vars == <<boot, kbd, com, rtc, busy>>

Init ==
    /\ BootInit /\ KbdInit /\ SerialInit /\ RtcInit
    /\ busy \in {"kbd", "com", "rtc"}
    /\ busy # "rtc" => now = 0 /\ ~update_ended

KbdStep ==
    /\ keyboard_init \/ keyboard_irq_handler \/ (busy = "kbd" /\ KbdDevice)
    /\ UNCHANGED <<com, rtc, busy>>

ComStep ==
    /\ \/ serial_init \/ idt_init \/ serial_irq_handler \/ read_com \/ serial_getc
       \/ busy = "com" /\ SerialDevice
    /\ UNCHANGED <<kbd, rtc, busy>>

RtcStep ==
    /\ rtc_init \/ rtc_irq_handler \/ (busy = "rtc" /\ (update \/ get_seconds \/ get_seconds_sum))
    /\ UNCHANGED <<kbd, com, busy>>

Next == KbdStep \/ ComStep \/ RtcStep

\* Boot goes on, and interrupts are taken when they are enabled.
Fairness ==
    /\ WF_vars((keyboard_init \/ keyboard_irq_handler) /\ UNCHANGED <<com, rtc, busy>>)
    /\ WF_vars((serial_init \/ idt_init \/ serial_irq_handler) /\ UNCHANGED <<kbd, rtc, busy>>)
    /\ WF_vars((rtc_init \/ rtc_irq_handler) /\ UNCHANGED <<kbd, com, busy>>)

Spec == Init /\ [][Next]_vars /\ Fairness
=============================================================================
