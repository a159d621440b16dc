------------------------------- MODULE Serial -------------------------------
(***************************************************************************)
(* The serial driver src/kernel/drivers/serial.c: the queue between        *)
(* serial_irq_handler and serial_getc, which read_com (fs/devices/com.c)   *)
(* calls with interrupts enabled.  The port has a FIFO and raises its line *)
(* when Trigger bytes are there or after a pause; the controller sees      *)
(* edges of the line only.  queue and lost are history: what should be in  *)
(* the queue, and whether the driver has lost track of it.                 *)
(***************************************************************************)
EXTENDS KernelMain

CONSTANTS
    READ_QUEUE_SIZE,
    Trigger,      \* 14
    UartFifo,     \* 16
    Bytes

ASSUME SerialAssumption == READ_QUEUE_SIZE \in Nat \ {0} /\ Trigger \in Nat \ {0}

VARIABLES
    uart,         \* the received bytes, the pause, the enable bit
    com_irq,      \* is IRQ 4 pending?
    com_handler,  \* is serial_irq_handler installed?
    read_queue, queue_front, queue_rear,
    getc,         \* the activation of serial_getc
    queue, lost,
    stalled       \* why the line may stay up without an edge

indices == <<queue_front, queue_rear>>
com == <<uart, com_irq, com_handler, read_queue, indices, getc, queue, lost, stalled>>

Slots == 0 .. READ_QUEUE_SIZE - 1
NoCall == [at |-> "none", front |-> 0, c |-> 0]

SerialInit ==
    /\ uart = [fifo |-> <<>>, pause |-> FALSE, enable |-> FALSE]
    /\ com_irq = FALSE /\ com_handler = FALSE
    /\ read_queue = [i \in Slots |-> 0]
    /\ queue_front = -1 /\ queue_rear = -1
    /\ getc = NoCall
    /\ queue = <<>> /\ lost = FALSE
    /\ stalled = {}

Line(u) == u.enable /\ (Len(u.fifo) >= Trigger \/ u.pause)

\* The port changes to u.
Port(u) == uart' = u /\ com_irq' = (com_irq \/ (Enabled /\ ~Line(uart) /\ Line(u)))

receive(b) ==
    /\ Len(uart.fifo) < UartFifo
    /\ Port([uart EXCEPT !.fifo = Append(@, b)])
    /\ UNCHANGED <<boot, com_handler, read_queue, indices, getc, queue, lost, stalled>>

pause ==
    /\ uart.fifo # <<>> /\ ~uart.pause
    /\ Port([uart EXCEPT !.pause = TRUE])
    /\ UNCHANGED <<boot, com_handler, read_queue, indices, getc, queue, lost, stalled>>

\* The port answers in loopback mode, or the driver is not used.
port_enable ==
    /\ At("serial_port")
    /\ GoTo("serial_install") \/ GoTo("idt_init")
    /\ UNCHANGED <<uart, com_irq, com_handler>>

\* Interrupts on received bytes are enabled before the controllers are programmed,
\* and an edge from that time is not seen again.
serial_init ==
    /\ \/ port_enable
       \/ At("serial_install") /\ GoTo("serial_enable") /\ com_handler' = TRUE
          /\ UNCHANGED <<uart, com_irq>>
       \/ At("serial_enable") /\ GoTo("idt_init") /\ Port([uart EXCEPT !.enable = TRUE])
          /\ UNCHANGED com_handler
    /\ UNCHANGED <<read_queue, indices, getc, queue, lost, stalled>>

idt_init ==
    /\ At("idt_init") /\ GoTo("kbd_first")
    /\ stalled' = IF Line(uart) THEN {"early"} ELSE {}
    /\ UNCHANGED <<uart, com_irq, com_handler, read_queue, indices, getc, queue, lost>>

\* The test in the handler misses a queue that is full and has wrapped.
looks_full == queue_front = 0 /\ queue_rear = READ_QUEUE_SIZE - 1

\* Mutant: only "data available" counts, not "no new byte for a while".
wants_read_no_pause == Len(uart.fifo) >= Trigger

\* Bit 2 of the identification register.
wants_read == Line(uart)

\* Mutant: the front of an empty queue stays where it is.
enqueue_keeps_front(b) ==
    /\ queue_front' = queue_front
    /\ queue_rear' = (queue_rear + 1) % READ_QUEUE_SIZE
    /\ read_queue' = [read_queue EXCEPT ![queue_rear'] = b]

enqueue(b) ==
    /\ queue_front' = IF queue_front = -1 THEN 0 ELSE queue_front
    /\ queue_rear' = (queue_rear + 1) % READ_QUEUE_SIZE
    /\ read_queue' = [read_queue EXCEPT ![queue_rear'] = b]

\* lost: the queue was full, or serial_getc had decided that it takes the last byte.
serial_irq_handler ==
    /\ Enabled /\ com_irq
    /\ IF com_handler /\ wants_read /\ ~looks_full
       THEN LET after == [uart EXCEPT !.fifo = Tail(@), !.pause = FALSE] IN
            /\ uart' = after
            /\ enqueue(Head(uart.fifo))
            /\ lost' = (lost \/ Len(queue) = READ_QUEUE_SIZE
                             \/ getc.at \in {"reset_rear", "reset_front"})
            /\ queue' = IF lost' THEN <<>> ELSE Append(queue, Head(uart.fifo))
            /\ stalled' = IF Line(after) THEN stalled \cup {"backlog"} ELSE stalled
       ELSE /\ stalled' = IF looks_full THEN stalled \cup {"full"} ELSE stalled
            /\ UNCHANGED <<uart, read_queue, indices, queue, lost>>
    /\ com_irq' = FALSE
    /\ UNCHANGED <<boot, com_handler, getc>>

\* read_com calls serial_getc for each byte; an empty queue answers 0.
read_com ==
    /\ Booted /\ getc = NoCall /\ queue_front # -1
    /\ getc' = [at |-> "compare", front |-> queue_front, c |-> read_queue[queue_front]]
    /\ UNCHANGED <<boot, uart, com_irq, com_handler, read_queue, indices, queue, lost, stalled>>

Dequeue == queue' = IF lost THEN <<>> ELSE Tail(queue)

\* The stores of serial_getc in the order of the build; front is in a register.
serial_getc ==
    /\ \/ /\ getc.at = "compare"
          /\ getc' = [getc EXCEPT !.at = IF getc.front = queue_rear THEN "reset_rear" ELSE "advance"]
          /\ UNCHANGED <<indices, queue>>
       \/ /\ getc.at = "advance"
          /\ queue_front' = (getc.front + 1) % READ_QUEUE_SIZE
          /\ Dequeue /\ getc' = NoCall
          /\ UNCHANGED queue_rear
       \/ /\ getc.at = "reset_rear"
          /\ queue_rear' = -1
          /\ Dequeue /\ getc' = [getc EXCEPT !.at = "reset_front"]
          /\ UNCHANGED queue_front
       \/ /\ getc.at = "reset_front"
          /\ queue_front' = -1 /\ getc' = NoCall
          /\ UNCHANGED <<queue_rear, queue>>
    /\ UNCHANGED <<boot, uart, com_irq, com_handler, read_queue, lost, stalled>>

SerialDevice == pause \/ \E b \in Bytes : receive(b)

Contents ==
    IF queue_front = -1 \/ queue_rear = -1 THEN <<>>
    ELSE LET n == (queue_rear - queue_front) % READ_QUEUE_SIZE
         IN  [i \in 1 .. n + 1 |-> read_queue[(queue_front + i - 1) % READ_QUEUE_SIZE]]

\* Readers get the received bytes in order, none lost and none twice, as long as
\* the queue does not overflow and no byte arrives while serial_getc takes the
\* last one: an interrupt at any other point of serial_getc does no harm.
BytesInOrder ==
    ~lost => /\ Contents = queue
             /\ getc.at \in {"compare", "advance", "reset_rear"} => getc.c = Head(queue)

\* Reception comes to a halt only for three reasons: a byte received before the
\* controllers were programmed, a full queue, and a FIFO in which the trigger level
\* is still reached after the handler has read its one byte.
StallsHaveReasons == Enabled /\ Line(uart) /\ ~com_irq => stalled # {}
=============================================================================
