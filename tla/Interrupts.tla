----------------------------- MODULE Interrupts ------------------------------
(***************************************************************************)
(* Interrupts in ester: the order in which kernel_entry enables them, the  *)
(* descriptor table (set_idt.c, idt.asm), the two 8259 controllers         *)
(* (8259_pic.c) and the PS/2 keyboard with its initialisation and handler  *)
(* (ps2_keyboard.c).                                                       *)
(*                                                                         *)
(* The hardware is external: the 8259 pair in fully nested mode with edge  *)
(* triggered lines, the keyboard controller with its two one-byte buffers, *)
(* and the vectors the firmware programmed.  Exceptions raised by the code *)
(* itself and spurious interrupts are not modelled, nor are the registers  *)
(* that no stub saves.                                                     *)
(***************************************************************************)
EXTENDS Integers, Sequences, FiniteSets, SequencesExt

CONSTANTS
  Lines,       \* interrupt lines that a device drives, numbered 0 to 15
  Masks,       \* the sets of lines that the firmware may have left masked
  ScanCodes,   \* scan codes the keyboard sends
  Legend,      \* reference: what is printed on the key of a scan code, or NoChar
  MaxRetries,  \* PS2_KEYBOARD_MAX_RETRIES, 3 in the code
  MaxNesting   \* bound: handlers on the stack

Timer == 0
Keyboard == 1
Cascade == 2
Slave == 8 .. 15
NoLine == -1
NoCode == 0            \* PS2_KEYBOARD_NULL_KEY
NoChar == "none"

ASSUME InterruptsAssumption ==
  /\ Lines \subseteq 0 .. 15 /\ {Timer, Keyboard} \subseteq Lines /\ Cascade \notin Lines
  /\ \A m \in Masks : m \subseteq 0 .. 15
  /\ ScanCodes \subseteq 1 .. 255
  /\ DOMAIN Legend = ScanCodes
  /\ MaxRetries \in Nat \ {0} /\ MaxNesting \in Nat \ {0}

VARIABLES
  phase,    \* kernel_entry: the call it is in
  step,     \* ps2_keyboard_init: the command it is at
  tries,    \* send_cmd: waits so far, 0 before the command is sent
  loaded,   \* the descriptor table is loaded
  gate33,   \* vector 33 points to the keyboard handler
  stack,    \* handlers that have started, innermost last: [irq, leaving]
  fatal,    \* the line whose interrupt found no handler, or NoLine
  irr,      \* lines with a pending edge
  master,   \* in-service bits of the first controller
  slave,    \* in-service bits of the second controller
  remapped, \* vectors start at 32 and 40 instead of the firmware's 8 and 112
  accepting,\* the controllers that are not in the middle of their initialisation
  masked,   \* mask registers: the lines they hold back
  saved,    \* pic_init: a1 and a2
  code,     \* keyboard controller: output buffer
  port,     \* keyboard controller: first port enabled
  cmd,      \* keyboard controller: command in the input buffer, or "none"
  typed     \* what the keyboard handler printed last

boot == <<phase, step, tries>>
cpu  == <<loaded, gate33, stack, fatal>>
pic  == <<irr, master, slave, remapped, accepting, masked>>
ps2  == <<code, port, cmd>>
vars == <<boot, cpu, pic, saved, ps2, typed>>

dead == fatal # NoLine

\* After "sti" in kernel_entry.  The firmware may have left a scan code, and lines masked.
Init ==
  /\ phase = "idt_init" /\ step = 1 /\ tries = 0
  /\ loaded = FALSE /\ gate33 = FALSE /\ stack = <<>> /\ fatal = NoLine
  /\ master = {} /\ slave = {}
  /\ remapped = FALSE /\ accepting = {"master", "slave"}
  /\ masked \in Masks /\ saved = {}
  /\ code \in ScanCodes \cup {NoCode} /\ port = TRUE /\ cmd = "none"
  /\ irr \in (IF code = NoCode THEN {{}} ELSE {{}, {Keyboard}})
  /\ typed = NoChar

-----------------------------------------------------------------------------
(***************************************************************************)
(* Devices.                                                                *)
(***************************************************************************)
\* A handler is far shorter than the time between two ticks of the timer.
Raise(l) ==
  /\ ~dead
  /\ l # Keyboard /\ l \notin irr
  /\ l = Timer => stack = <<>>
  /\ irr' = irr \cup {l}
  /\ UNCHANGED <<boot, cpu, master, slave, remapped, accepting, masked, saved, ps2, typed>>

\* The next scan code waits in the keyboard until the buffer is empty.
Press(c) ==
  /\ ~dead
  /\ port /\ code = NoCode
  /\ code' = c /\ irr' = irr \cup {Keyboard}
  /\ UNCHANGED <<boot, cpu, master, slave, remapped, accepting, masked, saved, port, cmd, typed>>

\* The keyboard controller takes the command out of its input buffer.
Accept ==
  /\ ~dead /\ cmd # "none"
  /\ port' = CASE cmd = "disable_first" -> FALSE
               [] cmd = "enable_first"  -> TRUE
               [] OTHER -> port
  /\ cmd' = "none"
  /\ UNCHANGED <<boot, cpu, pic, saved, code, typed>>

-----------------------------------------------------------------------------
(***************************************************************************)
(* The 8259 pair: which line is next, and what an end of interrupt clears. *)
(***************************************************************************)
\* Lines 8 to 15 enter the first controller at line 2.
Rank(l) == IF l \in Slave THEN Cascade ELSE l

Served(l) ==
  IF l \in Slave
  THEN /\ \A s \in slave : l < s
       /\ \A m \in master : Cascade < m
  ELSE \A m \in master : l < m

Before(k, l) == Rank(k) < Rank(l) \/ (Rank(k) = Rank(l) /\ k < l)

\* The controller of the line is at work, and the line is not masked; a line that is
\* not heard stays pending.
Heard(l) ==
  /\ "master" \in accepting /\ l \notin masked
  /\ l \in Slave => "slave" \in accepting /\ Cascade \notin masked

Requests == {l \in irr : Heard(l) /\ Served(l)}
Highest(l) == l \in Requests /\ \A k \in Requests \ {l} : Before(l, k)

Cleared(isr) == IF isr = {} THEN {} ELSE isr \ {Min(isr)}

\* pic_send_eoi
EoiMasterOrSlave(irq) ==                       \* mutant: else instead of falling through
  /\ slave'  = IF irq >= 8 THEN Cleared(slave) ELSE slave
  /\ master' = IF irq >= 8 THEN master ELSE Cleared(master)

pic_send_eoi(irq) ==
  /\ slave'  = IF irq >= 8 THEN Cleared(slave) ELSE slave
  /\ master' = Cleared(master)

\* pic_get_isr: the in-service bits of both controllers in one word.
pic_get_isr == SumSet({2 ^ l : l \in master \cup slave})

-----------------------------------------------------------------------------
(***************************************************************************)
(* Taking an interrupt.                                                    *)
(***************************************************************************)
Vector(l) ==
  IF l \in Slave THEN (IF remapped THEN 40 ELSE 112) + l - 8
                 ELSE (IF remapped THEN 32 ELSE 8) + l

Stubs == 0 .. 46                               \* idt_init

InterruptsEnabled == \A n \in DOMAIN stack : n = Len(stack) => stack[n].leaving

\* Without a descriptor the processor faults, and the stub of that fault returns
\* over the error code it was given.
Deliver(l) ==
  /\ ~dead /\ InterruptsEnabled
  /\ Highest(l) /\ Len(stack) < MaxNesting
  /\ irr' = irr \ {l}
  /\ master' = master \cup {Rank(l)}
  /\ slave'  = IF l \in Slave THEN slave \cup {l} ELSE slave
  /\ IF loaded /\ Vector(l) \in Stubs
     THEN stack' = Append(stack, [irq |-> l, leaving |-> FALSE]) /\ UNCHANGED fatal
     ELSE fatal' = l /\ UNCHANGED stack
  /\ UNCHANGED <<boot, loaded, gate33, remapped, accepting, masked, saved, ps2, typed>>

Running == ~dead /\ stack # <<>>
Top == stack[Len(stack)]
KeyboardHandler == gate33 /\ remapped /\ Top.irq = Keyboard

\* exception_handler: the argument of pic_send_eoi is one byte wide.  Its line on the
\* console is left to module Console.
exception_handler ==
  /\ Running /\ ~Top.leaving /\ ~KeyboardHandler
  /\ pic_send_eoi((pic_get_isr - 1) % 256)
  /\ stack' = Front(stack)
  /\ UNCHANGED <<boot, loaded, gate33, fatal, irr, remapped, accepting, masked, saved, ps2, typed>>

-----------------------------------------------------------------------------
(***************************************************************************)
(* ps2_keyboard_interrupt_handler.                                         *)
(***************************************************************************)
Letters(first, row, c) == {row[c - first + 1]}

\* The set of what __ps2_keyboard_to_ascii may return.  Two codes lie behind the
\* end of the first row: its terminator, and a byte of whatever follows it.
to_ascii(c) ==
  CASE c = 28 -> {"\n"}
    [] c = 57 -> {" "}
    [] c = 14 -> {"\r"}
    [] c = 180 -> {"."}
    [] c = 181 -> {"/"}
    [] c = 41 -> {"0"}
    [] c \in 2 .. 10  -> Letters(2, <<"1", "2", "3", "4", "5", "6", "7", "8", "9">>, c)
    [] c \in 16 .. 25 -> Letters(16, <<"q", "w", "e", "r", "t", "z", "u", "i", "o", "p">>, c)
    [] c = 26 -> {NoChar}
    [] c = 27 -> {NoChar, "a", "?"}
    [] c \in 30 .. 38 -> Letters(30, <<"a", "s", "d", "f", "g", "h", "j", "k", "l">>, c)
    [] c \in 44 .. 50 -> Letters(44, <<"y", "x", "c", "v", "b", "n", "m">>, c)
    [] OTHER -> {NoChar}

HandlerWithoutEoi ==                           \* mutant: the interrupt is not closed
  /\ Running /\ ~Top.leaving /\ KeyboardHandler
  /\ code' = NoCode
  /\ \E ch \in to_ascii(code) : typed' = IF ch = NoChar THEN typed ELSE ch
  /\ stack' = [stack EXCEPT ![Len(stack)].leaving = TRUE]
  /\ UNCHANGED <<boot, loaded, gate33, fatal, pic, saved, port, cmd>>

\* Up to "sti", which is in front of the return.
ps2_keyboard_interrupt_handler ==
  /\ Running /\ ~Top.leaving /\ KeyboardHandler
  /\ code' = NoCode
  /\ \E ch \in to_ascii(code) : typed' = IF ch = NoChar THEN typed ELSE ch
  /\ pic_send_eoi(Keyboard)
  /\ stack' = [stack EXCEPT ![Len(stack)].leaving = TRUE]
  /\ UNCHANGED <<boot, loaded, gate33, fatal, irr, remapped, accepting, masked, saved, port, cmd>>

Leave ==
  /\ Running /\ Top.leaving
  /\ stack' = Front(stack)
  /\ UNCHANGED <<boot, loaded, gate33, fatal, pic, saved, ps2, typed>>

-----------------------------------------------------------------------------
(***************************************************************************)
(* kernel_entry, up to pic_init.                                           *)
(***************************************************************************)
At(p) == ~dead /\ stack = <<>> /\ phase = p

idt_init ==
  /\ At("idt_init")
  /\ loaded' = TRUE /\ phase' = "pci_recursive_scan"
  /\ UNCHANGED <<step, tries, gate33, stack, fatal, pic, saved, ps2, typed>>

pci_recursive_scan ==
  /\ At("pci_recursive_scan")
  /\ phase' = "ps2_keyboard_init"
  /\ UNCHANGED <<step, tries, cpu, pic, saved, ps2, typed>>

InitWithoutDisable ==                          \* mutant: the drained port stays enabled
  <<"disable_second", "clear_input_data_buffer", "enable_first", "enable_second">>

\* ps2_keyboard_init
InitSequence ==
  <<"disable_first", "disable_second", "clear_input_data_buffer",
    "enable_first", "enable_second">>

Current == InitSequence[step]
AtCommand == At("ps2_keyboard_init") /\ Current # "clear_input_data_buffer"

Advance ==
  IF step < Len(InitSequence)
  THEN step' = step + 1 /\ tries' = 0 /\ UNCHANGED <<phase, gate33>>
  ELSE phase' = "pic_init" /\ gate33' = TRUE /\ UNCHANGED <<step, tries>>

send_cmd ==
  /\ AtCommand /\ tries = 0
  /\ cmd' = Current /\ tries' = 1
  /\ UNCHANGED <<phase, step, cpu, pic, saved, code, port, typed>>

\* wait_ack returned 0.
Acknowledged ==
  /\ AtCommand /\ tries > 0 /\ cmd = "none"
  /\ Advance
  /\ UNCHANGED <<loaded, stack, fatal, pic, saved, ps2, typed>>

\* wait_ack returned 1: the command is sent again; after the last wait
\* ps2_keyboard_init gives up, and kernel_entry does not look at its result.
TimedOut ==
  /\ AtCommand /\ tries > 0 /\ cmd # "none"
  /\ cmd' = Current
  /\ IF tries < MaxRetries
     THEN tries' = tries + 1 /\ UNCHANGED phase
     ELSE phase' = "pic_init" /\ UNCHANGED tries
  /\ UNCHANGED <<step, cpu, pic, saved, code, port, typed>>

clear_input_data_buffer ==
  /\ At("ps2_keyboard_init") /\ Current = "clear_input_data_buffer"
  /\ IF code # NoCode
     THEN code' = NoCode /\ UNCHANGED <<boot, gate33>>
     ELSE Advance /\ UNCHANGED code
  /\ UNCHANGED <<loaded, stack, fatal, pic, saved, port, cmd, typed>>

\* pic_init saves the masks.  The first command word clears them and forgets every edge
\* and every service; a controller works again after its fourth, with the new vectors.
pic_init ==
  /\ At("pic_init")
  /\ saved' = masked
  /\ irr' = {} /\ master' = {} /\ slave' = {} /\ accepting' = {} /\ masked' = {}
  /\ remapped' = TRUE
  /\ phase' = "icw4_master"
  /\ UNCHANGED <<step, tries, cpu, ps2, typed>>

\* One write to a controller, between two of which interrupts may come.
PicWrite(from, to) ==
  /\ At(from) /\ phase' = to
  /\ UNCHANGED <<step, tries, cpu, irr, master, slave, remapped, saved, ps2, typed>>

icw4_master ==
  /\ PicWrite("icw4_master", "icw4_slave")
  /\ accepting' = {"master"} /\ UNCHANGED masked

icw4_slave ==
  /\ PicWrite("icw4_slave", "mask_master")
  /\ accepting' = {"master", "slave"} /\ UNCHANGED masked

\* "Restore saved masks"
mask_master ==
  /\ PicWrite("mask_master", "mask_slave")
  /\ masked' = saved \ Slave /\ UNCHANGED accepting

MaskSlaveForgotten ==                          \* mutant: the saved mask is not written
  /\ PicWrite("mask_slave", "main")
  /\ UNCHANGED <<accepting, masked>>

mask_slave ==
  /\ PicWrite("mask_slave", "main")
  /\ masked' = saved /\ UNCHANGED accepting

Boot ==
  \/ idt_init \/ pci_recursive_scan \/ send_cmd \/ Acknowledged \/ TimedOut
  \/ clear_input_data_buffer
  \/ pic_init \/ icw4_master \/ icw4_slave \/ mask_master \/ mask_slave

Handlers == exception_handler \/ ps2_keyboard_interrupt_handler \/ Leave

Next ==
  \/ Boot \/ Handlers
  \/ \E l \in Lines : Raise(l) \/ Deliver(l)
  \/ \E c \in ScanCodes : Press(c)
  \/ Accept

\* A handler runs to its end, and the processor takes an interrupt that is
\* requested.  kernel_entry makes progress between two interrupts, and so does the way
\* back to it from a handler that has enabled interrupts again; the keyboard is served
\* between two ticks of the timer.  Nothing is assumed of the devices:
\* the keyboard controller may never take a command.
Fairness ==
  /\ WF_vars(Handlers)
  /\ WF_vars(\E l \in Lines : Deliver(l))
  /\ SF_vars(Boot)
  /\ \A n \in 1 .. MaxNesting : SF_vars(Leave /\ Len(stack) = n)
  /\ SF_vars(Deliver(Keyboard))

Spec == Init /\ [][Next]_vars /\ Fairness

-----------------------------------------------------------------------------
\* Every handler closes exactly the interrupt it was started for in the first
\* controller: outside the handlers no service is left open, and inside, one per
\* handler that has not acknowledged yet (exception_handler computes the argument of
\* pic_send_eoi from the in-service bits; the keyboard handler passes its line).
MasterFollowsStack ==
  ~dead => master = {Rank(stack[n].irq) : n \in {n \in DOMAIN stack : ~stack[n].leaving}}

\* From the first command word of pic_init on every interrupt has a handler except that
\* of line 15 (idt_init fills 47 descriptors, its vector would need the 48th), and even
\* that one cannot come any more once kernel_entry is behind pic_init, if the firmware
\* had left line 15 masked (the masks are open between the fourth command words and
\* "Restore saved masks").
NoFaultAfterBoot ==
  [][/\ remapped => fatal' \in {fatal, 15}
     /\ phase = "main" /\ 15 \in saved => fatal' = fatal]_vars

\* "PIC2 is chained, and represents IRQs 8-15": behind pic_init every line of the two
\* controllers has a handler, so that no interrupt stops the kernel in its main loop.
\* Not so for line 15.
EveryLineHasAHandler == [][phase = "main" => fatal' = fatal]_vars

\* kernel_entry gets past the keyboard whatever the keyboard does: the waits are
\* bounded, and the loop that drains the buffer ends because the port was disabled
\* first (ps2_keyboard_init).
BootCompletes == <>(phase = "main" \/ dead)

\* Once the keyboard handler is in place, a pending keyboard interrupt makes the
\* handler take the scan code and print what the key says, whatever other lines do, as
\* long as line 15 is quiet and the keyboard not masked (to_ascii,
\* ps2_keyboard_interrupt_handler).
KeysAreServed ==
  \A c \in ScanCodes :
    (phase = "main" /\ gate33 /\ code = c /\ Keyboard \in irr \ masked)
      ~> \/ code = NoCode /\ (Legend[c] # NoChar => typed = Legend[c])
         \/ fatal = 15 /\ 15 \notin masked

\* Every handler closes its interrupt in the second controller too.
SlaveFollowsStack ==
  ~dead => slave = {stack[n].irq : n \in {n \in DOMAIN stack : stack[n].irq \in Slave}}
=============================================================================
