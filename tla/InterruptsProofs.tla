-------------------------- MODULE InterruptsProofs ---------------------------
(***************************************************************************)
(* Proofs about module Interrupts, for every set of lines, every mask the  *)
(* firmware may leave, every set of scan codes and every depth of nesting: *)
(* what is in service in the first controller, and which interrupts find   *)
(* no handler from pic_init on.                                            *)
(*                                                                         *)
(* MasterFollowsStack speaks of all handlers on the stack, and an end of   *)
(* interrupt clears the lowest bit in service, whoever sends it.  Both fit *)
(* because interrupts are enabled again (sti) only behind the end of       *)
(* interrupt: below the innermost handler every handler is leaving, and    *)
(* there is at most one bit to clear.                                      *)
(***************************************************************************)
EXTENDS Interrupts, NumberFacts, SequenceTheorems

Handler == [irq : Lines, leaving : BOOLEAN]

\* Only the innermost handler can still be in front of its "sti".
Nested ==
  /\ stack \in Seq(Handler)
  /\ \A n \in 1 .. Len(stack) - 1 : stack[n].leaving

\* The bit of that handler, and no other, is in service.
OneOpen ==
  ~dead => master = IF stack # <<>> /\ ~Top.leaving THEN {Rank(Top.irq)} ELSE {}

\* What kernel_entry has done by the phase it is in; only lines of devices are pending.
BootOrder ==
  /\ phase # "idt_init" => loaded
  /\ remapped => phase # "idt_init"
  /\ phase \in {"icw4_master", "icw4_slave", "mask_master", "mask_slave", "main"} => remapped
  /\ phase = "main" => masked = saved
  /\ irr \subseteq Lines

Inv == Nested /\ OneOpen /\ BootOrder

-----------------------------------------------------------------------------
(***************************************************************************)
(* Facts about the stack and the controller                                *)
(***************************************************************************)

\* Lines and the inputs they have on the first controller are natural numbers.
LEMMA RankIsNat ==
  ASSUME NEW l \in Lines
  PROVE  l \in Nat /\ Rank(l) \in Nat
  BY InterruptsAssumption DEF Rank, Cascade, Slave

\* An end of interrupt closes a service that is the only one.
LEMMA ClearedSingle ==
  ASSUME NEW n \in Nat
  PROVE  Cleared({n}) = {}
<1>1. {n} # {} /\ {n} \in SUBSET Nat
  OBVIOUS
<1>2. Min({n}) = n
  BY <1>1, MinOfNaturals
<1> QED
  BY <1>2 DEF Cleared

\* Returning from the innermost handler leaves the rest of the stack as it is.
LEMMA FrontOfStack ==
  ASSUME Nested, stack # <<>>
  PROVE  /\ Front(stack) \in Seq(Handler)
         /\ Len(Front(stack)) = Len(stack) - 1
         /\ \A n \in 1 .. Len(Front(stack)) : Front(stack)[n] = stack[n]
         /\ \A n \in 1 .. Len(Front(stack)) : Front(stack)[n].leaving
<1>1. Len(stack) \in Nat /\ Len(stack) > 0 /\ stack \in Seq(Handler)
  BY DEF Nested
<1>2. Front(stack) \in Seq(Handler) /\ \A n \in 1 .. Len(stack) - 1 : Front(stack)[n] = stack[n]
  BY <1>1 DEF Front
<1>3. Len(Front(stack)) = Len(stack) - 1
  <2> DEFINE k == Len(stack) - 1
  <2>1. k \in Nat /\ \A n \in 1 .. k : stack[n] \in Handler
    BY <1>1
  <2>2. Len(SubSeq(stack, 1, k)) = k
    <3> HIDE DEF k
    <3>1. Len(SubSeq(stack, 1, k)) = IF 1 <= k THEN k - 1 + 1 ELSE 0
      BY <2>1, SubSeqProperties
    <3> QED
      BY <2>1, <3>1
  <2> QED
    BY <2>2, Zenon DEF Front
<1> QED
  BY <1>1, <1>2, <1>3 DEF Nested

-----------------------------------------------------------------------------
(***************************************************************************)
(* The first controller                                                    *)
(***************************************************************************)

\* The kernel enters main with an empty stack and nothing in service.
LEMMA InitInv == Init => Inv
<1> SUFFICES ASSUME Init PROVE Inv
  OBVIOUS
<1>1. stack = <<>> /\ stack \in Seq(Handler) /\ Len(stack) = 0
  BY DEF Init
<1>2. irr \subseteq Lines
  BY InterruptsAssumption DEF Init
<1> QED
  BY <1>1, <1>2 DEF Init, Inv, Nested, OneOpen, BootOrder

\* A new handler goes on top of handlers that are all leaving, so that its bit is
\* the only one.
LEMMA DeliverInv ==
  ASSUME Inv, NEW l \in Lines, Deliver(l)
  PROVE  Inv'
<1>1. BootOrder'
  BY DEF Deliver, Inv, BootOrder, boot
<1>2. CASE stack' = stack /\ fatal' = l
  <2>1. dead'
    BY <1>2, InterruptsAssumption DEF dead, NoLine
  <2> QED
    BY <1>1, <1>2, <2>1 DEF Inv, Nested, OneOpen
<1>3. CASE stack' = Append(stack, [irq |-> l, leaving |-> FALSE]) /\ fatal' = fatal
  <2> DEFINE h == [irq |-> l, leaving |-> FALSE]
  <2>1. stack \in Seq(Handler) /\ Len(stack) \in Nat /\ h \in Handler
    BY DEF Inv, Nested, Handler
  <2>2. /\ stack' \in Seq(Handler) /\ Len(stack') = Len(stack) + 1 /\ stack' # <<>>
        /\ stack'[Len(stack) + 1] = h
        /\ \A n \in 1 .. Len(stack) : stack'[n] = stack[n]
    BY <1>3, <2>1
  <2>3. \A n \in 1 .. Len(stack) : stack[n].leaving
    <3>1. \A n \in 1 .. Len(stack) : n = Len(stack) => stack[n].leaving
      BY <2>1 DEF Deliver, InterruptsEnabled
    <3> QED
      BY <2>1, <3>1 DEF Inv, Nested
  <2>4. Nested'
    BY <2>1, <2>2, <2>3 DEF Nested
  <2>5. master = {}
    BY <2>1, <2>3 DEF Inv, OneOpen, Top, Deliver, dead
  <2>6. master' = {Rank(l)}
    BY <2>5 DEF Deliver
  <2>7. Top' = h
    BY <2>1, <2>2 DEF Top
  <2>8. OneOpen'
    BY <2>2, <2>6, <2>7 DEF OneOpen, dead
  <2> QED
    BY <1>1, <2>4, <2>8 DEF Inv
<1> QED
  BY <1>2, <1>3 DEF Deliver

\* The handlers: each clears the only bit there is, or there is none.
LEMMA HandlersInv ==
  ASSUME Inv, Handlers
  PROVE  Inv'
<1>1. stack # <<>> /\ ~dead /\ Nested /\ OneOpen
  BY DEF Inv, Handlers, exception_handler, ps2_keyboard_interrupt_handler, Leave, Running
<1>2. Len(stack) \in Nat /\ Len(stack) > 0 /\ stack \in Seq(Handler)
  BY <1>1 DEF Nested
<1>3. Top \in Handler /\ Rank(Top.irq) \in Nat
  <2>1. Top \in Handler
    BY <1>2 DEF Top
  <2> QED
    BY <2>1, RankIsNat DEF Handler
<1>4. BootOrder'
  BY DEF Inv, BootOrder, Handlers, exception_handler, ps2_keyboard_interrupt_handler, Leave,
         boot, pic
<1>5. Cleared(master) = {}
  BY <1>1, <1>3, ClearedSingle DEF OneOpen, Cleared
<1>6. ASSUME stack' = Front(stack), master' = {} PROVE Nested' /\ OneOpen'
  <2>1. Nested'
    BY <1>1, <1>2, <1>6, FrontOfStack DEF Nested
  <2>2. stack' # <<>> => Top'.leaving
    <3>1. Len(stack') \in Nat /\ (stack' # <<>> => Len(stack') > 0)
      BY <2>1 DEF Nested
    <3>2. \A n \in 1 .. Len(stack') : stack'[n].leaving
      BY <1>1, <1>6, FrontOfStack
    <3> QED
      BY <3>1, <3>2 DEF Top
  <2> QED
    BY <1>6, <2>1, <2>2 DEF OneOpen
<1>7. CASE exception_handler
  BY <1>4, <1>5, <1>6, <1>7 DEF exception_handler, pic_send_eoi, Inv
<1>8. CASE Leave
  <2>1. master' = {}
    BY <1>1, <1>8 DEF Leave, pic, OneOpen
  <2> QED
    BY <1>4, <1>6, <1>8, <2>1 DEF Leave, Inv
<1>9. CASE ps2_keyboard_interrupt_handler
  <2> DEFINE h == [stack[Len(stack)] EXCEPT !.leaving = TRUE]
  <2>1. stack' = [stack EXCEPT ![Len(stack)] = h] /\ master' = {}
    BY <1>5, <1>9 DEF ps2_keyboard_interrupt_handler, pic_send_eoi
  <2>2. stack[Len(stack)] \in Handler
    BY <1>2
  <2>3. h \in Handler /\ h.leaving
    BY <2>2 DEF Handler
  <2>4. /\ stack' \in Seq(Handler) /\ Len(stack') = Len(stack)
        /\ stack'[Len(stack)] = h
        /\ \A n \in 1 .. Len(stack) - 1 : stack'[n] = stack[n]
    <3> HIDE DEF h
    <3> QED
      BY <1>2, <2>1, <2>3
  <2>5. stack'[Len(stack)].leaving
    BY <2>3, <2>4
  <2>6. Nested'
    BY <1>1, <1>2, <2>4 DEF Nested
  <2>7. OneOpen'
    BY <1>2, <2>1, <2>4, <2>5 DEF OneOpen, Top
  <2> QED
    BY <1>4, <2>6, <2>7 DEF Inv
<1> QED
  BY <1>7, <1>8, <1>9 DEF Handlers

\* kernel_entry runs only while no handler does, and pic_init forgets every service.
LEMMA BootInv ==
  ASSUME Inv, Boot
  PROVE  Inv'
<1>1. stack = <<>> /\ stack' = stack /\ dead' = dead
  BY DEF Boot, idt_init, pci_recursive_scan, send_cmd, Acknowledged, TimedOut, AtCommand,
         clear_input_data_buffer, pic_init, icw4_master, icw4_slave, mask_master,
         mask_slave, PicWrite, At, cpu, dead
<1>2. master' = master \/ master' = {}
  BY DEF Boot, idt_init, pci_recursive_scan, send_cmd, Acknowledged, TimedOut, pic,
         clear_input_data_buffer, pic_init, icw4_master, icw4_slave, mask_master,
         mask_slave, PicWrite
<1>3. irr' = irr \/ irr' = {}
  BY DEF Boot, idt_init, pci_recursive_scan, send_cmd, Acknowledged, TimedOut, pic,
         clear_input_data_buffer, pic_init, icw4_master, icw4_slave, mask_master,
         mask_slave, PicWrite
<1>4. BootOrder'
  BY <1>3 DEF Inv, BootOrder, Boot, idt_init, pci_recursive_scan, send_cmd, Acknowledged,
         TimedOut, clear_input_data_buffer, pic_init, icw4_master, icw4_slave, mask_master,
         mask_slave, PicWrite, At, AtCommand, Advance, boot, cpu, pic
<1> QED
  BY <1>1, <1>2, <1>4 DEF Inv, Nested, OneOpen, Top

\* Every step keeps the invariant.
LEMMA NextInv == Inv /\ [Next]_vars => Inv'
<1> SUFFICES ASSUME Inv, [Next]_vars PROVE Inv'
  OBVIOUS
<1>1. CASE Accept \/ UNCHANGED vars \/ \E l \in Lines : Raise(l)
  <2>1. /\ irr' = irr \/ \E l \in Lines : irr' = irr \cup {l}
        /\ UNCHANGED <<phase, loaded, remapped, masked, saved, stack, fatal, master>>
    BY <1>1 DEF Accept, Raise, vars, boot, cpu, pic
  <2> QED
    BY <2>1 DEF Inv, Nested, OneOpen, BootOrder, Top, dead
<1>2. CASE \E c \in ScanCodes : Press(c)
  <2>1. Keyboard \in Lines
    BY InterruptsAssumption
  <2>2. /\ irr' = irr \cup {Keyboard}
        /\ UNCHANGED <<phase, loaded, remapped, masked, saved, stack, fatal, master>>
    BY <1>2 DEF Press, boot, cpu
  <2> QED
    BY <2>1, <2>2 DEF Inv, Nested, OneOpen, BootOrder, Top, dead
<1> QED
  BY <1>1, <1>2, DeliverInv, HandlersInv, BootInv DEF Next

\* The invariant holds in every reachable state.
LEMMA InvHolds == Spec => []Inv
<1> QED
  BY InitInv, NextInv, PTL DEF Spec

\* In the first controller exactly the handlers that have not acknowledged yet are in
\* service, whatever lines interrupt whatever handlers and although exception_handler
\* derives the argument of pic_send_eoi from a word of in-service bits that it cuts to
\* a byte.
THEOREM MasterFollowsStackHolds == Spec => []MasterFollowsStack
<1>1. Inv => MasterFollowsStack
  <2> SUFFICES ASSUME Inv, ~dead PROVE MasterFollowsStack
    BY DEF MasterFollowsStack
  <2>1. Len(stack) \in Nat /\ DOMAIN stack = 1 .. Len(stack) /\ (stack # <<>> => Len(stack) > 0)
    BY DEF Inv, Nested
  <2> DEFINE open == {n \in DOMAIN stack : ~stack[n].leaving}
  <2>2. open = IF stack # <<>> /\ ~Top.leaving THEN {Len(stack)} ELSE {}
    BY <2>1 DEF Inv, Nested, Top
  <2>3. {Rank(stack[n].irq) : n \in open}
          = IF stack # <<>> /\ ~Top.leaving THEN {Rank(Top.irq)} ELSE {}
    BY <2>2 DEF Top
  <2> QED
    BY <2>3 DEF Inv, OneOpen, MasterFollowsStack
<1> QED
  BY <1>1, InvHolds, PTL

\* From pic_init on only line 15 can find the table without its descriptor (idt_init
\* fills 47 of them, and its vector would need the 48th), and once kernel_entry is behind
\* pic_init not even that one does if the firmware had masked it, whatever lines there
\* are and whenever they come.
THEOREM NoFaultAfterBootHolds == Spec => NoFaultAfterBoot
<1>1. \A l \in Lines \ {15} : remapped => Vector(l) \in Stubs
  BY InterruptsAssumption DEF Vector, Stubs, Slave
<1> DEFINE Step == /\ remapped => fatal' \in {fatal, 15}
                   /\ phase = "main" /\ 15 \in saved => fatal' = fatal
<1>2. Inv /\ [Next]_vars => Step
  <2> SUFFICES ASSUME Inv, [Next]_vars PROVE Step
    OBVIOUS
  <2>1. ASSUME NEW l \in Lines, Deliver(l) PROVE Step
    <3>1. remapped /\ l # 15 => fatal' = fatal
      BY <1>1, <2>1 DEF Deliver, Inv, BootOrder
    <3>2. fatal' \in {fatal, l}
      BY <2>1 DEF Deliver
    <3>3. l \notin masked
      BY <2>1 DEF Deliver, Highest, Requests, Heard
    <3>4. phase = "main" => remapped /\ masked = saved
      BY DEF Inv, BootOrder
    <3> QED
      BY <3>1, <3>2, <3>3, <3>4
  <2>2. CASE Boot
    BY <2>2 DEF Boot, idt_init, pci_recursive_scan, send_cmd, Acknowledged, TimedOut,
         clear_input_data_buffer, pic_init, icw4_master, icw4_slave, mask_master,
         mask_slave, PicWrite, cpu
  <2>3. CASE Handlers
    BY <2>3 DEF Handlers, exception_handler, ps2_keyboard_interrupt_handler, Leave
  <2>4. CASE Accept \/ UNCHANGED vars \/ (\E l \in Lines : Raise(l))
             \/ (\E c \in ScanCodes : Press(c))
    BY <2>4 DEF Accept, Raise, Press, vars, cpu
  <2> QED
    BY <2>1, <2>2, <2>3, <2>4 DEF Next
<1>3. Inv /\ [Next]_vars => [Step]_vars
  BY <1>2
<1> QED
  BY <1>3, InvHolds, PTL DEF Spec, NoFaultAfterBoot
=============================================================================
