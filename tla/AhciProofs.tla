----------------------------- MODULE AhciProofs ------------------------------
(***************************************************************************)
(* Proofs about the AHCI driver and the adapter, for every number of       *)
(* command slots, every disk, every spin limit and any number of task file *)
(* errors.                                                                 *)
(*                                                                         *)
(* The inductive invariant is TypeOK together with Handshake and Served.   *)
(* Until the first task file error the command list holds at most one      *)
(* issued command, that of the request being polled, so the slot found is  *)
(* always slot 0 and the header that read fills is the header that runs.   *)
(* After it the adapter is halted for good, and nothing runs.              *)
(***************************************************************************)
EXTENDS Ahci, NumberFacts

Initialising == dpc \in {"off", "reset", "stop", "start"}

\* The reset bit is set only while the driver waits for it, the engine has been
\* started once the driver is initialised, and only a started engine works.
EngineState ==
  /\ hr => dpc = "reset"
  /\ ~Initialising => st
  /\ cur # NoSlot => st /\ cr /\ ~Initialising
  /\ halted => cr
  /\ cr => st
  /\ st /\ Initialising => dpc = "off" \/ hr
  /\ Initialising => ci = {}

\* An error bit that shows behind the reset belongs to an adapter that stopped.
ErrorsHalt ==
  /\ tfes => halted \/ dpc \in {"off", "reset"}
  /\ tfes /\ dpc = "reset" => hr

\* While the adapter works it has at most the command that the driver polls.
OneCommand ==
  /\ cur # NoSlot => cur \in ci /\ ~halted
  /\ ~halted /\ ci # {} => dpc \in {"poll", "status"} /\ ci = {slot}
  /\ ~halted /\ dpc \in {"wait", "poll", "status"} => hdr[slot] = req
  /\ dpc \in {"wait", "poll", "status", "check", "settle"} => slot \in Slot /\ req \in Command

Handshake == EngineState /\ ErrorsHalt /\ OneCommand

\* What a request is for has happened.
Transferred ==
  IF req.op = "read" THEN buf = media[req.lba] ELSE media[req.lba] = req.data

\* The slot of the polled request leaves the issue register only with its data, and
\* nothing moves data until the next request.
Served ==
  /\ dpc \in {"poll", "status"} /\ slot \notin ci => Transferred
  /\ dpc = "check" => slot \notin ci /\ Transferred
  /\ dpc = "settle" => req.op = "read" /\ slot \notin ci /\ Transferred
  /\ dpc = "idle" /\ ret = 0 => Transferred
  /\ Initialising => ret # 0

-----------------------------------------------------------------------------
(***************************************************************************)
(* Facts about slots                                                       *)
(***************************************************************************)

\* find_cmdslot returns a slot that is not issued, or none.
LEMMA FoundSlot ==
  /\ find_cmdslot \in Slot \cup {NoSlot}
  /\ find_cmdslot # NoSlot => find_cmdslot \in Slot \ ci
<1>1. CASE FreeSlots = {}
  BY <1>1 DEF find_cmdslot
<1>2. CASE FreeSlots # {}
  <2>1. FreeSlots \subseteq Nat
    BY AhciAssumption DEF FreeSlots, Slot
  <2>2. Min(FreeSlots) \in FreeSlots
    BY <1>2, <2>1, MinOfNaturals
  <2> QED
    BY <1>2, <2>2 DEF find_cmdslot, FreeSlots
<1> QED
  BY <1>1, <1>2

\* With no command issued the slot found is slot 0.
LEMMA FirstSlotFound == ci = {} => find_cmdslot = 0
<1> SUFFICES ASSUME ci = {} PROVE find_cmdslot = 0
  OBVIOUS
<1>1. FreeSlots = Slot /\ 0 \in Slot /\ Slot \subseteq Nat
  BY AhciAssumption DEF FreeSlots, Slot
<1>2. Min(Slot) \in Nat /\ Min(Slot) <= 0
  BY <1>1, MinOfNaturals
<1> QED
  BY <1>1, <1>2 DEF find_cmdslot

-----------------------------------------------------------------------------
(***************************************************************************)
(* Types                                                                   *)
(***************************************************************************)

\* What the firmware left has the right types, and nothing is issued.
LEMMA InitInv == Init => TypeOK /\ Handshake
<1> SUFFICES ASSUME Init PROVE TypeOK /\ Handshake
  OBVIOUS
<1>1. TypeOK
  <2>1. 0 \in Slot /\ 0 \in 0 .. SpinLimit /\ 0 \in 0 .. MaxErrors
    BY AhciAssumption DEF Slot
  <2>2. {hr, st, cr, tfes, bsy, halted} \subseteq BOOLEAN
    BY DEF Init
  <2> QED
    BY <2>1, <2>2 DEF Init, TypeOK
<1>2. Handshake
  BY DEF Init, Handshake, EngineState, ErrorsHalt, OneCommand, Initialising, NoSlot
<1> QED
  BY <1>1, <1>2

\* The command that the adapter works on is the command of the request.
LEMMA CurrentCommand ==
  ASSUME TypeOK, Handshake, cur # NoSlot
  PROVE  /\ cur \in Slot /\ cur = slot /\ ci = {slot} /\ ~halted
         /\ dpc \in {"poll", "status"} /\ hdr[cur] = req /\ req \in Command
<1> QED
  BY DEF TypeOK, Handshake, EngineState, OneCommand

\* The address that the adapter takes from a command is on the disk.
LEMMA AddressOnDisk ==
  ASSUME NEW c \in Command
  PROVE  Address(c) \in Lba /\ c.op \in {"read", "write"} /\ c.lba \in Lba
<1> QED
  BY AhciAssumption DEF Address, Command

\* A request keeps the types, whether or not it finds a slot.
LEMMA BeginType ==
  ASSUME TypeOK, NEW c \in Command, NEW h \in Slot \cup {NoSlot},
         find_cmdslot # NoSlot => h \in Slot, Begin(c, h)
  PROVE  TypeOK'
<1> USE DEF TypeOK
<1>1. /\ dpc' \in {"idle", "wait"} /\ ret' \in {-1, 0, 1}
      /\ hdr' \in [Slot -> Command \cup {Idle}]
  BY DEF Begin
<1>2. slot' \in Slot \cup {NoSlot} /\ spin' \in 0 .. SpinLimit /\ buf' \in Data \cup {Zero}
  BY FoundSlot, AhciAssumption DEF Begin
<1> QED
  BY <1>1, <1>2 DEF Begin, hbaVars

\* The two requests of the block device, as Begin with a header that exists.
LEMMA RequestBegins ==
  ASSUME TypeOK, Request
  PROVE  \E c \in Command, h \in Slot \cup {NoSlot} :
           /\ Begin(c, h)
           /\ find_cmdslot # NoSlot => h \in Slot
           /\ h = 0 \/ h = find_cmdslot
<1>1. ASSUME NEW l \in Lba, ahci_read(l)
      PROVE  \E c \in Command : Begin(c, 0)
  BY <1>1 DEF ahci_read, ReadHeader, Command
<1>2. ASSUME NEW l \in Lba, NEW d \in Data, ahci_write(l, d)
      PROVE  \E c \in Command : Begin(c, find_cmdslot)
  BY <1>2 DEF ahci_write, WriteHeader, Command
<1>3. 0 \in Slot
  BY AhciAssumption DEF Slot
<1> QED
  BY <1>1, <1>2, <1>3, FoundSlot DEF Request

\* Every step of the driver and of the adapter keeps the types.
LEMMA NextType == TypeOK /\ Handshake /\ [Next]_vars => TypeOK'
<1> SUFFICES ASSUME TypeOK, Handshake, [Next]_vars PROVE TypeOK'
  OBVIOUS
<1> USE DEF TypeOK, hbaVars, driverVars
<1>1. CASE ResetController \/ stop_cmd \/ port_rebase \/ start_cmd
  BY <1>1 DEF ResetController, stop_cmd, port_rebase, start_cmd
<1>2. CASE Spin
  BY <1>2, AhciAssumption DEF Spin
<1>3. CASE PortIsHung
  BY <1>3 DEF PortIsHung, Return
<1>4. CASE PortIsReady
  <2>1. dpc = "wait" => slot \in Slot
    BY DEF Handshake, OneCommand
  <2> QED
    BY <1>4, <2>1 DEF PortIsReady, Return
<1>5. CASE PollSlot \/ PollError \/ CheckAgain
  BY <1>5 DEF PollSlot, PollError, CheckAgain, Return
<1>6. CASE ResetDone \/ EngineFollows \/ StatusClears
  BY <1>6 DEF ResetDone, EngineFollows, StatusClears
<1>7. CASE Fetch
  BY <1>7 DEF Fetch
<1>8. CASE Complete
  <2>1. hdr[cur] \in Command
    BY <1>8, CurrentCommand DEF Complete
  <2>2. Address(hdr[cur]) \in Lba /\ hdr[cur].data \in Data \cup {Zero}
    BY <2>1, AddressOnDisk DEF Command
  <2>3. media' \in [Lba -> Data \cup {Zero}] /\ buf' \in Data \cup {Zero}
    BY <1>8, <2>2 DEF Complete, Transfer
  <2> QED
    BY <1>8, <2>3 DEF Complete
<1>9. CASE TaskFileError
  <2>1. hdr[cur].op # "none"
    BY <1>9, CurrentCommand DEF TaskFileError, Command
  <2>2. errors' \in 0 .. MaxErrors
    BY <1>9, <2>1, AhciAssumption DEF TaskFileError
  <2> QED
    BY <1>9, <2>2 DEF TaskFileError
<1>10. CASE Request
  BY <1>10, RequestBegins, BeginType
<1>11. CASE UnsolicitedError
  <2>1. errors' \in 0 .. MaxErrors
    BY <1>11, AhciAssumption DEF UnsolicitedError
  <2> QED
    BY <1>11, <2>1 DEF UnsolicitedError
<1>12. CASE UNCHANGED vars
  BY <1>12 DEF vars
<1> QED
  BY <1>1, <1>2, <1>3, <1>4, <1>5, <1>6, <1>7, <1>8, <1>9, <1>10, <1>11, <1>12
     DEF Next, Driver, Hba
-----------------------------------------------------------------------------
(***************************************************************************)
(* The handshake between driver and adapter                                *)
(***************************************************************************)

\* A request keeps the handshake: it takes slot 0, unless the adapter has stopped.
LEMMA BeginHandshake ==
  ASSUME TypeOK, Handshake, NEW c \in Command, NEW h \in Slot \cup {NoSlot},
         find_cmdslot # NoSlot => h \in Slot, h = 0 \/ h = find_cmdslot, Begin(c, h)
  PROVE  Handshake'
<1> USE DEF TypeOK, hbaVars
<1>1. dpc = "idle" /\ dpc' \in {"idle", "wait"} /\ ~tfes'
  BY DEF Begin
<1>2. UNCHANGED <<hr, st, ci, cr, cur, halted>> /\ slot' = find_cmdslot /\ req' = c
  BY DEF Begin
<1>3. EngineState'
  BY <1>1, <1>2 DEF Handshake, EngineState, Initialising
<1>4. ErrorsHalt'
  BY <1>1 DEF ErrorsHalt
<1>5. OneCommand'
  <2>1. ~halted => ci = {} /\ cur = NoSlot
    BY <1>1 DEF Handshake, OneCommand
  <2>2. cur' # NoSlot => cur' \in ci' /\ ~halted'
    BY <1>2 DEF Handshake, OneCommand
  <2>3. ~halted' /\ dpc' = "wait" => hdr'[slot'] = req'
    <3> SUFFICES ASSUME ~halted, dpc' = "wait" PROVE hdr'[slot'] = c
      BY <1>2
    <3>1. slot' = 0 /\ h = 0
      BY <1>2, <2>1, FirstSlotFound
    <3>2. hdr' = [hdr EXCEPT ![h] = c] /\ h \in Slot
      BY <1>1 DEF Begin
    <3> QED
      BY <3>1, <3>2
  <2>4. dpc' = "wait" => slot' \in Slot
    BY <1>1, <1>2, FoundSlot DEF Begin
  <2> QED
    BY <1>1, <1>2, <2>1, <2>2, <2>3, <2>4 DEF OneCommand
<1> QED
  BY <1>3, <1>4, <1>5 DEF Handshake

\* Every step keeps the handshake.
LEMMA NextHandshake == TypeOK /\ Handshake /\ [Next]_vars => Handshake'
<1> SUFFICES ASSUME TypeOK, Handshake, [Next]_vars PROVE Handshake'
  OBVIOUS
<1> USE DEF TypeOK, hbaVars, driverVars, Handshake, EngineState, ErrorsHalt, OneCommand,
            Initialising
<1>1. CASE ResetController
  BY <1>1 DEF ResetController
<1>2. CASE stop_cmd
  BY <1>2 DEF stop_cmd
<1>3. CASE port_rebase
  BY <1>3 DEF port_rebase
<1>4. CASE start_cmd
  BY <1>4 DEF start_cmd
<1>5. CASE Spin
  BY <1>5 DEF Spin
<1>6. CASE PortIsHung
  BY <1>6 DEF PortIsHung, Return
<1>7. CASE PortIsReady
  BY <1>7 DEF PortIsReady, Return
<1>8. CASE PollSlot
  BY <1>8 DEF PollSlot
<1>9. CASE CheckAgain
  BY <1>9 DEF CheckAgain, Return
<1>10. CASE PollError
  BY <1>10 DEF PollError, Return
<1>11. CASE ResetDone
  BY <1>11 DEF ResetDone
<1>12. CASE EngineFollows
  BY <1>12 DEF EngineFollows
<1>13. CASE Fetch
  BY <1>13 DEF Fetch
<1>14. CASE Complete
  BY <1>14 DEF Complete
<1>15. CASE StatusClears
  BY <1>15 DEF StatusClears
<1>16. CASE TaskFileError
  BY <1>16 DEF TaskFileError
<1>17. CASE Request
  BY <1>17, RequestBegins, BeginHandshake
<1>18. CASE UnsolicitedError
  BY <1>18 DEF UnsolicitedError
<1>19. CASE UNCHANGED vars
  BY <1>19 DEF vars
<1> QED
  BY <1>1, <1>2, <1>3, <1>4, <1>5, <1>6, <1>7, <1>8, <1>9, <1>10, <1>11, <1>12, <1>13,
     <1>14, <1>15, <1>16, <1>17, <1>18, <1>19 DEF Next, Driver, Hba

\* The inductive invariant holds in every behaviour.
LEMMA HandshakeInvariant == Spec => [](TypeOK /\ Handshake)
<1> QED
  BY InitInv, NextType, NextHandshake, PTL DEF Spec

-----------------------------------------------------------------------------
\* The busy loops never count past their limit, every issued command sits in a slot
\* of the command list and every address is on the disk, for every number of slots,
\* spin limit and number of errors.
THEOREM AhciTypeCorrect == Spec => []TypeOK
<1> QED
  BY HandshakeInvariant, PTL

\* The adapter executes the command of the current request and no other, although
\* read fills header 0 and issues the slot it found, for every number of slots and
\* whatever errors came before.
THEOREM ExecutesTheRequestHolds == Spec => []ExecutesTheRequest
<1>1. TypeOK /\ Handshake => ExecutesTheRequest
  BY CurrentCommand DEF ExecutesTheRequest
<1> QED
  BY <1>1, HandshakeInvariant, PTL

-----------------------------------------------------------------------------
(***************************************************************************)
(* Success                                                                 *)
(***************************************************************************)

\* READ DMA reaches every block of the disk with its 24 address bits.
SmallDisk == \A l \in Lba : l < ReadSpan

\* On such a disk the address of a command is the one that was asked for.
LEMMA AddressIsLba ==
  ASSUME SmallDisk, NEW c \in Command
  PROVE  Address(c) = c.lba
<1>1. c.lba \in Lba /\ c.lba \in Nat /\ c.lba < ReadSpan
  BY AhciAssumption DEF SmallDisk, Command
<1>2. c.lba % ReadSpan = c.lba
  BY <1>1, AhciAssumption
<1> QED
  BY <1>2 DEF Address

\* Every step keeps Served.
LEMMA NextServed ==
  ASSUME SmallDisk
  PROVE  TypeOK /\ Handshake /\ Served /\ [Next]_vars => Served'
<1> SUFFICES ASSUME TypeOK, Handshake, Served, [Next]_vars PROVE Served'
  OBVIOUS
<1>1. CASE Complete
  <2>1. /\ cur = slot /\ dpc \in {"poll", "status"} /\ hdr[cur] = req /\ req \in Command
    BY <1>1, CurrentCommand DEF Complete
  <2>2. Transferred'
    <3>1. Address(req) = req.lba /\ req.lba \in Lba /\ req.op \in {"read", "write"}
      BY <2>1, AddressIsLba, AddressOnDisk
    <3>2. /\ media' = IF req.op = "write" THEN [media EXCEPT ![req.lba] = req.data] ELSE media
          /\ buf' = IF req.op = "read" THEN media[req.lba] ELSE buf
          /\ req' = req
      BY <1>1, <2>1, <3>1 DEF Complete, Transfer, driverVars
    <3> QED
      BY <3>1, <3>2 DEF Transferred, TypeOK
  <2> QED
    BY <1>1, <2>1, <2>2 DEF Served, Complete, driverVars, Initialising
<1>2. CASE UNCHANGED <<dpc, req, slot, buf, ret, media, ci>>
  BY <1>2 DEF Served, Transferred, Initialising
<1>3. CASE ResetDone \/ EngineFollows
  <2>1. dpc \notin {"poll", "status"} \/ UNCHANGED ci
    BY <1>3 DEF ResetDone, EngineFollows, Handshake, EngineState, Initialising
  <2>2. UNCHANGED <<dpc, req, slot, buf, ret, media>> /\ ci' \subseteq ci
    BY <1>3 DEF ResetDone, EngineFollows, driverVars
  <2> QED
    BY <2>1, <2>2 DEF Served, Transferred, Initialising
<1>4. CASE ResetController \/ stop_cmd \/ port_rebase
  BY <1>4 DEF ResetController, stop_cmd, port_rebase, Served, Initialising
<1>5. CASE start_cmd
  BY <1>5 DEF start_cmd, Served, Initialising
<1>6. CASE PortIsHung
  BY <1>6 DEF PortIsHung, Return, Served, Initialising
<1>7. CASE PortIsReady
  BY <1>7 DEF PortIsReady, Return, Served, Transferred, hbaVars, Initialising
<1>8. CASE CheckAgain
  <2>1. dpc = "check" /\ req.op \in {"read", "write"}
    BY <1>8 DEF CheckAgain, Handshake, OneCommand, Command
  <2>2. slot \notin ci /\ Transferred
    BY <2>1 DEF Served
  <2>3. Transferred'
    BY <1>8, <2>1, <2>2 DEF CheckAgain, Return, Transferred, hbaVars
  <2> QED
    BY <1>8, <2>1, <2>2, <2>3 DEF CheckAgain, Return, Served, Initialising
<1>9. CASE Request
  <2>1. dpc' = "wait" \/ (dpc' = "idle" /\ ret' = 1)
    BY <1>9 DEF Request, ahci_read, ahci_write, Begin
  <2> QED
    BY <2>1 DEF Served, Initialising
<1>10. CASE \/ Spin \/ Fetch \/ StatusClears \/ TaskFileError \/ UnsolicitedError
            \/ UNCHANGED vars
  BY <1>2, <1>10 DEF Spin, Fetch, StatusClears, TaskFileError, UnsolicitedError, vars, hbaVars,
                     driverVars
<1>11. CASE PollSlot \/ PollError
  <2>1. dpc \in {"poll", "status"} /\ (slot \notin ci => Transferred)
    BY <1>11 DEF PollSlot, PollError, Served
  <2>2. UNCHANGED <<req, slot, buf, media, ci>>
    BY <1>11 DEF PollSlot, PollError, Return, hbaVars
  <2>3. /\ dpc' \in {"poll", "status"} \/ (dpc' = "check" /\ slot \notin ci)
           \/ (dpc' = "idle" /\ ret' = 1)
    BY <1>11 DEF PollSlot, PollError, Return
  <2> QED
    BY <2>1, <2>2, <2>3 DEF Served, Transferred, Initialising
<1> QED
  BY <1>1, <1>11, <1>3, <1>4, <1>5, <1>6, <1>7, <1>8, <1>9, <1>10 DEF Next, Driver, Hba

\* On a disk within reach of READ DMA a request that returns 0 moved its data: the
\* buffer holds the block, or the block holds what was written, for every number of
\* slots and whatever errors and timeouts came before.  (ahci.c:28 issues the 28-bit
\* command, whose span ReadSpan is; beyond it a read returns another block.)
THEOREM SuccessMeansTransferredHolds == SmallDisk => (Spec => []SuccessMeansTransferred)
<1>1. Init => Served
  BY DEF Init, Served, Initialising
<1>2. Served => SuccessMeansTransferred
  BY DEF Served, SuccessMeansTransferred, Transferred
<1> SUFFICES ASSUME SmallDisk PROVE Spec => []SuccessMeansTransferred
  OBVIOUS
<1>3. TypeOK /\ Handshake /\ Served /\ [Next]_vars => Served'
  BY NextServed
<1> QED
  BY <1>1, <1>2, <1>3, HandshakeInvariant, PTL DEF Spec
=============================================================================
