-------------------------------- MODULE Ahci ---------------------------------
(***************************************************************************)
(* The AHCI driver of ester against the host bus adapter: controller       *)
(* reset, port rebase, and the polled read and write of one logical block  *)
(* (drivers/ahci/ahci.c, drivers/block/block_device.c).                    *)
(*                                                                         *)
(* The driver and the adapter are two processes that share the registers   *)
(* of port 0 and the command list in memory.  The adapter is external: it  *)
(* does what the driver relies on, and stops at a task file error until    *)
(* the command engine is restarted, as AHCI defines it.                    *)
(***************************************************************************)
EXTENDS Integers, FiniteSets, FiniteSetsExt

CONSTANTS
  NumSlots,    \* command slots, 32 in the code
  Lba,         \* addresses of logical blocks
  ReadSpan,    \* addresses that fit the 24 address bits READ DMA looks at
  Data,        \* contents of a block
  SpinLimit,   \* bound of the busy loops, 1000000 in the code
  MaxErrors    \* bound: errors the drive reports in a behaviour

ASSUME AhciAssumption ==
  /\ NumSlots \in Nat \ {0}
  /\ Lba \subseteq Nat
  /\ ReadSpan \in Nat \ {0}
  /\ \A l \in Lba : l % ReadSpan \in Lba    \* the addresses of a disk have no gaps
  /\ SpinLimit \in Nat
  /\ MaxErrors \in Nat

Slot == 0 .. NumSlots - 1
NoSlot == -1
Zero == "zero"                             \* an erased block, an unused buffer
Idle == [op |-> "none", lba |-> 0, data |-> Zero]
Command == [op : {"read", "write"}, lba : Lba, data : Data \cup {Zero}]

VARIABLES
  dpc,     \* the driver: where it is
  req,     \* the driver: the request of the block device
  slot,    \* the driver: the slot it found
  spin,    \* the driver: Spin lock timeout counter
  buf,     \* memory: the buffer the request reads into
  ret,     \* what the last request returned: 0, 1, or -1 before any
  hdr,     \* memory: hdr[s], command header and table of slot s
  hr,      \* register ghc, bit HR: reset in progress
  st,      \* register cmd, bits ST and FRE
  cr,      \* register cmd, bits CR and FR
  ci,      \* register ci: slots with a command issued
  tfes,    \* register is, bit TFES
  bsy,     \* register tfd, bits BSY and DRQ
  cur,     \* the adapter: the slot it executes
  halted,  \* the adapter: stopped at an error
  media,   \* the disk
  errors   \* errors the drive has reported so far

driverVars == <<dpc, req, slot, spin, ret>>
hbaVars    == <<cr, cur, halted, media, errors>>
vars == <<dpc, req, slot, spin, buf, ret, hdr, hr, st, cr, ci, tfes, bsy, cur, halted,
          media, errors>>

\* The firmware may have left the command engine running.
Init ==
  /\ dpc = "off" /\ req = Idle /\ slot = 0 /\ spin = 0 /\ buf = Zero /\ ret = -1
  /\ hdr = [s \in Slot |-> Idle]
  /\ st \in BOOLEAN /\ cr = st
  /\ hr = FALSE /\ ci = {} /\ tfes \in BOOLEAN /\ bsy = FALSE
  /\ cur = NoSlot /\ halted = FALSE
  /\ media = [l \in Lba |-> Zero]
  /\ errors = 0

-----------------------------------------------------------------------------
(***************************************************************************)
(* ahci_init: reset the controller, wait; stop the engine of port 0, wait; *)
(* clear the command list; start the engine.                               *)
(***************************************************************************)
ResetController ==
  /\ dpc = "off"
  /\ hr' = TRUE /\ dpc' = "reset"
  /\ UNCHANGED <<req, slot, spin, buf, ret, hdr, st, ci, tfes, bsy, hbaVars>>

stop_cmd ==
  /\ dpc = "reset" /\ ~hr
  /\ st' = FALSE /\ dpc' = "stop"
  /\ UNCHANGED <<req, slot, spin, buf, ret, hdr, hr, ci, tfes, bsy, hbaVars>>

port_rebase ==
  /\ dpc = "stop" /\ ~cr
  /\ hdr' = [s \in Slot |-> Idle]
  /\ dpc' = "start"
  /\ UNCHANGED <<req, slot, spin, buf, ret, hr, st, ci, tfes, bsy, hbaVars>>

start_cmd_without_st ==                        \* mutant: ST not set
  /\ dpc = "start" /\ ~cr
  /\ dpc' = "idle"
  /\ UNCHANGED <<req, slot, spin, buf, ret, hdr, hr, st, ci, tfes, bsy, hbaVars>>

start_cmd ==
  /\ dpc = "start" /\ ~cr
  /\ st' = TRUE /\ dpc' = "idle"
  /\ UNCHANGED <<req, slot, spin, buf, ret, hdr, hr, ci, tfes, bsy, hbaVars>>

-----------------------------------------------------------------------------
(***************************************************************************)
(* read and write, up to the wait for the port.  read always fills the     *)
(* header of slot 0, write the header of the slot it found.                *)
(***************************************************************************)
FreeSlots == Slot \ ci
find_cmdslot == IF FreeSlots = {} THEN NoSlot ELSE Min(FreeSlots)

ReadHeaderNext == NumSlots - 1                 \* mutant: header of another slot
ReadHeader  == 0
WriteHeader == find_cmdslot

Begin(c, header) ==
  /\ dpc = "idle"
  /\ tfes' = FALSE
  /\ req' = c /\ spin' = 0 /\ slot' = find_cmdslot
  /\ IF find_cmdslot = NoSlot
     THEN ret' = 1 /\ UNCHANGED <<dpc, hdr>>
     ELSE /\ hdr' = [hdr EXCEPT ![header] = c]
          /\ dpc' = "wait"
          /\ UNCHANGED ret
  /\ buf' = Zero
  /\ UNCHANGED <<hr, st, ci, bsy, hbaVars>>

ahci_read(l) == Begin([op |-> "read", lba |-> l, data |-> Zero], ReadHeader)
ahci_write(l, d) == Begin([op |-> "write", lba |-> l, data |-> d], WriteHeader)

Return(r) == ret' = r /\ dpc' = "idle" /\ UNCHANGED <<req, slot, spin>>

\* The busy loop in front of the command, and behind a read: leave it when
\* the port is ready, unless the counter has reached its limit.
Spin ==
  /\ dpc \in {"wait", "settle"} /\ bsy /\ spin < SpinLimit
  /\ spin' = spin + 1
  /\ UNCHANGED <<dpc, req, slot, buf, ret, hdr, hr, st, ci, tfes, bsy, hbaVars>>

PortIsHung ==
  /\ dpc \in {"wait", "settle"} /\ spin = SpinLimit
  /\ Return(1)
  /\ UNCHANGED <<buf, hdr, hr, st, ci, tfes, bsy, hbaVars>>

PortIsReady ==
  /\ dpc \in {"wait", "settle"} /\ ~bsy /\ spin < SpinLimit
  /\ IF dpc = "wait"
     THEN dpc' = "poll" /\ ci' = ci \cup {slot} /\ UNCHANGED <<req, slot, spin, ret>>
     ELSE Return(0) /\ UNCHANGED ci
  /\ UNCHANGED <<buf, hdr, hr, st, tfes, bsy, hbaVars>>

\* Wait for completion, a loop without a counter.  It reads ci to see whether the slot
\* is still issued, and then is, in a read of its own, to see whether an error shows.
PollSlot ==
  /\ dpc = "poll"
  /\ dpc' = IF slot \in ci THEN "status" ELSE "check"
  /\ UNCHANGED <<req, slot, spin, buf, ret, hdr, hr, st, ci, tfes, bsy, hbaVars>>

PollErrorIgnored ==                            \* mutant: error taken for success
  /\ dpc = "status"
  /\ IF tfes THEN Return(0) ELSE dpc' = "poll" /\ UNCHANGED <<req, slot, spin, ret>>
  /\ UNCHANGED <<buf, hdr, hr, st, ci, tfes, bsy, hbaVars>>

PollError ==
  /\ dpc = "status"
  /\ IF tfes THEN Return(1) ELSE dpc' = "poll" /\ UNCHANGED <<req, slot, spin, ret>>
  /\ UNCHANGED <<buf, hdr, hr, st, ci, tfes, bsy, hbaVars>>

\* "Check again", behind the loop.
CheckAgain ==
  /\ dpc = "check"
  /\ IF tfes THEN Return(1)
     ELSE IF req.op = "write" THEN Return(0)
     ELSE dpc' = "settle" /\ UNCHANGED <<req, slot, spin, ret>>
  /\ UNCHANGED <<buf, hdr, hr, st, ci, tfes, bsy, hbaVars>>

Driver ==
  \/ ResetController \/ stop_cmd \/ port_rebase \/ start_cmd
  \/ Spin \/ PortIsHung \/ PortIsReady \/ PollSlot \/ PollError \/ CheckAgain

-----------------------------------------------------------------------------
(***************************************************************************)
(* The adapter (external).                                                 *)
(***************************************************************************)
ResetDone ==
  /\ hr
  /\ hr' = FALSE /\ st' = FALSE /\ cr' = FALSE /\ ci' = {} /\ tfes' = FALSE
  /\ bsy' = FALSE /\ cur' = NoSlot /\ halted' = FALSE
  /\ UNCHANGED <<driverVars, buf, hdr, media, errors>>

EngineFollows ==
  /\ ~hr /\ cr # st
  /\ cr' = st
  /\ ci' = IF st THEN ci ELSE {}
  /\ halted' = FALSE
  /\ UNCHANGED <<driverVars, buf, hdr, hr, st, tfes, bsy, cur, media, errors>>

Fetch ==
  /\ ~hr /\ cr /\ ~halted /\ cur = NoSlot
  /\ \E s \in ci : cur' = s
  /\ bsy' = TRUE
  /\ UNCHANGED <<driverVars, buf, hdr, hr, st, cr, ci, tfes, halted, media, errors>>

\* READ DMA (0xC8) looks at lba0 .. lba2 only, WRITE DMA EXT at all six bytes.
Address(c) == IF c.op = "read" THEN c.lba % ReadSpan ELSE c.lba

Transfer(c) ==
  /\ media' = IF c.op = "write" THEN [media EXCEPT ![Address(c)] = c.data] ELSE media
  /\ buf' = IF c.op = "read" THEN media[Address(c)] ELSE buf

\* The command is done; the status of the port may lag behind.
Complete ==
  /\ cur # NoSlot /\ hdr[cur].op # "none"
  /\ Transfer(hdr[cur])
  /\ ci' = ci \ {cur} /\ cur' = NoSlot /\ bsy' \in BOOLEAN
  /\ UNCHANGED <<driverVars, hdr, hr, st, cr, tfes, halted, errors>>

StatusClears ==
  /\ cur = NoSlot /\ bsy
  /\ bsy' = FALSE
  /\ UNCHANGED <<driverVars, buf, hdr, hr, st, cr, ci, tfes, cur, halted, media, errors>>

\* A task file error: the command stays issued and the adapter stops.
TaskFileError ==
  /\ cur # NoSlot
  /\ errors < MaxErrors \/ hdr[cur].op = "none"
  /\ errors' = errors + 1
  /\ tfes' = TRUE /\ halted' = TRUE /\ cur' = NoSlot /\ bsy' = FALSE
  /\ UNCHANGED <<driverVars, buf, hdr, hr, st, cr, ci, media>>

\* The drive reports an error that belongs to no command; the adapter stops.
UnsolicitedError ==
  /\ ~hr /\ cr /\ ~halted /\ cur = NoSlot
  /\ errors < MaxErrors
  /\ errors' = errors + 1
  /\ tfes' = TRUE /\ halted' = TRUE /\ bsy' = FALSE
  /\ UNCHANGED <<driverVars, buf, hdr, hr, st, cr, ci, cur, media>>

Hba == ResetDone \/ EngineFollows \/ Fetch \/ Complete \/ StatusClears \/ TaskFileError

-----------------------------------------------------------------------------
\* The block device asks for one block at a time.
Request ==
  \/ \E l \in Lba : ahci_read(l)
  \/ \E l \in Lba, d \in Data : ahci_write(l, d)

Next == Driver \/ Hba \/ UnsolicitedError \/ Request

\* The processor keeps running and the adapter keeps working; nobody has to
\* make a request, and the drive need not report an error out of the blue.
Spec == Init /\ [][Next]_vars /\ WF_vars(Driver) /\ WF_vars(Hba)

-----------------------------------------------------------------------------
(***************************************************************************)
(* Properties                                                              *)
(***************************************************************************)

\* Type invariant: the busy loops of read and write never count past their
\* limit, and every issued command sits in a slot of the command list.
TypeOK ==
  /\ dpc \in {"off", "reset", "stop", "start", "idle", "wait", "poll", "status", "check",
             "settle"}
  /\ req \in Command \cup {Idle}
  /\ slot \in Slot \cup {NoSlot}
  /\ spin \in 0 .. SpinLimit
  /\ buf \in Data \cup {Zero}
  /\ ret \in {-1, 0, 1}
  /\ hdr \in [Slot -> Command \cup {Idle}]
  /\ {hr, st, cr, tfes, bsy, halted} \subseteq BOOLEAN
  /\ ci \subseteq Slot
  /\ cur \in Slot \cup {NoSlot}
  /\ media \in [Lba -> Data \cup {Zero}]
  /\ errors \in 0 .. MaxErrors

\* A request that returned 0 did what it says: the buffer holds the block of
\* that address, or the block holds what was written.
SuccessMeansTransferred ==
  dpc = "idle" /\ ret = 0 =>
    IF req.op = "read" THEN buf = media[req.lba] ELSE media[req.lba] = req.data

\* While the adapter runs, the header of the issued slot is the header of the
\* request, although read fills header 0 whatever slot it found.
ExecutesTheRequest ==
  cur # NoSlot => hdr[cur] = req /\ cur = slot

\* ahci_init returns, and every request that starts before the first error of the
\* drive does too, the one that meets the error included: the adapter answers
\* or shows TFES, and the driver sees it in the one read or in the other.
RequestsReturn == errors = 0 /\ dpc # "idle" ~> dpc = "idle"

\* What the "Spin lock timeout counter" of read and write suggests: every request
\* returns.
EveryRequestReturns == dpc # "idle" ~> dpc = "idle"
=============================================================================
