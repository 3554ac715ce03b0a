------------------------------- MODULE PciScan -------------------------------
(***************************************************************************)
(* PCI enumeration in ester (pci/pci.c): the recursive scan from the host  *)
(* bridge, and the vector of the functions it found.                       *)
(*                                                                         *)
(* The configuration space is external: which functions answer, and what   *)
(* they are.  As pci.c assumes, the firmware has numbered the buses: a     *)
(* bridge leads to a bus with a higher number, and no two lead to the same.*)
(***************************************************************************)
EXTENDS Integers, Sequences, FiniteSets, SequencesExt

CONSTANTS
  MaxBus,       \* buses are 0 .. MaxBus, 255 in the code
  MaxDevice,    \* devices of a bus are 0 .. MaxDevice, 31 in the code
  MaxFunction,  \* functions of a device are 0 .. MaxFunction, 7 in the code
  MaxDevices,   \* PCI_MAX_DEVICES, 128 in the code
  Topologies    \* configuration spaces

Bus == 0 .. MaxBus
Function == Bus \X (0 .. MaxDevice) \X (0 .. MaxFunction)   \* bus, device, function

\* A configuration space: the functions present, the devices whose header says they
\* have several functions, the bus behind a bridge, and the AHCI controllers.
IsTopology(t) ==
  /\ t.present \subseteq Function
  /\ t.multi \subseteq Bus \X (0 .. MaxDevice)
  /\ DOMAIN t.secondary \subseteq t.present
  /\ \A b \in DOMAIN t.secondary : t.secondary[b] \in Bus /\ t.secondary[b] > b[1]
  /\ \A b, c \in DOMAIN t.secondary : b # c => t.secondary[b] # t.secondary[c]
  /\ t.ahci \subseteq t.present \ DOMAIN t.secondary

ASSUME PciAssumption ==
  /\ MaxBus \in Nat /\ MaxDevice \in Nat /\ MaxFunction \in Nat
  /\ MaxDevices \in Nat \ {0}
  /\ \A t \in Topologies : IsTopology(t)

VARIABLES
  conf,     \* the configuration space
  scan,     \* "off", "hosts" while pci_recursive_scan runs, "done"
  host,     \* pci_recursive_scan: the function of the root to treat as a bus next
  calls,    \* pci_bus_scan calls, innermost last: [bus, dev, fun, below]
  vector    \* pci_vector_devices

pciVars == <<conf, scan, host, calls, vector>>

PciInit ==
  /\ conf \in Topologies
  /\ scan = "off" /\ host = 0 /\ calls = <<>> /\ vector = <<>>

-----------------------------------------------------------------------------
Present(b, d, f) == <<b, d, f>> \in conf.present     \* pci_get_vendor_id
Multi(b, d) == <<b, d>> \in conf.multi               \* pci_get_header_type
IsBridge(x) == x \in DOMAIN conf.secondary           \* class 6, sub-class 4

SecondaryBus(x) == conf.secondary[x]                 \* pci_get_secondary_bus

AddIfRoom(x) ==                                      \* pci_vector_dev_add
  vector' = IF Len(vector) >= MaxDevices THEN vector ELSE Append(vector, x)

Enter(b) == [bus |-> b, dev |-> 0, fun |-> 0, below |-> FALSE]

\* pci_recursive_scan.  An absent root reads as a header with several functions.
pci_recursive_scan ==
  /\ scan = "off"
  /\ scan' = "hosts" /\ vector' = <<>> /\ host' = 0
  /\ UNCHANGED <<conf, calls>>

HostHere == Present(0, 0, host) /\ (host = 0 \/ Multi(0, 0))

ScanHost ==
  /\ scan = "hosts" /\ calls = <<>>
  /\ host <= MaxFunction /\ HostHere
  /\ calls' = <<Enter(host)>> /\ host' = host + 1
  /\ UNCHANGED <<conf, scan, vector>>

NoMoreHosts ==
  /\ scan = "hosts" /\ calls = <<>>
  /\ host > MaxFunction \/ ~HostHere
  /\ scan' = "done"
  /\ UNCHANGED <<conf, host, calls, vector>>

-----------------------------------------------------------------------------
(***************************************************************************)
(* pci_bus_scan, pci_device_scan and pci_function_scan: one step for each  *)
(* function looked at, one for each bridge gone down.                      *)
(***************************************************************************)
Top == calls[Len(calls)]
Here == <<Top.bus, Top.dev, Top.fun>>
InBus == calls # <<>> /\ Top.dev <= MaxDevice

NextDevice == [Top EXCEPT !.dev = @ + 1, !.fun = 0, !.below = FALSE]
NextFunction == IF Top.fun < MaxFunction
                THEN [Top EXCEPT !.fun = @ + 1, !.below = FALSE]
                ELSE NextDevice

MoveTo(f) == [calls EXCEPT ![Len(calls)] = f]

SkipDeviceAgain ==                                   \* mutant: the loop does not advance
  /\ InBus /\ ~Present(Top.bus, Top.dev, Top.fun) /\ Top.fun = 0
  /\ UNCHANGED pciVars

\* No function 0: no device.
SkipDevice ==
  /\ InBus /\ ~Present(Top.bus, Top.dev, Top.fun) /\ Top.fun = 0
  /\ calls' = MoveTo(NextDevice)
  /\ UNCHANGED <<conf, scan, host, vector>>

GapEndsDevice ==                                     \* mutant: break instead of continue
  /\ InBus /\ ~Present(Top.bus, Top.dev, Top.fun) /\ Top.fun > 0
  /\ calls' = MoveTo(NextDevice)
  /\ UNCHANGED <<conf, scan, host, vector>>

SkipFunction ==
  /\ InBus /\ ~Present(Top.bus, Top.dev, Top.fun) /\ Top.fun > 0
  /\ calls' = MoveTo(NextFunction)
  /\ UNCHANGED <<conf, scan, host, vector>>

\* A bridge: first the bus behind it.
GoDown ==
  /\ InBus /\ Here \in conf.present /\ IsBridge(Here) /\ ~Top.below
  /\ calls' = Append(MoveTo([Top EXCEPT !.below = TRUE]), Enter(SecondaryBus(Here)))
  /\ UNCHANGED <<conf, scan, host, vector>>

AddFunction ==
  /\ InBus /\ Here \in conf.present /\ (IsBridge(Here) => Top.below)
  /\ AddIfRoom(Here)
  /\ calls' = MoveTo(IF Multi(Top.bus, Top.dev) THEN NextFunction ELSE NextDevice)
  /\ UNCHANGED <<conf, scan, host>>

ReturnFromBus ==
  /\ calls # <<>> /\ Top.dev > MaxDevice
  /\ calls' = Front(calls)
  /\ UNCHANGED <<conf, scan, host, vector>>

PciNext ==
  \/ pci_recursive_scan \/ ScanHost \/ NoMoreHosts
  \/ SkipDevice \/ SkipFunction \/ GoDown \/ AddFunction \/ ReturnFromBus

-----------------------------------------------------------------------------
(***************************************************************************)
(* Reference: the functions that can be reached from the root.             *)
(***************************************************************************)
Visible(x) == /\ x \in conf.present /\ Present(x[1], x[2], 0)
              /\ x[3] = 0 \/ Multi(x[1], x[2])

HostBuses == {b \in Bus : b <= MaxFunction /\ \A f \in 0 .. b :
                            Present(0, 0, f) /\ (f = 0 \/ Multi(0, 0))}

\* With the host buses, and with a bus the ones behind its bridges.
IsClosed(S) ==
  /\ HostBuses \subseteq S
  /\ \A x \in DOMAIN conf.secondary : Visible(x) /\ x[1] \in S => conf.secondary[x] \in S

\* The buses that every such set has.
ReachedBuses == LET closed == {S \in SUBSET Bus : IsClosed(S)}
                IN  {b \in Bus : \A S \in closed : b \in S}

Reached == LET buses == ReachedBuses IN {x \in conf.present : Visible(x) /\ x[1] \in buses}

\* The scan finds every function that host bridges and bridges lead to, and no
\* other; once the vector is full, nothing is stored behind its end.  With one host
\* bridge no function is listed twice; with several, a bus that is both the number
\* of a host function and behind a bridge is scanned twice (pci_recursive_scan
\* treats function i of the root as bus i; pci_bus_scan, pci_device_scan,
\* pci_function_scan, pci_vector_dev_add).
FindsEveryFunction ==
  /\ ToSet(vector) \subseteq Reached /\ Len(vector) <= MaxDevices
  /\ scan = "done" /\ Len(vector) < MaxDevices => ToSet(vector) = Reached
  /\ ~Multi(0, 0) => IsInjective(vector)
=============================================================================
