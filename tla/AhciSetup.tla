------------------------------ MODULE AhciSetup ------------------------------
(***************************************************************************)
(* How ester reaches its disk controller: the PCI scan of kernel_entry,    *)
(* then, in ahci_init, the search for the controller in the vector of      *)
(* functions, its command register, and the page that maps its registers.  *)
(* What ahci_init does with the registers afterwards is module Ahci.       *)
(***************************************************************************)
EXTENDS PciScan, PageMap

CONSTANTS
  BarPages,      \* where the firmware may have put the registers of a controller
  GarbagePages   \* what a 32-bit result that nobody set may hold

ASSUME AhciSetupAssumption == BarPages \subseteq Page /\ GarbagePages \subseteq Page

VARIABLES
  phase,       \* "scan", "pmap", "done"
  controller,  \* the functions whose command register was set
  abar         \* ahci_phys_addr, as a page

setupVars == <<phase, controller, abar>>
vars == <<pciVars, pageVars, setupVars>>

Init ==
  /\ PciInit /\ PageInit
  /\ phase = "scan" /\ controller = {} /\ abar = NotMapped

Scan ==
  /\ phase = "scan"
  /\ PciNext
  /\ UNCHANGED <<pageVars, setupVars>>

\* The controllers of the vector, by place.
Controllers == {n \in DOMAIN vector : vector[n] \in conf.ahci}

\* pci_ahci_get_abar: the first controller, and pci_ahci_init on it.
pci_ahci_get_abar ==
  /\ phase = "scan" /\ scan = "done" /\ Controllers # {}
  /\ controller' = controller \cup {vector[Min(Controllers)]}
  /\ abar' \in BarPages
  /\ phase' = "pmap"
  /\ UNCHANGED <<pciVars, pageVars>>

\* The loop ends without a return: the result is whatever was in the register.
NoController ==
  /\ phase = "scan" /\ scan = "done" /\ Controllers = {}
  /\ abar' \in GarbagePages
  /\ phase' = "pmap"
  /\ UNCHANGED <<pciVars, pageVars, controller>>

MapRegisters ==
  /\ phase = "pmap"
  /\ pmap(abar, abar)
  /\ phase' = "done"
  /\ UNCHANGED <<pciVars, controller, abar>>

\* The driver is at work: nothing more happens here.
Done == phase = "done" /\ UNCHANGED vars

Next == Scan \/ pci_ahci_get_abar \/ NoController \/ MapRegisters \/ Done

Spec == Init /\ [][Next]_vars /\ WF_vars(Next)

-----------------------------------------------------------------------------
\* When a controller is within reach and the vector has room for everything, the
\* driver ends up with a page that the processor maps to the registers of a
\* controller that may master the bus, every page of the first gigabyte is where
\* boot.asm put it, and no other page became visible (pci_ahci_get_abar, palloc,
\* pmap).
ControllerIsReady ==
  phase = "done" /\ conf.ahci \cap Reached # {} /\ Len(vector) < MaxDevices =>
    /\ ~stray
    /\ Cardinality(controller) = 1 /\ controller \subseteq conf.ahci
    /\ \A v \in Page : Translate(mem, v) = IF v = abar THEN abar
                                            ELSE Translate(BootTables, v)

\* The scan and the search end on every configuration space: the kernel reaches its
\* driver (pci_bus_scan and pci_function_scan call each other).
SetupCompletes == <>(phase = "done")
=============================================================================
