------------------------------ MODULE PciProofs ------------------------------
(***************************************************************************)
(* Proofs about modules PciScan and AhciSetup, for every configuration     *)
(* space whose buses the firmware numbered and every number of buses,      *)
(* devices and functions: how deep the scan recurses, and what the vector  *)
(* of functions and the choice of a controller may hold.                   *)
(***************************************************************************)
EXTENDS AhciSetup, NumberFacts, SequenceTheorems

Call == [bus : Nat, dev : Nat, fun : 0 .. MaxFunction, below : BOOLEAN]

\* The calls of pci_bus_scan climb: each is for a bus above the one it came from.
\* The bus of the first is the number of a host function, the others were read from
\* a bridge.
Climbing ==
  /\ calls \in Seq(Call)
  /\ \A n \in 1 .. Len(calls) : calls[n].bus >= n - 1
  /\ \A n \in 2 .. Len(calls) : calls[n].bus <= MaxBus
  /\ \A m, n \in 1 .. Len(calls) : m < n => calls[m].bus < calls[n].bus

\* Only functions that are there are listed, within the array.
Listed ==
  /\ vector \in Seq(conf.present)
  /\ Len(vector) <= MaxDevices

\* No controller is chosen before the scan is over, and one of the vector then.
Chosen ==
  /\ phase = "scan" => controller = {}
  /\ controller \subseteq conf.ahci
  /\ \A c, d \in controller : c = d

Inv == conf \in Topologies /\ host \in Nat /\ Climbing /\ Listed /\ Chosen

-----------------------------------------------------------------------------
(***************************************************************************)
(* Facts about the calls                                                   *)
(***************************************************************************)

\* The innermost call.
LEMMA TopIsCall ==
  ASSUME Climbing, calls # <<>>
  PROVE  /\ Len(calls) \in Nat /\ Len(calls) > 0 /\ calls \in Seq(Call)
         /\ Top \in Call
         /\ \A n \in 1 .. Len(calls) : calls[n] \in Call /\ calls[n].bus \in Nat
<1>1. Len(calls) \in Nat /\ Len(calls) > 0 /\ calls \in Seq(Call)
  BY DEF Climbing
<1>2. \A n \in 1 .. Len(calls) : calls[n] \in Call
  BY <1>1
<1>3. \A n \in 1 .. Len(calls) : calls[n].bus \in Nat
  BY <1>2 DEF Call
<1> QED
  BY <1>1, <1>2, <1>3 DEF Top

\* The loops change the innermost call and leave its bus as it is.
LEMMA MoveKeepsClimbing ==
  ASSUME Climbing, calls # <<>>, NEW f \in Call, f.bus = Top.bus
  PROVE  /\ MoveTo(f) \in Seq(Call) /\ Len(MoveTo(f)) = Len(calls)
         /\ \A n \in 1 .. Len(calls) : MoveTo(f)[n].bus = calls[n].bus
<1>1. Len(calls) \in Nat /\ Len(calls) > 0 /\ calls \in Seq(Call)
  BY TopIsCall
<1>2. MoveTo(f) = [calls EXCEPT ![Len(calls)] = f]
  BY DEF MoveTo
<1>3. MoveTo(f) \in Seq(Call) /\ Len(MoveTo(f)) = Len(calls)
  BY <1>1, <1>2
<1>4. \A n \in 1 .. Len(calls) : MoveTo(f)[n].bus = calls[n].bus
  BY <1>1, <1>2 DEF Top
<1> QED
  BY <1>3, <1>4

\* The next function or device belongs to the same bus.
LEMMA NextIsCall ==
  ASSUME Climbing, calls # <<>>
  PROVE  \A f \in {NextDevice, NextFunction, [Top EXCEPT !.below = TRUE]} :
           f \in Call /\ f.bus = Top.bus
<1>1. Top \in Call /\ MaxFunction \in Nat
  BY TopIsCall, PciAssumption
<1>2. NextDevice \in Call /\ NextDevice.bus = Top.bus
  <2>1. 0 \in 0 .. MaxFunction /\ Top.dev + 1 \in Nat
    BY <1>1 DEF Call
  <2> DEFINE d == Top.dev + 1
  <2>2. NextDevice = [Top EXCEPT !.dev = d, !.fun = 0, !.below = FALSE]
    BY DEF NextDevice
  <2>3. d \in Nat
    BY <2>1
  <2> HIDE DEF d
  <2> QED
    BY <1>1, <2>1, <2>2, <2>3, Zenon DEF Call
<1>3. [Top EXCEPT !.below = TRUE] \in Call /\ [Top EXCEPT !.below = TRUE].bus = Top.bus
  BY <1>1 DEF Call
<1>4. NextFunction \in Call /\ NextFunction.bus = Top.bus
  <2>1. CASE Top.fun < MaxFunction
    <3>1. NextFunction = [bus |-> Top.bus, dev |-> Top.dev, fun |-> Top.fun + 1,
                          below |-> FALSE]
      BY <1>1, <2>1 DEF NextFunction, Call
    <3>2. Top.fun + 1 \in 0 .. MaxFunction
      BY <1>1, <2>1 DEF Call
    <3> QED
      BY <1>1, <3>1, <3>2 DEF Call
  <2> QED
    BY <1>2, <2>1 DEF NextFunction
<1> QED
  BY <1>2, <1>3, <1>4

\* A call whose bus is that of the old innermost call keeps Climbing.
LEMMA StepsAlong ==
  ASSUME Climbing, calls # <<>>, NEW f \in {NextDevice, NextFunction}, calls' = MoveTo(f)
  PROVE  Climbing'
<1>1. /\ calls' \in Seq(Call) /\ Len(calls') = Len(calls)
      /\ \A n \in 1 .. Len(calls) : calls'[n].bus = calls[n].bus
  BY NextIsCall, MoveKeepsClimbing
<1>2. Len(calls) \in Nat /\ \A n \in 1 .. Len(calls) : calls[n].bus \in Nat
  BY TopIsCall
<1>3. \A n \in 1 .. Len(calls) : calls'[n].bus >= n - 1
  BY <1>1, <1>2 DEF Climbing
<1>4. \A n \in 2 .. Len(calls) : calls'[n].bus <= MaxBus
  BY <1>1, <1>2 DEF Climbing
<1>5. \A m, n \in 1 .. Len(calls) : m < n => calls'[m].bus < calls'[n].bus
  BY <1>1, <1>2 DEF Climbing
<1> QED
  BY <1>1, <1>3, <1>4, <1>5 DEF Climbing

\* A bridge leads to a bus above its own.
LEMMA DownClimbs ==
  ASSUME Inv, GoDown
  PROVE  Climbing'
<1> DEFINE t == [Top EXCEPT !.below = TRUE]
           s == MoveTo(t)
           e == Enter(SecondaryBus(Here))
           k == Len(calls)
<1>1. Climbing /\ calls # <<>>
  BY DEF Inv, GoDown, InBus
<1>2. k \in Nat /\ k > 0 /\ calls \in Seq(Call) /\ Top \in Call
  BY <1>1, TopIsCall
<1>3. s \in Seq(Call) /\ Len(s) = k /\ \A n \in 1 .. k : s[n].bus = calls[n].bus
  BY <1>1, NextIsCall, MoveKeepsClimbing
<1>4. SecondaryBus(Here) \in Nat /\ SecondaryBus(Here) <= MaxBus /\ SecondaryBus(Here) > Top.bus
  <2>1. IsTopology(conf) /\ Here \in DOMAIN conf.secondary /\ MaxBus \in Nat
    BY PciAssumption DEF Inv, GoDown, IsBridge
  <2>2. conf.secondary[Here] \in Bus /\ conf.secondary[Here] > Here[1]
    BY <2>1 DEF IsTopology
  <2> QED
    BY <2>1, <2>2 DEF SecondaryBus, Here, Bus
<1>5. e \in Call /\ e.bus = SecondaryBus(Here)
  BY <1>4, PciAssumption DEF Enter, Call
<1>6. calls' = Append(s, e)
  BY DEF GoDown
<1> HIDE DEF t, s, e
<1>7. /\ calls' \in Seq(Call) /\ Len(calls') = k + 1
      /\ \A n \in 1 .. k : calls'[n].bus = calls[n].bus
      /\ calls'[k + 1].bus = SecondaryBus(Here)
  BY <1>2, <1>3, <1>5, <1>6
<1>8. Top.bus = calls[k].bus /\ calls[k].bus >= k - 1 /\ calls[k].bus \in Nat
  BY <1>1, <1>2 DEF Top, Climbing, Call
<1>9. \A n \in 1 .. k : calls[n].bus \in Nat /\ calls[n].bus < SecondaryBus(Here)
  <2> TAKE n \in 1 .. k
  <2>1. calls[n].bus \in Nat
    BY <1>1, TopIsCall
  <2>2. n = k \/ calls[n].bus < calls[k].bus
    BY <1>1, <1>2 DEF Climbing
  <2> QED
    BY <1>4, <1>8, <2>1, <2>2
<1>10. \A n \in 1 .. Len(calls') : calls'[n].bus >= n - 1
  BY <1>1, <1>2, <1>4, <1>7, <1>8 DEF Climbing
<1>11. \A n \in 2 .. Len(calls') : calls'[n].bus <= MaxBus
  BY <1>1, <1>2, <1>4, <1>7 DEF Climbing
<1>12. \A m, n \in 1 .. Len(calls') : m < n => calls'[m].bus < calls'[n].bus
  BY <1>1, <1>2, <1>7, <1>9 DEF Climbing
<1> QED
  BY <1>7, <1>10, <1>11, <1>12 DEF Climbing

\* Returning from a bus leaves the calls below as they are.
LEMMA ReturnClimbs ==
  ASSUME Climbing, calls # <<>>, calls' = Front(calls)
  PROVE  Climbing'
<1> DEFINE k == Len(calls) - 1
<1>1. /\ calls \in Seq(Call) /\ k \in Nat /\ Len(calls) = k + 1
      /\ \A n \in 1 .. k + 1 : calls[n] \in Call
  BY TopIsCall
<1>2. calls' = SubSeq(calls, 1, k)
  BY DEF Front
<1> HIDE DEF k
<1>3. calls' \in Seq(Call) /\ \A n \in 1 .. k : calls'[n] = calls[n]
  BY <1>1, <1>2
<1>4. Len(calls') = k
  <2>1. Len(SubSeq(calls, 1, k)) = IF 1 <= k THEN k - 1 + 1 ELSE 0
    BY <1>1, SubSeqProperties
  <2> QED
    BY <1>1, <1>2, <2>1
<1> QED
  BY <1>1, <1>3, <1>4 DEF Climbing

-----------------------------------------------------------------------------
(***************************************************************************)
(* What the scan has found                                                 *)
(***************************************************************************)

\* The place a call looks at, and what it has left behind on its bus.
At(c) == <<c.bus, c.dev, c.fun>>
Passed(x, c) == x[1] = c.bus /\ (x[2] < c.dev \/ (x[2] = c.dev /\ x[3] < c.fun))

Listing == ToSet(vector)
Covered(b) == \A x \in conf.present : x[1] = b /\ Visible(x) => x \in Listing

\* The steps of pci_recursive_scan.
Hosts ==
  /\ scan \in {"off", "hosts", "done"}
  /\ calls # <<>> => scan = "hosts" /\ host > 0
  /\ scan = "hosts" => \A h \in 0 .. host - 1 :
                         h <= MaxFunction /\ Present(0, 0, h) /\ (h = 0 \/ Multi(0, 0))

\* A call is for a bus that can be reached, and looks behind function 0 of a device with
\* several functions only; it waits for the bus behind a bridge that is there.
OnReached(c) ==
  /\ c.bus \in Bus => c.bus \in ReachedBuses
  /\ c.fun > 0 => Present(c.bus, c.dev, 0) /\ Multi(c.bus, c.dev)
  /\ c.below => At(c) \in conf.present /\ IsBridge(At(c))

Sound ==
  /\ \A n \in 1 .. Len(calls) : OnReached(calls[n])
  /\ Listing \subseteq Reached

\* Every call but the innermost waits for the next one.
Chain ==
  \A n \in 1 .. Len(calls) - 1 :
    calls[n].below /\ calls[n + 1].bus = conf.secondary[At(calls[n])]

\* While the vector has room: what the calls have passed is in it, and so is what lies
\* behind the bridges in it; the buses of the host functions are finished in order.
Complete ==
  /\ \A n \in 1 .. Len(calls), x \in conf.present :
       Passed(x, calls[n]) /\ Visible(x) => x \in Listing
  /\ calls # <<>> /\ Top.below => Covered(conf.secondary[Here])
  /\ \A x \in Listing : IsBridge(x) => Covered(conf.secondary[x])
  /\ scan = "hosts" => \A h \in 0 .. host - 1 :
                         Covered(h) \/ (calls # <<>> /\ calls[1].bus = h)
  /\ scan = "done" => \A h \in HostBuses : Covered(h)

\* With one host bridge: what is in the vector has been passed, and its bus is bus 0 or
\* was reached over a bridge that is in the vector or waits.
Waits(y) == \E n \in 1 .. Len(calls) : calls[n].below /\ At(calls[n]) = y

Once ==
  /\ scan = "hosts" /\ host = 0 => vector = <<>>
  /\ calls # <<>> => calls[1].bus = 0
  /\ \A n \in 1 .. Len(calls), x \in Listing : x[1] = calls[n].bus => Passed(x, calls[n])
  /\ \A x \in Listing :
       \/ x[1] = 0
       \/ \E y \in DOMAIN conf.secondary :
            conf.secondary[y] = x[1] /\ (y \in Listing \/ Waits(y))

Room == Len(vector) < MaxDevices
ScanFinds ==
  /\ Hosts /\ Sound /\ Chain
  /\ Room => Complete
  /\ ~Multi(0, 0) => IsInjective(vector) /\ (Room => Once)

-----------------------------------------------------------------------------
(***************************************************************************)
(* The invariant                                                           *)
(***************************************************************************)

\* It holds before the scan.
LEMMA InitInv == Init => Inv
<1> SUFFICES ASSUME Init PROVE Inv
  OBVIOUS
<1>1. calls = <<>> /\ vector = <<>> /\ host = 0 /\ conf \in Topologies
  BY DEF Init, PciInit
<1>2. controller = {}
  BY DEF Init
<1> QED
  BY <1>1, <1>2, PciAssumption DEF Inv, Climbing, Listed, Chosen

\* Every step of the scan keeps it.
LEMMA ScanInv ==
  ASSUME Inv, Scan
  PROVE  Inv'
<1>1. PciNext /\ Climbing /\ Listed /\ UNCHANGED <<phase, controller>>
  BY DEF Scan, Inv, setupVars
<1>2. conf' = conf
  BY <1>1 DEF PciNext, pci_recursive_scan, ScanHost, NoMoreHosts, SkipDevice, SkipFunction,
              GoDown, AddFunction, ReturnFromBus
<1>3. host' \in Nat
  BY <1>1 DEF Inv, PciNext, pci_recursive_scan, ScanHost, NoMoreHosts, SkipDevice, SkipFunction,
              GoDown, AddFunction, ReturnFromBus
<1>4. Chosen'
  BY <1>1, <1>2 DEF Inv, Chosen
<1>5. Climbing'
  <2>1. CASE pci_recursive_scan \/ NoMoreHosts
    BY <1>1, <2>1 DEF pci_recursive_scan, NoMoreHosts, Climbing
  <2>2. CASE ScanHost
    <3>1. Enter(host) \in Call /\ Enter(host).bus \in Nat
      BY PciAssumption DEF Inv, Enter, Call
    <3>2. calls' = <<Enter(host)>> /\ Len(calls') = 1 /\ calls'[1] = Enter(host)
      BY <2>2 DEF ScanHost
    <3>3. calls' \in Seq(Call)
      BY <3>1, <3>2
    <3> QED
      BY <3>1, <3>2, <3>3 DEF Climbing
  <2>3. CASE SkipDevice \/ SkipFunction \/ AddFunction
    <3>1. calls # <<>> /\ \E f \in {NextDevice, NextFunction} : calls' = MoveTo(f)
      BY <2>3 DEF SkipDevice, SkipFunction, AddFunction, InBus
    <3> QED
      BY <1>1, <3>1, StepsAlong
  <2>4. CASE GoDown
    BY <2>4, DownClimbs
  <2>5. CASE ReturnFromBus
    BY <1>1, <2>5, ReturnClimbs DEF ReturnFromBus
  <2> QED
    BY <1>1, <2>1, <2>2, <2>3, <2>4, <2>5 DEF PciNext
<1>6. Listed'
  <2>1. CASE pci_recursive_scan
    BY <1>2, <2>1, PciAssumption DEF pci_recursive_scan, Listed
  <2>2. CASE AddFunction
    <3>1. Here \in conf.present /\ AddIfRoom(Here)
      BY <2>2 DEF AddFunction
    <3>2. vector \in Seq(conf.present) /\ Len(vector) \in Nat /\ Len(vector) <= MaxDevices
      BY <1>1 DEF Listed
    <3>3. CASE Len(vector) >= MaxDevices
      BY <1>2, <3>1, <3>2, <3>3 DEF AddIfRoom, Listed
    <3>4. CASE ~(Len(vector) >= MaxDevices)
      <4>1. vector' \in Seq(conf.present) /\ Len(vector') = Len(vector) + 1
        BY <3>1, <3>2, <3>4 DEF AddIfRoom
      <4> QED
        BY <1>2, <3>2, <3>4, <4>1, PciAssumption DEF Listed
    <3> QED
      BY <3>3, <3>4
  <2>3. CASE UNCHANGED vector
    BY <1>1, <1>2, <2>3 DEF Listed
  <2> QED
    BY <1>1, <2>1, <2>2, <2>3 DEF PciNext, ScanHost, NoMoreHosts, SkipDevice, SkipFunction,
                                  GoDown, ReturnFromBus
<1> QED
  BY <1>2, <1>3, <1>4, <1>5, <1>6 DEF Inv

\* The first controller of the vector is one.
LEMMA FirstController ==
  ASSUME Listed, Controllers # {}
  PROVE  vector[Min(Controllers)] \in conf.ahci
<1>1. Len(vector) \in Nat /\ DOMAIN vector = 1 .. Len(vector)
  BY DEF Listed
<1>2. Controllers \subseteq Nat
  BY <1>1 DEF Controllers
<1>3. Min(Controllers) \in Controllers
  BY <1>2, MinOfNaturals
<1> QED
  BY <1>3 DEF Controllers

\* Every step keeps the invariant.
LEMMA NextInv == Inv /\ [Next]_vars => Inv'
<1> SUFFICES ASSUME Inv, [Next]_vars PROVE Inv'
  OBVIOUS
<1>1. CASE NoController \/ MapRegisters \/ Done \/ UNCHANGED vars
  <2>1. UNCHANGED <<conf, host, calls, vector, controller>> /\ (phase' = "scan" => phase = "scan")
    BY <1>1 DEF NoController, MapRegisters, Done, vars, pciVars, setupVars
  <2> QED
    BY <2>1 DEF Inv, Climbing, Listed, Chosen
<1>2. CASE pci_ahci_get_abar
  <2>1. /\ UNCHANGED <<conf, host, calls, vector>> /\ phase' = "pmap"
        /\ controller' = {vector[Min(Controllers)]}
    BY <1>2 DEF pci_ahci_get_abar, pciVars, Inv, Chosen
  <2>2. vector[Min(Controllers)] \in conf.ahci
    BY <1>2, FirstController DEF pci_ahci_get_abar, Inv
  <2> QED
    BY <2>1, <2>2 DEF Inv, Climbing, Listed, Chosen
<1> QED
  BY <1>1, <1>2, ScanInv DEF Next

\* The invariant holds in every reachable state.
LEMMA InvHolds == Spec => []Inv
<1> QED
  BY InitInv, NextInv, PTL DEF Spec

-----------------------------------------------------------------------------
(***************************************************************************)
(* The scan keeps ScanFinds                                                *)
(***************************************************************************)

\* The buses that can be reached are a closed set themselves.
LEMMA ReachedIsClosed ==
  ASSUME IsTopology(conf)
  PROVE  IsClosed(ReachedBuses) /\ ReachedBuses \subseteq Bus
<1>1. ReachedBuses \subseteq Bus /\ HostBuses \subseteq Bus
  BY DEF ReachedBuses, HostBuses
<1>2. \A b \in Bus : b \in ReachedBuses <=> \A S \in SUBSET Bus : IsClosed(S) => b \in S
  BY DEF ReachedBuses
<1>3. HostBuses \subseteq ReachedBuses
  BY <1>1, <1>2 DEF IsClosed
<1>4. ASSUME NEW x \in DOMAIN conf.secondary, Visible(x), x[1] \in ReachedBuses
      PROVE  conf.secondary[x] \in ReachedBuses
  <2>1. conf.secondary[x] \in Bus
    BY DEF IsTopology
  <2>2. ASSUME NEW S \in SUBSET Bus, IsClosed(S) PROVE conf.secondary[x] \in S
    <3>1. x[1] \in S
      BY <1>1, <1>2, <1>4, <2>2
    <3> QED
      BY <1>4, <2>2, <3>1 DEF IsClosed
  <2> QED
    BY <1>2, <2>1, <2>2
<1> QED
  BY <1>1, <1>3, <1>4 DEF IsClosed

\* Whatever a step does to the scan, the configuration space is what it was.
LEMMA SameTopology ==
  ASSUME conf' = conf
  PROVE  /\ Reached' = Reached /\ ReachedBuses' = ReachedBuses /\ HostBuses' = HostBuses
         /\ \A x : Visible(x)' <=> Visible(x)
         /\ \A x : IsBridge(x)' <=> IsBridge(x)
         /\ \A c : OnReached(c)' <=> OnReached(c)
<1>1. \A b, d, f : Present(b, d, f)' <=> Present(b, d, f)
  BY DEF Present
<1>2. \A b, d : Multi(b, d)' <=> Multi(b, d)
  BY DEF Multi
<1>3. \A x : Visible(x)' <=> Visible(x)
  BY DEF Visible, Present, Multi
<1>4. HostBuses' = HostBuses
  BY DEF HostBuses, Present, Multi
<1>5. \A S : IsClosed(S)' <=> IsClosed(S)
  BY <1>4 DEF IsClosed, Visible, Present, Multi
<1>6. ReachedBuses' = ReachedBuses
  BY <1>4 DEF ReachedBuses, IsClosed, Visible, Present, Multi
<1>7. Reached' = Reached
  BY <1>6 DEF Reached, Visible, Present, Multi
<1>8. \A x : IsBridge(x)' <=> IsBridge(x)
  BY DEF IsBridge
<1>9. \A c : OnReached(c)' <=> OnReached(c)
  BY <1>6 DEF OnReached, Present, Multi, IsBridge
<1> QED
  BY <1>3, <1>4, <1>6, <1>7, <1>8, <1>9

\* The functions are triples of numbers, and the bridges are among them.
LEMMA Places ==
  ASSUME Inv
  PROVE  /\ IsTopology(conf)
         /\ \A x \in conf.present : /\ x[1] \in Bus /\ x[1] \in Nat
                                    /\ x[2] \in 0 .. MaxDevice /\ x[2] \in Nat
                                    /\ x[3] \in 0 .. MaxFunction /\ x[3] \in Nat
                                    /\ x = <<x[1], x[2], x[3]>>
         /\ \A x \in DOMAIN conf.secondary : x \in conf.present
         /\ Listing \subseteq conf.present
<1>1. IsTopology(conf) /\ MaxBus \in Nat /\ MaxDevice \in Nat /\ MaxFunction \in Nat
  BY PciAssumption DEF Inv
<1>2. conf.present \subseteq Function /\ DOMAIN conf.secondary \subseteq conf.present
  BY <1>1 DEF IsTopology
<1>3. ASSUME NEW x \in conf.present
      PROVE  /\ x[1] \in Bus /\ x[1] \in Nat
             /\ x[2] \in 0 .. MaxDevice /\ x[2] \in Nat
             /\ x[3] \in 0 .. MaxFunction /\ x[3] \in Nat
             /\ x = <<x[1], x[2], x[3]>>
  BY <1>1, <1>2, <1>3 DEF Function, Bus
<1>4. Listing \subseteq conf.present
  BY DEF Inv, Listed, Listing, ToSet
<1> QED
  BY <1>1, <1>2, <1>3, <1>4

\* A function that is there where the scan looks can be reached.
LEMMA HereIsReached ==
  ASSUME Inv, Sound, calls # <<>>, Here \in conf.present
  PROVE  /\ Visible(Here) /\ Here \in Reached
         /\ Present(Top.bus, Top.dev, 0)
         /\ IsBridge(Here) => conf.secondary[Here] \in ReachedBuses
<1>1. Top \in Call /\ OnReached(Top)
  <2>1. Len(calls) \in 1 .. Len(calls) /\ Top \in Call
    BY TopIsCall DEF Inv
  <2> QED
    BY <2>1 DEF Sound, Top
<1>2. Here[1] = Top.bus /\ Here[2] = Top.dev /\ Here[3] = Top.fun
  BY DEF Here
<1>3. Top.bus \in Bus
  BY <1>2, Places
<1>4. Top.fun = 0 \/ Top.fun > 0
  BY <1>1, PciAssumption DEF Call
<1>5. Present(Top.bus, Top.dev, 0) /\ (Top.fun = 0 \/ Multi(Top.bus, Top.dev))
  <2>1. CASE Top.fun = 0
    BY <2>1 DEF Here, Present
  <2> QED
    BY <1>1, <1>4, <2>1 DEF OnReached
<1>6. Visible(Here)
  BY <1>2, <1>5 DEF Visible
<1>7. Top.bus \in ReachedBuses
  BY <1>1, <1>3 DEF OnReached
<1>8. Here \in Reached
  BY <1>2, <1>6, <1>7 DEF Reached
<1>9. IsBridge(Here) => conf.secondary[Here] \in ReachedBuses
  BY <1>2, <1>6, <1>7, Places, ReachedIsClosed DEF IsClosed, IsBridge
<1> QED
  BY <1>5, <1>6, <1>8, <1>9

\* The calls after the loops have moved the innermost one.
LEMMA MoveIs ==
  ASSUME Climbing, calls # <<>>, NEW f \in Call
  PROVE  /\ Len(MoveTo(f)) = Len(calls) /\ MoveTo(f)[Len(calls)] = f
         /\ \A n \in 1 .. Len(calls) - 1 : MoveTo(f)[n] = calls[n]
<1>1. Len(calls) \in Nat /\ Len(calls) > 0 /\ calls \in Seq(Call)
  BY TopIsCall
<1>2. MoveTo(f) = [calls EXCEPT ![Len(calls)] = f]
  BY DEF MoveTo
<1> QED
  BY <1>1, <1>2

\* Moving over the place where the scan looks: what matters is that every function
\* that is passed now was passed before or is in the vector.
LEMMA StepsOver ==
  ASSUME Inv, ScanFinds, calls # <<>>, NEW f \in {NextDevice, NextFunction},
         calls' = MoveTo(f), UNCHANGED <<conf, host, scan>>,
         OnReached(f), ~f.below,
         Listing \subseteq Listing', Listing' \subseteq Listing \cup {Here},
         Listing' \subseteq Reached,
         Room' => Room,
         Room' /\ Top.below => Here \in Listing',
         \A x \in conf.present : Passed(x, Top) => Passed(x, f),
         Here \in Listing' => Passed(Here, f),
         Room' /\ IsBridge(Here) /\ Here \in Listing' => Here \in Listing \/ Top.below,
         Room' => \A x \in conf.present :
                    Passed(x, f) /\ Visible(x) => Passed(x, Top) \/ x \in Listing'
  PROVE  /\ Hosts' /\ Sound' /\ Chain'
         /\ Room' => Complete'
         /\ ~Multi(0, 0) /\ Room' => Once'
<1> DEFINE k == Len(calls)
<1>1. /\ Climbing /\ k \in Nat /\ k > 0 /\ calls \in Seq(Call)
      /\ f \in Call /\ f.bus = Top.bus /\ Top = calls[k] /\ scan = "hosts"
  BY TopIsCall, NextIsCall DEF Inv, Top, ScanFinds, Hosts
<1>2. /\ Len(calls') = k /\ calls'[k] = f /\ Top' = f /\ calls' # <<>>
      /\ \A n \in 1 .. k - 1 : calls'[n] = calls[n]
      /\ \A n \in 1 .. k : calls'[n].bus = calls[n].bus
  <2>1. Len(calls') = k /\ calls'[k] = f /\ \A n \in 1 .. k - 1 : calls'[n] = calls[n]
    BY <1>1, MoveIs
  <2> QED
    BY <1>1, <2>1 DEF Top
<1>3. \A n \in 1 .. k - 1 : calls[n].bus # Top.bus
  <2>1. \A n \in 1 .. k - 1 : calls[n].bus < Top.bus
    BY <1>1 DEF Climbing
  <2>2. \A n \in 1 .. k : calls[n].bus \in Nat
    BY <1>1, TopIsCall
  <2> QED
    BY <1>1, <2>1, <2>2
<1> HIDE DEF k
<1>4. Hosts'
  BY <1>1, <1>2 DEF ScanFinds, Hosts, Present, Multi
<1>5. Sound'
  <2>1. \A n \in 1 .. k : OnReached(calls'[n])
    <3>1. \A n \in 1 .. k - 1 : OnReached(calls[n])
      BY <1>1 DEF ScanFinds, Sound, k
    <3>2. \A n \in 1 .. k : n = k \/ n \in 1 .. k - 1
      BY <1>1
    <3> QED
      BY <1>2, <3>1, <3>2
  <2>2. \A n \in 1 .. k : OnReached(calls[n])'
    BY <2>1, SameTopology DEF OnReached, Present, Multi, IsBridge, At
  <2> QED
    BY <1>2, <2>2, SameTopology DEF Sound
<1>6. Chain'
  <2>1. \A n \in 1 .. k - 1 : calls[n].below /\ calls[n + 1].bus = conf.secondary[At(calls[n])]
    BY DEF ScanFinds, Chain, k
  <2>2. ASSUME NEW n \in 1 .. k - 1
        PROVE  calls'[n].below /\ calls'[n + 1].bus = conf.secondary[At(calls'[n])]
    <3>1. n + 1 \in 1 .. k
      BY <1>1
    <3>2. calls'[n] = calls[n] /\ calls'[n + 1].bus = calls[n + 1].bus
      BY <1>2, <3>1
    <3> QED
      BY <2>1, <3>2
  <2>3. \A n \in 1 .. Len(calls') - 1 :
           calls'[n].below /\ calls'[n + 1].bus = conf.secondary[At(calls[n])]'
    BY <1>2, <2>2
  <2> QED
    BY <2>3 DEF Chain, At
<1>7. ASSUME Room' PROVE Complete'
  <2>1. Complete
    BY <1>7 DEF ScanFinds
  <2>2. \A b : Covered(b) => Covered(b)'
    BY SameTopology DEF Covered
  <2>3. \A n \in 1 .. k, x \in conf.present : Passed(x, calls'[n]) /\ Visible(x) => x \in Listing'
    <3> SUFFICES ASSUME NEW n \in 1 .. k, NEW x \in conf.present, Passed(x, calls'[n]), Visible(x)
                 PROVE  x \in Listing'
      OBVIOUS
    <3>1. CASE n = k
      <4>1. Passed(x, Top) \/ x \in Listing'
        BY <1>2, <1>7, <3>1
      <4>2. Passed(x, Top) => x \in Listing
        BY <1>1, <2>1 DEF Complete, k
      <4> QED
        BY <4>1, <4>2
    <3>2. CASE n # k
      <4>1. n \in 1 .. k - 1 /\ n \in 1 .. Len(calls)
        BY <1>1, <3>2 DEF k
      <4>2. Passed(x, calls[n])
        BY <1>2, <4>1
      <4> QED
        BY <2>1, <4>1, <4>2 DEF Complete
    <3> QED
      BY <3>1, <3>2
  <2>4. \A x \in Listing' : IsBridge(x) => Covered(conf.secondary[x])'
    <3>1. \A x \in Listing : IsBridge(x) => Covered(conf.secondary[x])
      BY <2>1 DEF Complete
    <3>2. IsBridge(Here) /\ Here \in Listing' => Covered(conf.secondary[Here])
      BY <1>7, <2>1, <3>1 DEF Complete
    <3> QED
      BY <2>2, <3>1, <3>2
  <2>5. scan = "hosts" => \A h \in 0 .. host - 1 :
                            Covered(h)' \/ (calls' # <<>> /\ calls'[1].bus = h)
    <3>1. 1 \in 1 .. k
      BY <1>1
    <3> QED
      BY <1>2, <2>1, <2>2, <3>1 DEF Complete
  <2>6. scan' # "done" /\ ~(Top.below)'
    BY <1>1, <1>2
  <2>7. \A n \in 1 .. Len(calls'), x \in conf.present' :
           Passed(x, calls'[n]) /\ Visible(x)' => x \in Listing'
    BY <1>2, <2>3, SameTopology
  <2>8. \A x \in Listing' : IsBridge(x)' => Covered(conf.secondary[x])'
    BY <2>4, SameTopology
  <2> QED
    BY <2>5, <2>6, <2>7, <2>8 DEF Complete, Passed, Covered
<1>8. ASSUME ~Multi(0, 0), Room' PROVE Once'
  <2>1. Once
    BY <1>8 DEF ScanFinds
  <2>2. calls'[1].bus = 0 /\ ~(scan' = "hosts" /\ host' = 0)
    <3>1. 1 \in 1 .. k
      BY <1>1
    <3>2. calls[1].bus = 0
      BY <2>1 DEF Once
    <3>3. host > 0 /\ host \in Nat
      BY DEF ScanFinds, Hosts, Inv
    <3> QED
      BY <1>2, <3>1, <3>2, <3>3
  <2>3. \A n \in 1 .. k, x \in Listing' : x[1] = calls'[n].bus => Passed(x, calls'[n])
    <3> SUFFICES ASSUME NEW n \in 1 .. k, NEW x \in Listing', x[1] = calls'[n].bus
                 PROVE  Passed(x, calls'[n])
      OBVIOUS
    <3>1. x = Here => Here[1] = Top.bus
      BY DEF Here
    <3>2. x \in Listing => Passed(x, calls[n])
      BY <1>2, <2>1 DEF Once, k
    <3>3. CASE n = k
      <4>1. x \in Listing => Passed(x, Top) /\ x \in conf.present
        BY <1>1, <3>2, <3>3, Places
      <4> QED
        BY <1>2, <3>3, <4>1
    <3>4. CASE n # k
      <4>1. n \in 1 .. k - 1
        BY <1>1, <3>4
      <4>2. x \in Listing
        BY <1>2, <1>3, <3>1, <4>1
      <4> QED
        BY <1>2, <3>2, <4>1, <4>2
    <3> QED
      BY <3>3, <3>4
  <2>4. \A y : Waits(y) => y \in Listing' \/ Waits(y)'
    <3> SUFFICES ASSUME NEW y, NEW n \in 1 .. k, calls[n].below, At(calls[n]) = y
                 PROVE  y \in Listing' \/ Waits(y)'
      BY DEF Waits, k
    <3>1. CASE n = k
      <4>1. Top.below /\ y = Here
        BY <1>1, <3>1 DEF At, Here
      <4> QED
        BY <1>8, <4>1
    <3>2. CASE n # k
      <4>1. n \in 1 .. k - 1
        BY <1>1, <3>2
      <4> QED
        BY <1>2, <4>1 DEF Waits, At
    <3> QED
      BY <3>1, <3>2
  <2>5. \A x \in Listing' :
          \/ x[1] = 0
          \/ \E y \in DOMAIN conf.secondary :
               conf.secondary[y] = x[1] /\ (y \in Listing' \/ Waits(y)')
    <3> SUFFICES ASSUME NEW x \in Listing', x[1] # 0
                 PROVE  \E y \in DOMAIN conf.secondary :
                          conf.secondary[y] = x[1] /\ (y \in Listing' \/ Waits(y)')
      OBVIOUS
    <3>1. CASE x \in Listing
      BY <2>1, <2>4, <3>1 DEF Once
    <3>2. CASE x = Here
      <4>1. x[1] = Top.bus /\ calls[1].bus = 0
        BY <2>1, <3>2 DEF Here, Once
      <4>2. k - 1 \in 1 .. k - 1 /\ k - 1 \in 1 .. Len(calls) /\ (k - 1) + 1 = k
        BY <1>1, <4>1 DEF k
      <4> DEFINE c == calls[k - 1]
      <4>3. c.below /\ conf.secondary[At(c)] = Top.bus
        BY <1>1, <4>2 DEF ScanFinds, Chain, k
      <4>4. OnReached(c)
        BY <4>2 DEF ScanFinds, Sound
      <4>5. At(c) \in DOMAIN conf.secondary
        BY <4>3, <4>4 DEF OnReached, IsBridge
      <4>6. Waits(At(c))
        BY <4>2, <4>3 DEF Waits
      <4> HIDE DEF c
      <4> QED
        BY <2>4, <4>1, <4>3, <4>5, <4>6
    <3> QED
      BY <3>1, <3>2
  <2>6. calls' # <<>> => calls'[1].bus = 0
    BY <2>2
  <2>7. \A n \in 1 .. Len(calls'), x \in Listing' : x[1] = calls'[n].bus => Passed(x, calls'[n])
    BY <1>2, <2>3
  <2> QED
    BY <2>2, <2>5, <2>6, <2>7 DEF Once, Passed
<1> QED
  BY <1>4, <1>5, <1>6, <1>7, <1>8

\* What the loops pass: the rest of the device, or one function.
LEMMA Passing ==
  ASSUME Inv, Sound, calls # <<>>
  PROVE  /\ \A x \in conf.present : Passed(x, NextDevice) <=> x[1] = Top.bus /\ x[2] <= Top.dev
         /\ \A x \in conf.present : Passed(x, NextFunction) <=> Passed(x, Top) \/ x = Here
         /\ \A x \in conf.present : Passed(x, Top) => Passed(x, NextDevice)
         /\ OnReached(NextDevice) /\ ~NextDevice.below /\ ~NextFunction.below
         /\ Present(Top.bus, Top.dev, 0) /\ Multi(Top.bus, Top.dev) => OnReached(NextFunction)
<1>1. Top \in Call /\ OnReached(Top) /\ MaxFunction \in Nat
  <2>1. Len(calls) \in 1 .. Len(calls) /\ Top \in Call
    BY TopIsCall DEF Inv
  <2> QED
    BY <2>1, PciAssumption DEF Sound, Top
<1>2. Top.bus \in Nat /\ Top.dev \in Nat /\ Top.fun \in 0 .. MaxFunction
  BY <1>1 DEF Call
<1>3. NextDevice.bus = Top.bus /\ NextDevice.dev = Top.dev + 1 /\ NextDevice.fun = 0
      /\ NextDevice.below = FALSE
  <2> DEFINE d == Top.dev + 1
  <2>1. NextDevice = [Top EXCEPT !.dev = d, !.fun = 0, !.below = FALSE]
    BY DEF NextDevice
  <2> HIDE DEF d
  <2>2. NextDevice.bus = Top.bus /\ NextDevice.dev = d /\ NextDevice.fun = 0
        /\ NextDevice.below = FALSE
    BY <1>1, <2>1, Zenon DEF Call
  <2> QED
    BY <2>2 DEF d
<1>4. ASSUME Top.fun < MaxFunction
      PROVE  NextFunction.bus = Top.bus /\ NextFunction.dev = Top.dev
             /\ NextFunction.fun = Top.fun + 1 /\ NextFunction.below = FALSE
  <2>1. NextFunction = [bus |-> Top.bus, dev |-> Top.dev, fun |-> Top.fun + 1, below |-> FALSE]
    BY <1>1, <1>4 DEF NextFunction, Call
  <2> QED
    BY <2>1
<1>5. ASSUME NEW x \in conf.present
      PROVE  Passed(x, NextDevice) <=> x[1] = Top.bus /\ x[2] <= Top.dev
  <2>1. x[2] \in Nat /\ x[3] \in Nat
    BY Places
  <2> QED
    BY <1>2, <1>3, <2>1 DEF Passed
<1>6. ASSUME NEW x \in conf.present
      PROVE  Passed(x, NextFunction) <=> Passed(x, Top) \/ x = Here
  <2>1. x[2] \in Nat /\ x[3] \in 0 .. MaxFunction /\ x = <<x[1], x[2], x[3]>>
    BY Places
  <2>2. x = Here <=> x[1] = Top.bus /\ x[2] = Top.dev /\ x[3] = Top.fun
    BY <2>1 DEF Here
  <2>3. CASE Top.fun < MaxFunction
    <3>1. Passed(x, NextFunction) <=>
            x[1] = Top.bus /\ (x[2] < Top.dev \/ (x[2] = Top.dev /\ x[3] < Top.fun + 1))
      <4>1. /\ NextFunction.bus = Top.bus /\ NextFunction.dev = Top.dev
            /\ NextFunction.fun = Top.fun + 1
        BY <1>4, <2>3
      <4> QED
        BY <4>1 DEF Passed
    <3>2. x[3] < Top.fun + 1 <=> x[3] < Top.fun \/ x[3] = Top.fun
      BY <1>2, <2>1
    <3> QED
      BY <2>2, <3>1, <3>2 DEF Passed
  <2>4. CASE ~(Top.fun < MaxFunction)
    <3>1. NextFunction = NextDevice /\ Top.fun = MaxFunction
      BY <1>1, <1>2, <2>4 DEF NextFunction
    <3> QED
      BY <1>1, <1>2, <1>5, <2>1, <2>2, <3>1 DEF Passed
  <2> QED
    BY <2>3, <2>4
<1>7. \A x \in conf.present : Passed(x, Top) => Passed(x, NextDevice)
  <2> TAKE x \in conf.present
  <2>1. x[2] \in Nat /\ x[3] \in Nat
    BY Places
  <2> QED
    BY <1>2, <1>5, <2>1 DEF Passed
<1>8. OnReached(NextDevice) /\ ~NextDevice.below
  BY <1>1, <1>3 DEF OnReached
<1>9. ~NextFunction.below
      /\ (Present(Top.bus, Top.dev, 0) /\ Multi(Top.bus, Top.dev) => OnReached(NextFunction))
  <2>1. CASE Top.fun < MaxFunction
    <3>1. ~NextFunction.below /\ NextFunction.bus = Top.bus /\ NextFunction.dev = Top.dev
      BY <1>4, <2>1
    <3> QED
      BY <1>1, <3>1 DEF OnReached
  <2>2. CASE ~(Top.fun < MaxFunction)
    BY <1>8, <2>2 DEF NextFunction
  <2> QED
    BY <2>1, <2>2
<1> QED
  BY <1>5, <1>6, <1>7, <1>8, <1>9

\* No function is there: the loops go on.
LEMMA SkipFinds ==
  ASSUME Inv, ScanFinds, SkipDevice \/ SkipFunction
  PROVE  ScanFinds'
<1>1. /\ calls # <<>> /\ Here \notin conf.present /\ UNCHANGED <<conf, host, scan, vector>>
      /\ Sound /\ ~Top.below
  <2>1. calls # <<>> /\ Here \notin conf.present /\ UNCHANGED <<conf, host, scan, vector>>
    BY DEF SkipDevice, SkipFunction, InBus, Present, Here
  <2>2. Len(calls) \in 1 .. Len(calls) /\ At(Top) = Here
    BY <2>1, TopIsCall DEF Inv, At, Here
  <2>3. Sound /\ OnReached(Top)
    BY <2>2 DEF ScanFinds, Sound, Top
  <2> QED
    BY <2>1, <2>2, <2>3 DEF OnReached
<1>2. Top \in Call
  BY <1>1, TopIsCall DEF Inv
<1>3. Listing' = Listing /\ Room' = Room /\ Listing \subseteq Reached /\ Here \notin Listing
  BY <1>1, Places DEF Listing, Room, ScanFinds, Sound
<1>4. PICK f \in {NextDevice, NextFunction} :
        /\ calls' = MoveTo(f) /\ OnReached(f) /\ ~f.below
        /\ \A x \in conf.present : Passed(x, Top) => Passed(x, f)
        /\ \A x \in conf.present : Passed(x, f) /\ Visible(x) => Passed(x, Top)
  <2>1. CASE SkipDevice
    <3>1. calls' = MoveTo(NextDevice) /\ Top.fun = 0
      BY <2>1 DEF SkipDevice
    <3>2. ASSUME NEW x \in conf.present, Passed(x, NextDevice), Visible(x) PROVE Passed(x, Top)
      <4>1. x[1] = Top.bus /\ x[2] <= Top.dev /\ x[2] \in Nat /\ Top.dev \in Nat
        BY <1>1, <1>2, <3>2, Passing, Places DEF Call
      <4>2. x[2] # Top.dev
        BY <1>1, <3>1, <3>2, <4>1 DEF Visible, Present, Here
      <4> QED
        BY <4>1, <4>2 DEF Passed
    <3> QED
      BY <1>1, <3>1, <3>2, Passing
  <2>2. CASE SkipFunction
    <3>1. calls' = MoveTo(NextFunction) /\ Top.fun > 0
      BY <2>2 DEF SkipFunction
    <3>2. Present(Top.bus, Top.dev, 0) /\ Multi(Top.bus, Top.dev)
      <4>1. Len(calls) \in 1 .. Len(calls)
        BY <1>1, TopIsCall DEF Inv
      <4> QED
        BY <1>1, <3>1, <4>1 DEF Sound, OnReached, Top
    <3> QED
      BY <1>1, <3>1, <3>2, Passing
  <2> QED
    BY <2>1, <2>2
<1>5. /\ Hosts' /\ Sound' /\ Chain'
      /\ Room' => Complete'
      /\ ~Multi(0, 0) /\ Room' => Once'
  BY <1>1, <1>3, <1>4, StepsOver
<1>6. IsInjective(vector)' <=> IsInjective(vector)
  BY <1>1
<1> QED
  BY <1>1, <1>5, <1>6 DEF ScanFinds, Multi

\* A function is there, and a bridge's bus has been scanned: it is added.
LEMMA AddFinds ==
  ASSUME Inv, ScanFinds, AddFunction
  PROVE  ScanFinds'
<1>1. /\ calls # <<>> /\ Here \in conf.present /\ UNCHANGED <<conf, host, scan>>
      /\ Sound /\ (IsBridge(Here) => Top.below) /\ AddIfRoom(Here)
  BY DEF AddFunction, InBus, ScanFinds
<1>2. /\ Here \in Reached /\ Present(Top.bus, Top.dev, 0) /\ Visible(Here)
      /\ Listing \subseteq Reached /\ Top \in Call
      /\ Here[1] = Top.bus /\ Here[2] = Top.dev /\ Here[3] = Top.fun
  BY <1>1, HereIsReached, TopIsCall DEF Sound, Inv, Here
<1>3. vector \in Seq(conf.present) /\ Len(vector) \in Nat /\ MaxDevices \in Nat
  BY PciAssumption DEF Inv, Listed
<1>4. /\ Room => vector' = Append(vector, Here) /\ Listing' = Listing \cup {Here}
      /\ ~Room => vector' = vector /\ Listing' = Listing
  <2>1. CASE Room
    <3>1. vector' = Append(vector, Here)
      BY <1>1, <1>3, <2>1 DEF Room, AddIfRoom
    <3>2. /\ Len(vector') = Len(vector) + 1 /\ vector'[Len(vector) + 1] = Here
          /\ DOMAIN vector' = 1 .. Len(vector) + 1
          /\ \A n \in 1 .. Len(vector) : vector'[n] = vector[n]
      BY <1>1, <1>3, <3>1
    <3>3. Listing' = Listing \cup {Here}
      <4>1. Listing' = {vector'[n] : n \in 1 .. Len(vector) + 1}
        BY <3>2 DEF Listing, ToSet
      <4>2. Listing = {vector[n] : n \in 1 .. Len(vector)}
        BY <1>3 DEF Listing, ToSet
      <4>3. \A n \in 1 .. Len(vector) + 1 : n \in 1 .. Len(vector) \/ n = Len(vector) + 1
        BY <1>3
      <4>4. Len(vector) + 1 \in 1 .. Len(vector) + 1
            /\ \A n \in 1 .. Len(vector) : n \in 1 .. Len(vector) + 1
        BY <1>3
      <4> QED
        BY <3>2, <4>1, <4>2, <4>3, <4>4
    <3> QED
      BY <2>1, <3>1, <3>3
  <2>2. CASE ~Room
    <3>1. vector' = vector
      BY <1>1, <1>3, <2>2 DEF Room, AddIfRoom
    <3> QED
      BY <2>2, <3>1 DEF Listing
  <2> QED
    BY <2>1, <2>2
<1>5. Room' => Room /\ Here \in Listing'
  <2>1. ~Room => ~Room'
    BY <1>4 DEF Room
  <2> QED
    BY <1>4, <2>1
<1>6. PICK f \in {NextDevice, NextFunction} :
        /\ calls' = MoveTo(f) /\ OnReached(f) /\ ~f.below /\ Passed(Here, f)
        /\ \A x \in conf.present : Passed(x, Top) => Passed(x, f)
        /\ \A x \in conf.present : Passed(x, f) /\ Visible(x) => Passed(x, Top) \/ x = Here
  <2>1. CASE Multi(Top.bus, Top.dev)
    <3>1. calls' = MoveTo(NextFunction)
      BY <2>1 DEF AddFunction
    <3> QED
      BY <1>1, <1>2, <2>1, <3>1, Passing
  <2>2. CASE ~Multi(Top.bus, Top.dev)
    <3>1. calls' = MoveTo(NextDevice)
      BY <2>2 DEF AddFunction
    <3>2. Top.fun = 0
      BY <1>2, <2>2 DEF Visible
    <3>3. ASSUME NEW x \in conf.present, Passed(x, NextDevice), Visible(x)
          PROVE  Passed(x, Top) \/ x = Here
      <4>1. x[1] = Top.bus /\ x[2] <= Top.dev /\ x[2] \in Nat /\ Top.dev \in Nat
            /\ x = <<x[1], x[2], x[3]>>
        BY <1>1, <1>2, <3>3, Passing, Places DEF Call
      <4>2. x[2] = Top.dev => x = Here
        BY <2>2, <3>2, <3>3, <4>1 DEF Visible, Here
      <4> QED
        BY <4>1, <4>2 DEF Passed
    <3>4. Passed(Here, NextDevice)
      <4>1. Top.dev <= Top.dev
        BY <1>2 DEF Call
      <4> QED
        BY <1>1, <1>2, <4>1, Passing
    <3> QED
      BY <1>1, <3>1, <3>3, <3>4, Passing
  <2> QED
    BY <2>1, <2>2
<1>7. /\ Hosts' /\ Sound' /\ Chain'
      /\ Room' => Complete'
      /\ ~Multi(0, 0) /\ Room' => Once'
  <2>1. Listing \subseteq Listing' /\ Listing' \subseteq Listing \cup {Here}
        /\ Listing' \subseteq Reached
    BY <1>2, <1>4
  <2> QED
    BY <1>1, <1>5, <1>6, <2>1, StepsOver
<1>8. ASSUME ~Multi(0, 0) PROVE IsInjective(vector')
  <2>1. IsInjective(vector)
    BY <1>8 DEF ScanFinds
  <2>2. CASE Room
    <3>1. Here \notin Listing
      <4>1. Len(calls) \in 1 .. Len(calls) /\ Once
        BY <1>1, <1>8, <2>2, TopIsCall DEF Inv, ScanFinds
      <4>2. Here \in Listing => Passed(Here, Top)
        BY <1>2, <4>1 DEF Once, Top
      <4>3. ~Passed(Here, Top)
        <5>1. Top.dev \in Nat /\ Top.fun \in Nat
          BY <1>2, PciAssumption DEF Call
        <5> QED
          BY <1>2, <5>1 DEF Passed
      <4> QED
        BY <4>2, <4>3
    <3>2. /\ DOMAIN vector' = 1 .. Len(vector) + 1 /\ vector'[Len(vector) + 1] = Here
          /\ \A n \in 1 .. Len(vector) : vector'[n] = vector[n]
      BY <1>1, <1>3, <1>4, <2>2
    <3>3. \A n \in 1 .. Len(vector) : vector[n] # Here
      BY <1>3, <3>1 DEF Listing, ToSet
    <3>4. \A m, n \in 1 .. Len(vector) : vector[m] = vector[n] => m = n
      BY <1>3, <2>1 DEF IsInjective
    <3>5. \A n \in 1 .. Len(vector) + 1 : n \in 1 .. Len(vector) \/ n = Len(vector) + 1
      BY <1>3
    <3> QED
      BY <3>2, <3>3, <3>4, <3>5 DEF IsInjective
  <2>3. CASE ~Room
    BY <1>4, <2>1, <2>3
  <2> QED
    BY <2>2, <2>3
<1> QED
  BY <1>1, <1>7, <1>8 DEF ScanFinds, Multi, IsInjective

\* A bridge: the scan goes down to a bus that nothing in the vector is on.
LEMMA DownFinds ==
  ASSUME Inv, ScanFinds, GoDown
  PROVE  ScanFinds'
<1> DEFINE k == Len(calls)
           t == [Top EXCEPT !.below = TRUE]
           b == conf.secondary[Here]
<1>1. /\ calls # <<>> /\ Here \in conf.present /\ IsBridge(Here) /\ ~Top.below
      /\ UNCHANGED <<conf, scan, host, vector>>
      /\ Climbing /\ k \in Nat /\ k > 0 /\ Top \in Call /\ Top = calls[k]
      /\ scan = "hosts" /\ host > 0 /\ Sound
  BY TopIsCall DEF GoDown, InBus, Inv, Top, ScanFinds, Hosts
<1>2. t \in Call /\ t.bus = Top.bus /\ t.dev = Top.dev /\ t.fun = Top.fun /\ t.below
      /\ At(t) = Here
  BY <1>1 DEF Call, At, Here
<1>3. b \in Bus /\ b \in Nat /\ b # 0 /\ b > Top.bus /\ Top.bus \in Nat /\ b \in ReachedBuses
      /\ Here[1] = Top.bus /\ Here \in DOMAIN conf.secondary
  <2>1. Here[1] = Top.bus /\ Here \in DOMAIN conf.secondary /\ Top.bus \in Nat
    BY <1>1 DEF Here, IsBridge, Call
  <2>2. b \in Bus /\ b > Top.bus
    BY <2>1, Places DEF IsTopology
  <2> QED
    BY <1>1, <2>1, <2>2, HereIsReached, PciAssumption DEF Bus
<1>4. /\ Len(calls') = k + 1 /\ calls'[k] = t /\ calls'[k + 1] = Enter(b)
      /\ \A n \in 1 .. k - 1 : calls'[n] = calls[n]
      /\ calls' # <<>> /\ Top' = Enter(b)
  <2> DEFINE s == MoveTo(t)
  <2>1. Len(s) = k /\ s[k] = t /\ \A n \in 1 .. k - 1 : s[n] = calls[n]
    BY <1>1, <1>2, MoveIs
  <2>2. s \in Seq(Call)
    BY <1>1, <1>2, MoveKeepsClimbing
  <2>3. calls' = Append(s, Enter(b))
    BY DEF GoDown, SecondaryBus
  <2> HIDE DEF s, t
  <2>4. Len(calls') = k + 1 /\ calls'[k + 1] = Enter(b) /\ \A n \in 1 .. k : calls'[n] = s[n]
    BY <1>1, <2>1, <2>2, <2>3
  <2>5. Top' = calls'[Len(calls')]
    BY DEF Top
  <2> QED
    BY <1>1, <2>1, <2>4, <2>5
<1>5. Enter(b).bus = b /\ Enter(b).dev = 0 /\ Enter(b).fun = 0 /\ Enter(b).below = FALSE
  BY DEF Enter
<1> HIDE DEF k, t, b
<1>6. \A n \in 1 .. k : calls[n].bus < b /\ calls'[n].bus = calls[n].bus
  <2> TAKE n \in 1 .. k
  <2>1. calls[n].bus \in Nat
    BY <1>1, TopIsCall DEF k
  <2>2. n = k \/ (n \in 1 .. k - 1 /\ calls[n].bus < Top.bus)
    BY <1>1 DEF Climbing, k
  <2>3. CASE n = k
    BY <1>1, <1>2, <1>3, <1>4, <2>3
  <2>4. CASE n \in 1 .. k - 1 /\ calls[n].bus < Top.bus
    BY <1>3, <1>4, <2>1, <2>4
  <2> QED
    BY <2>2, <2>3, <2>4
<1>7. \A n \in 1 .. k + 1 : n \in 1 .. k - 1 \/ n = k \/ n = k + 1
  BY <1>1
<1>8. Hosts'
  BY <1>1 DEF ScanFinds, Hosts, Present, Multi
<1>9. Listing' = Listing /\ Room' = Room /\ Listing \subseteq Reached
  BY <1>1 DEF Listing, Room, Sound
<1>10. Sound'
  <2>1. OnReached(t)
    <3>1. OnReached(Top)
      <4>1. k \in 1 .. Len(calls)
        BY <1>1 DEF k
      <4> QED
        BY <1>1, <4>1 DEF Sound
    <3> QED
      BY <1>1, <1>2, <3>1 DEF OnReached
  <2>2. OnReached(Enter(b))
    BY <1>3, <1>5 DEF OnReached
  <2>3. \A n \in 1 .. k - 1 : OnReached(calls[n])
    BY <1>1 DEF Sound, k
  <2>4. \A n \in 1 .. k + 1 : OnReached(calls'[n])
    BY <1>4, <1>7, <2>1, <2>2, <2>3
  <2>5. \A n \in 1 .. k + 1 : OnReached(calls[n])'
    BY <1>1, <2>4, SameTopology DEF OnReached, Present, Multi, IsBridge, At
  <2> QED
    BY <1>1, <1>4, <1>9, <2>5, SameTopology DEF Sound
<1>11. Chain'
  <2>1. ASSUME NEW n \in 1 .. k
        PROVE  calls'[n].below /\ calls'[n + 1].bus = conf.secondary[At(calls'[n])]
    <3>1. CASE n = k
      BY <1>2, <1>4, <1>5, <3>1 DEF b
    <3>2. CASE n # k
      <4>1. n \in 1 .. k - 1 /\ n \in 1 .. Len(calls) - 1 /\ n + 1 \in 1 .. k
        BY <1>1, <3>2 DEF k
      <4>2. calls[n].below /\ calls[n + 1].bus = conf.secondary[At(calls[n])]
        BY <4>1 DEF ScanFinds, Chain
      <4> QED
        BY <1>4, <1>6, <4>1, <4>2
    <3> QED
      BY <3>1, <3>2
  <2>2. Len(calls') - 1 = k
    BY <1>1, <1>4
  <2> QED
    BY <1>1, <2>1, <2>2 DEF Chain, At
<1>12. ASSUME Room PROVE Complete'
  <2>1. Complete
    BY <1>12 DEF ScanFinds
  <2>2. \A c : Covered(c)' <=> Covered(c)
    BY <1>1, <1>9, SameTopology DEF Covered
  <2>3. ASSUME NEW n \in 1 .. k + 1, NEW x \in conf.present, Passed(x, calls'[n]), Visible(x)
        PROVE  x \in Listing
    <3>1. CASE n = k + 1
      <4>1. x[2] < 0 \/ x[3] < 0
        BY <1>4, <1>5, <2>3, <3>1 DEF Passed
      <4>2. x[2] \in Nat /\ x[3] \in Nat
        BY Places
      <4> QED
        BY <4>1, <4>2
    <3>2. CASE n = k
      <4>1. Passed(x, Top) /\ k \in 1 .. Len(calls)
        BY <1>1, <1>2, <1>4, <2>3, <3>2 DEF Passed, k
      <4> QED
        BY <1>1, <2>1, <2>3, <4>1 DEF Complete
    <3>3. CASE n \in 1 .. k - 1
      <4>1. Passed(x, calls[n]) /\ n \in 1 .. Len(calls)
        BY <1>1, <1>4, <2>3, <3>3 DEF k
      <4> QED
        BY <2>1, <2>3, <4>1 DEF Complete
    <3> QED
      BY <1>7, <3>1, <3>2, <3>3
  <2>4. ~(Top.below)' /\ scan' # "done"
    BY <1>1, <1>4, <1>5
  <2>5. calls'[1].bus = calls[1].bus
    <3>1. 1 \in 1 .. k
      BY <1>1
    <3> QED
      BY <1>6, <3>1
  <2>6. \A n \in 1 .. Len(calls'), x \in conf.present' :
           Passed(x, calls'[n]) /\ Visible(x)' => x \in Listing'
    BY <1>1, <1>4, <1>9, <2>3, SameTopology
  <2>7. \A x \in Listing' : IsBridge(x)' => Covered(conf.secondary[x])'
    BY <1>1, <1>9, <2>1, <2>2, SameTopology DEF Complete
  <2>8. \A h \in 0 .. host - 1 : Covered(h)' \/ (calls' # <<>> /\ calls'[1].bus = h)
    BY <1>1, <1>4, <2>1, <2>2, <2>5 DEF Complete
  <2> QED
    BY <1>1, <2>4, <2>6, <2>7, <2>8 DEF Complete, Passed, Covered
<1>13. ASSUME ~Multi(0, 0), Room PROVE Once'
  <2>1. Once
    BY <1>13 DEF ScanFinds
  <2>2. calls'[1].bus = 0 /\ host' # 0
    <3>1. 1 \in 1 .. k /\ host \in Nat
      BY <1>1 DEF Inv
    <3>2. calls[1].bus = 0
      BY <1>1, <2>1 DEF Once
    <3> QED
      BY <1>1, <1>6, <3>1, <3>2
  <2>3. ASSUME NEW x \in Listing, x[1] = b PROVE FALSE
    <3>1. PICK y \in DOMAIN conf.secondary :
            conf.secondary[y] = x[1] /\ (y \in Listing \/ Waits(y))
      BY <1>3, <2>1, <2>3 DEF Once
    <3>2. y = Here
      BY <1>3, <2>3, <3>1, Places DEF IsTopology, b
    <3>3. Here \notin Listing
      <4>1. k \in 1 .. Len(calls)
        BY <1>1 DEF k
      <4>2. Here \in Listing => Passed(Here, Top)
        BY <1>1, <1>3, <2>1, <4>1 DEF Once
      <4>3. ~Passed(Here, Top)
        <5>1. Top.dev \in Nat /\ Top.fun \in Nat
          BY <1>1, PciAssumption DEF Call
        <5> QED
          BY <5>1 DEF Passed, Here
      <4> QED
        BY <4>2, <4>3
    <3>4. ~Waits(Here)
      <4> SUFFICES ASSUME NEW n \in 1 .. k, calls[n].below, At(calls[n]) = Here PROVE FALSE
        BY DEF Waits, k
      <4>1. n # k
        BY <1>1
      <4>2. n \in 1 .. k - 1 /\ n \in 1 .. Len(calls) /\ k \in 1 .. Len(calls) /\ n < k
        BY <1>1, <4>1 DEF k
      <4>3. calls[n].bus < Top.bus /\ calls[n].bus \in Nat
        BY <1>1, <4>2, TopIsCall DEF Climbing
      <4>4. calls[n].bus = Top.bus
        BY DEF At, Here
      <4> QED
        BY <1>3, <4>3, <4>4
    <3> QED
      BY <3>1, <3>2, <3>3, <3>4
  <2>4. ASSUME NEW n \in 1 .. k + 1, NEW x \in Listing, x[1] = calls'[n].bus
        PROVE  Passed(x, calls'[n])
    <3>1. n # k + 1
      BY <1>4, <1>5, <2>3, <2>4
    <3>2. n \in 1 .. k /\ n \in 1 .. Len(calls)
      BY <1>1, <3>1 DEF k
    <3>3. Passed(x, calls[n])
      BY <1>6, <2>1, <2>4, <3>2 DEF Once
    <3> QED
      BY <1>1, <1>2, <1>4, <1>7, <3>1, <3>3 DEF Passed
  <2>5. ASSUME NEW y, Waits(y) PROVE Waits(y)'
    <3>1. PICK n \in 1 .. k : calls[n].below /\ At(calls[n]) = y
      BY <2>5 DEF Waits, k
    <3>2. n # k /\ n \in 1 .. k - 1 /\ n \in 1 .. Len(calls')
      BY <1>1, <1>4, <3>1
    <3> QED
      BY <1>4, <3>1, <3>2 DEF Waits, At
  <2>6. \A x \in Listing :
          \/ x[1] = 0
          \/ \E y \in DOMAIN conf.secondary :
               conf.secondary[y] = x[1] /\ (y \in Listing \/ Waits(y)')
    BY <2>1, <2>5 DEF Once
  <2>7. \A n \in 1 .. Len(calls'), x \in Listing' : x[1] = calls'[n].bus => Passed(x, calls'[n])
    BY <1>4, <1>9, <2>4
  <2> QED
    BY <1>1, <1>9, <2>2, <2>6, <2>7 DEF Once, Passed
<1> QED
  <2>1. IsInjective(vector)' <=> IsInjective(vector)
    BY <1>1
  <2> QED
    BY <1>1, <1>8, <1>9, <1>10, <1>11, <1>12, <1>13, <2>1 DEF ScanFinds, Multi

\* The end of a bus: everything that can be seen on it is in the vector.
LEMMA ReturnFinds ==
  ASSUME Inv, ScanFinds, ReturnFromBus
  PROVE  ScanFinds'
<1> DEFINE k == Len(calls)
<1>1. /\ calls # <<>> /\ Top.dev > MaxDevice /\ UNCHANGED <<conf, scan, host, vector>>
      /\ Climbing /\ k \in Nat /\ k > 0 /\ k \in 1 .. Len(calls) /\ Top \in Call /\ Top = calls[k]
      /\ calls \in Seq(Call) /\ scan = "hosts" /\ host > 0 /\ Sound
  BY TopIsCall DEF ReturnFromBus, Inv, Top, ScanFinds, Hosts
<1>2. /\ Len(calls') = k - 1 /\ (calls' # <<>> => k > 1 /\ Top' = calls[k - 1])
      /\ \A n \in 1 .. k - 1 : calls'[n] = calls[n]
  <2>1. calls' = SubSeq(calls, 1, k - 1)
    BY DEF ReturnFromBus, Front
  <2>2. \A n \in 1 .. k - 1 : calls'[n] = calls[n]
    BY <1>1, <2>1
  <2>3. Len(calls') = k - 1 /\ calls' \in Seq(Call)
    <3> DEFINE m == k - 1
    <3>1. m \in Nat /\ k = m + 1
      BY <1>1
    <3> HIDE DEF k, m
    <3>2. Len(SubSeq(calls, 1, m)) = IF 1 <= m THEN m - 1 + 1 ELSE 0
      BY <1>1, <3>1, SubSeqProperties DEF k
    <3>3. calls' = SubSeq(calls, 1, m)
      BY <2>1 DEF m
    <3>4. Len(calls') = m
      BY <3>1, <3>2, <3>3
    <3>5. calls' \in Seq(Call)
      BY <1>1, <3>1, <3>3 DEF k
    <3> QED
      BY <3>4, <3>5 DEF m
  <2> HIDE DEF k
  <2>4. calls' # <<>> => k > 1
    BY <1>1, <2>3
  <2>5. Top' = calls'[Len(calls')]
    BY DEF Top
  <2>6. k > 1 => k - 1 \in 1 .. k - 1
    BY <1>1
  <2> QED
    BY <2>2, <2>3, <2>4, <2>5, <2>6
<1>3. ~Top.below
  <2>1. OnReached(Top)
    BY <1>1 DEF Sound
  <2>2. Here \notin conf.present
    <3>1. Here \in conf.present => Top.dev \in 0 .. MaxDevice
      <4>1. Here[2] = Top.dev
        BY DEF Here
      <4> QED
        BY <4>1, Places
    <3>2. Top.dev \in Nat /\ MaxDevice \in Nat
      BY <1>1, PciAssumption DEF Call
    <3> QED
      BY <1>1, <3>1, <3>2
  <2> QED
    BY <2>1, <2>2 DEF OnReached, At, Here
<1>4. Listing' = Listing /\ Room' = Room /\ Listing \subseteq Reached
  BY <1>1 DEF Listing, Room, Sound
<1> HIDE DEF k
<1>5. \A n \in 1 .. k - 1 : n \in 1 .. Len(calls) /\ n \in 1 .. k
  BY <1>1 DEF k
<1>6. Hosts'
  BY <1>1 DEF ScanFinds, Hosts, Present, Multi
<1>7. Sound'
  <2>1. \A n \in 1 .. k - 1 : OnReached(calls'[n])
    BY <1>1, <1>2, <1>5 DEF Sound
  <2>2. \A n \in 1 .. k - 1 : OnReached(calls[n])'
    BY <1>1, <2>1, SameTopology DEF OnReached, Present, Multi, IsBridge, At
  <2> QED
    BY <1>1, <1>2, <1>4, <2>2, SameTopology DEF Sound
<1>8. Chain'
  <2>1. ASSUME NEW n \in 1 .. (k - 1) - 1
        PROVE  calls'[n].below /\ calls'[n + 1].bus = conf.secondary[At(calls'[n])]
    <3>1. n \in 1 .. k - 1 /\ n + 1 \in 1 .. k - 1 /\ n \in 1 .. Len(calls) - 1
      BY <1>1 DEF k
    <3> QED
      BY <1>2, <3>1 DEF ScanFinds, Chain
  <2> QED
    BY <1>1, <1>2, <2>1 DEF Chain, At
<1>9. ASSUME Room PROVE Complete'
  <2>1. Complete
    BY <1>9 DEF ScanFinds
  <2>2. \A c : Covered(c)' <=> Covered(c)
    BY <1>1, <1>4, SameTopology DEF Covered
  <2>3. Covered(Top.bus)
    <3> SUFFICES ASSUME NEW x \in conf.present, x[1] = Top.bus, Visible(x) PROVE x \in Listing
      BY DEF Covered
    <3>1. x[2] < Top.dev
      <4>1. x[2] \in 0 .. MaxDevice /\ Top.dev \in Nat /\ MaxDevice \in Nat
        BY <1>1, Places, PciAssumption DEF Call
      <4> QED
        BY <1>1, <4>1
    <3>2. Passed(x, Top)
      BY <3>1 DEF Passed
    <3> QED
      BY <1>1, <2>1, <3>2 DEF Complete
  <2>4. calls' # <<>> => Covered(conf.secondary[At(calls[k - 1])]) /\ At(calls[k - 1]) = Here'
    <3> SUFFICES ASSUME calls' # <<>>
                 PROVE  Covered(conf.secondary[At(calls[k - 1])]) /\ At(calls[k - 1]) = Here'
      OBVIOUS
    <3>1. k - 1 \in 1 .. Len(calls) - 1 /\ (k - 1) + 1 = k
      BY <1>1, <1>2 DEF k
    <3>2. calls[k].bus = conf.secondary[At(calls[k - 1])]
      BY <3>1 DEF ScanFinds, Chain
    <3>3. Here' = At(calls[k - 1])
      BY <1>2 DEF Here, At
    <3> QED
      BY <1>1, <2>3, <3>2, <3>3
  <2>5. \A h \in 0 .. host - 1 : Covered(h) \/ (calls' # <<>> /\ calls'[1].bus = h)
    <3> TAKE h \in 0 .. host - 1
    <3>1. Covered(h) \/ calls[1].bus = h
      BY <1>1, <2>1 DEF Complete
    <3>2. CASE k = 1
      BY <1>1, <2>3, <3>1, <3>2
    <3>3. CASE k # 1
      <4>1. 1 \in 1 .. k - 1 /\ calls' # <<>>
        BY <1>1, <1>2, <3>3
      <4> QED
        BY <1>2, <3>1, <4>1
    <3> QED
      BY <3>2, <3>3
  <2>6. \A n \in 1 .. Len(calls'), x \in conf.present' :
           Passed(x, calls'[n]) /\ Visible(x)' => x \in Listing'
    BY <1>1, <1>2, <1>4, <1>5, <2>1, SameTopology DEF Complete
  <2>7. \A x \in Listing' : IsBridge(x)' => Covered(conf.secondary[x])'
    BY <1>1, <1>4, <2>1, <2>2, SameTopology DEF Complete
  <2>8. calls' # <<>> => Covered(conf.secondary[Here])'
    <3>1. \A c : Covered(c) => \A x \in conf.present' : x[1] = c /\ Visible(x)' => x \in Listing'
      BY <1>1, <1>4, SameTopology DEF Covered
    <3>2. calls' # <<>> => Covered(conf.secondary[Here]')
      BY <1>1, <2>4
    <3> HIDE DEF Covered
    <3>3. calls' # <<>> => \A x \in conf.present' :
                             x[1] = conf.secondary[Here]' /\ Visible(x)' => x \in Listing'
      BY <3>1, <3>2
    <3> QED
      BY <3>3 DEF Covered
  <2>9. \A h \in 0 .. host - 1 : Covered(h)' \/ (calls' # <<>> /\ calls'[1].bus = h)
    BY <2>2, <2>5
  <2> QED
    BY <1>1, <2>6, <2>7, <2>8, <2>9 DEF Complete, Passed, Covered
<1>10. ASSUME ~Multi(0, 0), Room PROVE Once'
  <2>1. Once
    BY <1>10 DEF ScanFinds
  <2>2. host' # 0
    BY <1>1 DEF Inv
  <2>3. calls' # <<>> => calls'[1].bus = 0
    <3>1. calls' # <<>> => 1 \in 1 .. k - 1
      BY <1>1, <1>2
    <3> QED
      BY <1>1, <1>2, <2>1, <3>1 DEF Once
  <2>4. ASSUME NEW y, Waits(y) PROVE Waits(y)'
    <3>1. PICK n \in 1 .. k : calls[n].below /\ At(calls[n]) = y
      BY <2>4 DEF Waits, k
    <3>2. n # k /\ n \in 1 .. k - 1 /\ n \in 1 .. Len(calls')
      BY <1>1, <1>2, <1>3, <3>1
    <3> QED
      BY <1>2, <3>1, <3>2 DEF Waits, At
  <2>5. \A x \in Listing :
          \/ x[1] = 0
          \/ \E y \in DOMAIN conf.secondary :
               conf.secondary[y] = x[1] /\ (y \in Listing \/ Waits(y)')
    BY <2>1, <2>4 DEF Once
  <2>6. \A n \in 1 .. Len(calls'), x \in Listing' : x[1] = calls'[n].bus => Passed(x, calls'[n])
    BY <1>2, <1>4, <1>5, <2>1 DEF Once
  <2> QED
    BY <1>1, <1>4, <2>2, <2>3, <2>5, <2>6 DEF Once, Passed
<1> QED
  <2>1. IsInjective(vector)' <=> IsInjective(vector)
    BY <1>1
  <2> QED
    BY <1>1, <1>4, <1>6, <1>7, <1>8, <1>9, <1>10, <2>1 DEF ScanFinds, Multi

\* Before the first bus, between two of them and after the last.
LEMMA HostsFind ==
  ASSUME Inv, ScanFinds, pci_recursive_scan \/ ScanHost \/ NoMoreHosts
  PROVE  ScanFinds'
<1>1. conf' = conf /\ host \in Nat /\ MaxFunction \in Nat /\ MaxDevices \in Nat
  BY PciAssumption DEF pci_recursive_scan, ScanHost, NoMoreHosts, Inv
<1>2. CASE pci_recursive_scan
  <2>1. /\ scan = "off" /\ scan' = "hosts" /\ vector' = <<>> /\ host' = 0 /\ calls' = calls
        /\ calls = <<>> /\ Len(calls) = 0
    BY <1>2 DEF pci_recursive_scan, ScanFinds, Hosts
  <2>2. Listing' = {}
    BY <2>1 DEF Listing, ToSet
  <2>3. Hosts' /\ Sound' /\ Chain'
    BY <1>1, <2>1, <2>2 DEF Hosts, Sound, Chain
  <2>4. Complete'
    BY <1>1, <2>1, <2>2 DEF Complete
  <2>5. Once'
    BY <1>1, <2>1, <2>2 DEF Once
  <2>6. IsInjective(vector')
    BY <2>1 DEF IsInjective
  <2> QED
    BY <2>3, <2>4, <2>5, <2>6 DEF ScanFinds, IsInjective
<1>3. CASE ScanHost
  <2> DEFINE e == Enter(host)
  <2>1. /\ calls = <<>> /\ host <= MaxFunction /\ HostHere /\ scan = "hosts"
        /\ calls' = <<e>> /\ host' = host + 1 /\ UNCHANGED <<scan, vector>>
    BY <1>3 DEF ScanHost
  <2>2. e.bus = host /\ e.dev = 0 /\ e.fun = 0 /\ e.below = FALSE
    BY DEF Enter
  <2> HIDE DEF e
  <2>3. Len(calls') = 1 /\ calls'[1] = e /\ calls' # <<>> /\ Top' = e /\ Len(calls) = 0
    BY <2>1 DEF Top
  <2>4. Listing' = Listing /\ Room' = Room
    BY <2>1 DEF Listing, Room
  <2>5. \A h \in 0 .. host : h \in 0 .. host - 1 \/ h = host
    BY <1>1
  <2>6. \A h \in 0 .. host : h <= MaxFunction /\ Present(0, 0, h) /\ (h = 0 \/ Multi(0, 0))
    BY <2>1, <2>5 DEF ScanFinds, Hosts, HostHere
  <2>7. Hosts'
    <3>1. host' - 1 = host /\ host' > 0
      BY <1>1, <2>1
    <3> QED
      BY <1>1, <2>1, <2>6, <3>1 DEF Hosts, Present, Multi
  <2>8. Sound'
    <3>1. host \in Bus => host \in ReachedBuses
      <4>1. host \in Bus => host \in HostBuses
        BY <2>1, <2>6 DEF HostBuses
      <4> QED
        BY <4>1, Places, ReachedIsClosed DEF IsClosed
    <3>2. OnReached(e)
      BY <2>2, <3>1 DEF OnReached
    <3>3. \A n \in 1 .. 1 : OnReached(calls'[n])
      BY <2>3, <3>2
    <3>4. \A n \in 1 .. 1 : OnReached(calls[n])'
      BY <1>1, <3>3, SameTopology DEF OnReached, Present, Multi, IsBridge, At
    <3> QED
      BY <1>1, <2>3, <2>4, <3>4, SameTopology DEF ScanFinds, Sound
  <2>9. Chain'
    BY <2>3 DEF Chain
  <2>10. ASSUME Room PROVE Complete'
    <3>1. Complete /\ \A c : Covered(c)' <=> Covered(c)
      BY <1>1, <2>4, <2>10, SameTopology DEF ScanFinds, Covered
    <3>2. ASSUME NEW x \in conf.present, Passed(x, e) PROVE FALSE
      <4>1. x[2] \in Nat /\ x[3] \in Nat
        BY Places
      <4> QED
        BY <2>2, <3>2, <4>1 DEF Passed
    <3>3. \A n \in 1 .. Len(calls'), x \in conf.present' :
             Passed(x, calls'[n]) /\ Visible(x)' => x \in Listing'
      BY <1>1, <2>3, <3>2
    <3>4. \A x \in Listing' : IsBridge(x)' => Covered(conf.secondary[x])'
      BY <1>1, <2>4, <3>1, SameTopology DEF Complete
    <3>5. \A h \in 0 .. host' - 1 : Covered(h)' \/ (calls' # <<>> /\ calls'[1].bus = h)
      <4>1. host' - 1 = host
        BY <1>1, <2>1
      <4> QED
        BY <2>1, <2>2, <2>3, <2>5, <3>1, <4>1 DEF Complete
    <3> QED
      BY <2>1, <2>2, <2>3, <3>3, <3>4, <3>5 DEF Complete, Passed, Covered
  <2>11. ASSUME ~Multi(0, 0), Room PROVE Once'
    <3>1. Once /\ host = 0
      BY <2>1, <2>11 DEF ScanFinds, HostHere
    <3>2. Listing' = {}
      BY <2>1, <2>4, <3>1 DEF Once, Listing, ToSet
    <3> QED
      BY <2>1, <2>2, <2>3, <3>1, <3>2 DEF Once
  <2>12. IsInjective(vector)' <=> IsInjective(vector)
    BY <2>1
  <2> QED
    BY <1>1, <2>4, <2>7, <2>8, <2>9, <2>10, <2>11, <2>12 DEF ScanFinds, Multi
<1>4. CASE NoMoreHosts
  <2>1. /\ calls = <<>>
        /\ host > MaxFunction \/ ~HostHere
        /\ scan = "hosts" /\ scan' = "done" /\ UNCHANGED <<host, calls, vector>> /\ Len(calls) = 0
    BY <1>4 DEF NoMoreHosts
  <2>2. Listing' = Listing /\ Room' = Room
    BY <2>1 DEF Listing, Room
  <2>3. Hosts' /\ Chain'
    BY <2>1 DEF Hosts, Chain
  <2>4. Sound'
    BY <1>1, <2>1, <2>2, SameTopology DEF ScanFinds, Sound
  <2>5. \A h \in HostBuses : h \in 0 .. host - 1
    <3> TAKE h \in HostBuses
    <3>1. h \in Nat /\ h <= MaxFunction /\ \A f \in 0 .. h : Present(0, 0, f) /\ (f = 0 \/ Multi(0, 0))
      BY PciAssumption DEF HostBuses, Bus
    <3>2. h < host
      <4> SUFFICES ASSUME ~(h < host) PROVE FALSE
        OBVIOUS
      <4>1. host \in 0 .. h /\ ~(host > MaxFunction)
        BY <1>1, <3>1
      <4> QED
        BY <2>1, <3>1, <4>1 DEF HostHere
    <3> QED
      BY <1>1, <3>1, <3>2
  <2>6. ASSUME Room PROVE Complete'
    <3>1. Complete /\ \A c : Covered(c)' <=> Covered(c)
      BY <1>1, <2>2, <2>6, SameTopology DEF ScanFinds, Covered
    <3>2. \A h \in HostBuses : Covered(h)
      BY <2>1, <2>5, <3>1 DEF Complete
    <3>3. \A h \in HostBuses' : Covered(h)'
      BY <1>1, <3>1, <3>2, SameTopology
    <3>4. \A x \in Listing' : IsBridge(x)' => Covered(conf.secondary[x])'
      BY <1>1, <2>2, <3>1, SameTopology DEF Complete
    <3> QED
      BY <2>1, <3>3, <3>4 DEF Complete
  <2>7. ASSUME ~Multi(0, 0), Room PROVE Once'
    <3>1. Once
      BY <2>7 DEF ScanFinds
    <3>2. \A y : Waits(y)' <=> Waits(y)
      BY <2>1 DEF Waits
    <3> QED
      BY <1>1, <2>1, <2>2, <3>1, <3>2 DEF Once
  <2>8. IsInjective(vector)' <=> IsInjective(vector)
    BY <2>1
  <2> QED
    BY <1>1, <2>2, <2>3, <2>4, <2>6, <2>7, <2>8 DEF ScanFinds, Multi
<1> QED
  BY <1>2, <1>3, <1>4

\* Nothing is called or listed before the scan starts.
LEMMA InitFinds == Init => ScanFinds
<1> SUFFICES ASSUME Init PROVE ScanFinds
  OBVIOUS
<1>1. /\ scan = "off" /\ host = 0 /\ calls = <<>> /\ vector = <<>>
      /\ Len(calls) = 0 /\ Listing = {} /\ IsInjective(vector)
  BY DEF Init, PciInit, Listing, ToSet, IsInjective
<1> QED
  BY <1>1 DEF ScanFinds, Hosts, Sound, Chain, Complete, Once

\* Every step keeps what the scan has found.
LEMMA NextFinds == Inv /\ ScanFinds /\ [Next]_vars => ScanFinds'
<1> SUFFICES ASSUME Inv, ScanFinds, [Next]_vars PROVE ScanFinds'
  OBVIOUS
<1>1. CASE UNCHANGED pciVars
  <2>1. UNCHANGED <<conf, scan, host, calls, vector>>
    BY <1>1 DEF pciVars
  <2>2. Listing' = Listing /\ Room' = Room /\ Here' = Here /\ Top' = Top
    BY <2>1 DEF Listing, Room, Here, Top
  <2>3. /\ \A x : Passed(x, Top)' <=> Passed(x, Top)
        /\ \A y : Waits(y)' <=> Waits(y)
        /\ \A b : Covered(b)' <=> Covered(b)
    BY <2>1, <2>2, SameTopology DEF Passed, Waits, Covered
  <2>4. Hosts' /\ Chain'
    BY <2>1 DEF ScanFinds, Hosts, Chain, Present, Multi
  <2>5. Sound'
    BY <2>1, <2>2, SameTopology DEF ScanFinds, Sound
  <2>6. Complete => Complete'
    BY <2>1, <2>2, <2>3, SameTopology DEF Complete
  <2>7. Once => Once'
    BY <2>1, <2>2, <2>3 DEF Once
  <2>8. IsInjective(vector)' <=> IsInjective(vector)
    BY <2>1
  <2> QED
    BY <2>1, <2>2, <2>4, <2>5, <2>6, <2>7, <2>8 DEF ScanFinds, Multi
<1>2. CASE PciNext
  BY <1>2, HostsFind, SkipFinds, AddFinds, DownFinds, ReturnFinds DEF PciNext
<1> QED
  BY <1>1, <1>2 DEF Next, Scan, pci_ahci_get_abar, NoController, MapRegisters, Done, vars

\* The scan finds every function that host bridges and bridges lead to and no other,
\* in every configuration space, and with one host bridge it lists none twice: the
\* loops of pci_recursive_scan, pci_bus_scan, pci_device_scan and pci_function_scan
\* leave nothing out, and pci_vector_dev_add stores nothing behind the array.
THEOREM FindsEveryFunctionHolds == Spec => []FindsEveryFunction
<1>1. Inv /\ ScanFinds => FindsEveryFunction
  <2> SUFFICES ASSUME Inv, ScanFinds PROVE FindsEveryFunction
    OBVIOUS
  <2>1. Listing \subseteq Reached /\ Len(vector) <= MaxDevices
        /\ (~Multi(0, 0) => IsInjective(vector))
    BY DEF ScanFinds, Sound, Inv, Listed
  <2>2. ASSUME scan = "done", Room PROVE Reached \subseteq Listing
    <3> DEFINE S == {b \in Bus : Covered(b)}
    <3>1. Complete
      BY <2>2 DEF ScanFinds
    <3>2. HostBuses \subseteq S
      BY <2>2, <3>1 DEF Complete, HostBuses
    <3>3. ASSUME NEW x \in DOMAIN conf.secondary, Visible(x), x[1] \in S
          PROVE  conf.secondary[x] \in S
      <4>1. x \in conf.present /\ conf.secondary[x] \in Bus
        BY Places DEF IsTopology
      <4>2. x \in Listing
        BY <3>3, <4>1 DEF Covered
      <4>3. Covered(conf.secondary[x])
        BY <3>1, <4>2 DEF Complete, IsBridge
      <4> QED
        BY <4>1, <4>3
    <3>4. IsClosed(S) /\ S \in SUBSET Bus
      BY <3>2, <3>3 DEF IsClosed
    <3>5. ReachedBuses \subseteq S
      <4> HIDE DEF S
      <4> QED
        BY <3>4 DEF ReachedBuses
    <3> QED
      BY <3>5 DEF Reached, Covered
  <2> QED
    BY <2>1, <2>2 DEF FindsEveryFunction, Listing, Room
<1>2. Spec => []ScanFinds
  <2>1. Spec => []Inv
    BY InvHolds
  <2> QED
    BY <2>1, InitFinds, NextFinds, PTL DEF Spec
<1> QED
  BY <1>1, <1>2, InvHolds, PTL


-----------------------------------------------------------------------------
(***************************************************************************)
(* The page of the registers                                               *)
(***************************************************************************)

\* The registers lie in the first table of the third level but not in its first
\* entry: beyond the gigabyte that boot.asm maps with huge pages and below 512
\* gigabytes, where every 32-bit address of a PCI device is.  And boot.asm reserves
\* more than one table for the second level (6).
RegistersBeyondBootMap ==
  /\ P2Tables > 1
  /\ BarPages \subseteq Entries * Entries .. Entries * Entries * Entries - 1

\* Where the tables lie: the second one of the second level and the first one of
\* the first level, which pmap allocates, are in the image.
LEMMA Layout ==
  ASSUME P2Tables > 1
  PROVE  /\ Entries \in Nat \ {0}
         /\ P1 \in Nat /\ P1 >= 4 * Entries
         /\ End \in Nat /\ End >= P1 + Entries
         /\ \A a \in {0, Entries, 2 * Entries, 3 * Entries, P1} : Aligned(a) = a
<1>1. Entries \in Nat \ {0} /\ P2Tables \in Nat \ {0, 1} /\ P1Tables \in Nat \ {0}
  BY PageMapAssumption
<1>2. Entries * 2 <= Entries * P2Tables /\ Entries * P2Tables \in Nat
  <2>1. Entries * 1 + Entries <= Entries * P2Tables
    BY <1>1, OneMore
  <2> QED
    BY <1>1, <2>1, Times
<1>3. Entries <= Entries * P1Tables /\ Entries * P1Tables \in Nat
  <2>1. Entries * 0 + Entries <= Entries * P1Tables
    BY <1>1, OneMore
  <2> QED
    BY <1>1, <2>1, Times
<1>4. P1 = 2 * Entries + Entries * P2Tables /\ End = P1 + Entries * P1Tables
  BY <1>1 DEF P1, P2, End
<1>5. \A n \in Nat : Aligned(Entries * n) = Entries * n
  <2> TAKE n \in Nat
  <2>1. (Entries * n + 0) % Entries = 0 /\ Entries * n \in Nat
    BY <1>1, QuotientOf, Times
  <2> QED
    BY <1>1, <2>1 DEF Aligned
<1>6. /\ Entries * 0 = 0 /\ Entries * 1 = Entries /\ Entries * 2 = 2 * Entries
      /\ Entries * 3 = 3 * Entries /\ Entries * (2 + P2Tables) = P1
  BY <1>1, <1>4
<1>7. Aligned(0) = 0 /\ Aligned(Entries) = Entries /\ Aligned(2 * Entries) = 2 * Entries
  <2>1. /\ Aligned(Entries * 0) = Entries * 0
        /\ Aligned(Entries * 1) = Entries * 1
        /\ Aligned(Entries * 2) = Entries * 2
    BY <1>5
  <2> QED
    BY <1>6, <2>1, Zenon
<1>8. Aligned(3 * Entries) = 3 * Entries /\ Aligned(P1) = P1
  <2>1. Aligned(Entries * 3) = Entries * 3
    BY <1>5
  <2>2. Aligned(Entries * (2 + P2Tables)) = Entries * (2 + P2Tables)
    <3>1. 2 + P2Tables \in Nat
      BY <1>1
    <3> QED
      BY <1>5, <3>1, Zenon
  <2> QED
    BY <1>6, <2>1, <2>2, Zenon
<1> QED
  BY <1>1, <1>2, <1>3, <1>4, <1>7, <1>8

\* The four indices of a page.
LEMMA Indices ==
  ASSUME NEW v \in Page
  PROVE  \A level \in 1 .. 4 : IndexAt(level, v) \in Index
<1> DEFINE E == Entries
<1>1. E \in Nat \ {0} /\ v \in Nat /\ E * E \in Nat \ {0} /\ E * E * E \in Nat \ {0}
  BY PageMapAssumption, Times DEF Page
<1> HIDE DEF E
<1>2. IndexAt(1, v) \in 0 .. E - 1
  BY <1>1, DivMod DEF IndexAt, E
<1>3. (v \div E) % E \in 0 .. E - 1
  BY <1>1, DivMod
<1>4. (v \div (E * E)) % E \in 0 .. E - 1
  BY <1>1, DivMod
<1>5. v \div (E * E * E) \in 0 .. E - 1
  <2>1. v < (E * E * E) * E
    <3> DEFINE y == (E * E * E) * E
    <3>1. y \in Nat /\ v \in 0 .. y - 1
      BY <1>1, Times DEF Page, E
    <3> HIDE DEF y
    <3>2. v < y
      BY <3>1
    <3> QED
      BY <3>2 DEF y
  <2>2. v \div (E * E * E) < E
    BY <1>1, <2>1, QuotientBelow
  <2>3. v \div (E * E * E) \in Nat
    BY <1>1, DivMod
  <2> QED
    BY <1>1, <2>2, <2>3
<1> QED
  BY <1>2, <1>3, <1>4, <1>5 DEF IndexAt, Index, E

\* Two pages with the same indices are the same.
LEMMA SamePage ==
  ASSUME NEW v \in Page, NEW w \in Page,
         \A level \in 1 .. 4 : IndexAt(level, v) = IndexAt(level, w)
  PROVE  v = w
<1> DEFINE E == Entries
<1>1. E \in Nat \ {0} /\ v \in Nat /\ w \in Nat /\ E * E \in Nat \ {0}
  BY PageMapAssumption, Times DEF Page
<1>2. /\ v \div (E * E * E) = w \div (E * E * E)
      /\ (v \div (E * E)) % E = (w \div (E * E)) % E
      /\ (v \div E) % E = (w \div E) % E
      /\ v % E = w % E
  BY DEF IndexAt
<1> HIDE DEF E
<1>3. \A x \in Nat : /\ x \div (E * E) = (x \div E) \div E
                     /\ x \div (E * E * E) = (x \div (E * E)) \div E
  <2>1. \A x \in Nat : x \div (E * E) = (x \div E) \div E
    BY <1>1, DivDiv
  <2>2. \A x \in Nat : x \div (E * E * E) = (x \div (E * E)) \div E
    BY <1>1, DivDiv
  <2> QED
    BY <2>1, <2>2
<1>4. \A x, y \in Nat : x \div E = y \div E /\ x % E = y % E => x = y
  <2> TAKE x, y \in Nat
  <2>1. x = E * (x \div E) + (x % E)
    BY <1>1, DivMod
  <2>2. y = E * (y \div E) + (y % E)
    BY <1>1, DivMod
  <2> QED
    BY <2>1, <2>2
<1>5. \A x \in Nat : x \div E \in Nat /\ x \div (E * E) \in Nat
  BY <1>1, DivMod
<1>6. v \div (E * E) = w \div (E * E)
  <2> DEFINE x == v \div (E * E)
             y == w \div (E * E)
  <2>1. x \div E = y \div E /\ x % E = y % E /\ x \in Nat /\ y \in Nat
    BY <1>1, <1>2, <1>3, <1>5
  <2> HIDE DEF x, y
  <2>2. x = y
    BY <1>4, <2>1
  <2> QED
    BY <2>2 DEF x, y
<1>7. v \div E = w \div E
  <2> DEFINE x == v \div E
             y == w \div E
  <2>1. x \div E = y \div E /\ x % E = y % E /\ x \in Nat /\ y \in Nat
    BY <1>1, <1>2, <1>3, <1>5, <1>6
  <2> HIDE DEF x, y
  <2>2. x = y
    BY <1>4, <2>1
  <2> QED
    BY <2>2 DEF x, y
<1> QED
  BY <1>1, <1>2, <1>4, <1>7

\* The indices of a page beyond the first gigabyte.
LEMMA BeyondFirst ==
  ASSUME NEW p \in Entries * Entries .. Entries * Entries * Entries - 1
  PROVE  /\ p \in Page
         /\ IndexAt(4, p) = 0 /\ IndexAt(3, p) # 0
<1> DEFINE E == Entries
<1>1. E \in Nat \ {0} /\ E * E \in Nat \ {0} /\ E * E * E \in Nat \ {0} /\ p \in Nat
  BY PageMapAssumption, Times
<1>2. p >= E * E /\ p < E * E * E
  <2> DEFINE x == E * E
             y == E * E * E
  <2>1. x \in Nat /\ y \in Nat /\ p \in x .. y - 1
    BY <1>1
  <2> HIDE DEF x, y
  <2>2. p >= x /\ p < y
    BY <2>1
  <2> QED
    BY <2>2 DEF x, y
<1>3. p \in Page
  <2>1. (E * E * E) * 1 <= (E * E * E) * E
    <3> DEFINE c == E * E * E
    <3>1. c \in Nat
      BY <1>1
    <3> HIDE DEF c, E
    <3>2. E = 1 \/ 1 < E
      BY <1>1
    <3>3. CASE 1 < E
      <4>1. c * 1 + c <= c * E
        BY <1>1, <3>1, <3>3, OneMore
      <4>2. c * E \in Nat
        BY <1>1, <3>1, Times
      <4> QED
        BY <3>1, <4>1, <4>2 DEF c
    <3> QED
      BY <1>1, <3>1, <3>2, <3>3 DEF c
  <2> QED
    BY <1>1, <1>2, <2>1 DEF Page
<1> HIDE DEF E
<1> DEFINE q == p \div (E * E)
<1>4. p \div (E * E * E) = 0
  <2>1. p < (E * E * E) * 1
    BY <1>1, <1>2
  <2>2. p \div (E * E * E) < 1 /\ p \div (E * E * E) \in Nat
    BY <1>1, <2>1, QuotientBelow, DivMod
  <2> QED
    BY <2>2
<1>5. q < E /\ q \in Nat
  BY <1>1, <1>2, QuotientBelow, DivMod
<1>6. q # 0
  <2>1. p % (E * E) \in 0 .. E * E - 1 /\ p = (E * E) * q + (p % (E * E))
    BY <1>1, DivMod
  <2> HIDE DEF q
  <2> SUFFICES ASSUME q = 0 PROVE FALSE
    OBVIOUS
  <2>2. (E * E) * q = 0
    BY <1>1
  <2> DEFINE r == p % (E * E)
             s == E * E
  <2>3. r \in 0 .. s - 1 /\ p = 0 + r /\ p >= s /\ s \in Nat
    BY <1>1, <1>2, <2>1, <2>2
  <2> HIDE DEF r, s
  <2> QED
    BY <2>3
<1>7. q % E = q
  <2> HIDE DEF q
  <2>1. (E * 0 + q) % E = q
    BY <1>1, <1>5, QuotientOf
  <2> QED
    BY <1>1, <1>5, <2>1
<1> QED
  BY <1>3, <1>4, <1>6, <1>7 DEF IndexAt, E

\* What boot.asm leaves in the entries that the walks below read.
LEMMA BootEntries ==
  ASSUME P2Tables > 1
  PROVE  /\ DOMAIN BootTables = 0 .. End - 1
         /\ BootTables[0] = Link(Entries)
         /\ BootTables[Entries] = Link(2 * Entries)
         /\ \A n \in Index : BootTables[2 * Entries + n] = Huge(n * Entries)
         /\ \A a \in 0 .. End - 1 :
              a \notin {0, Entries} /\ a \notin 2 * Entries .. 3 * Entries - 1
                => BootTables[a] = Absent
<1>1. /\ Entries \in Nat \ {0} /\ P1 \in Nat /\ P1 >= 4 * Entries
      /\ End \in Nat /\ End >= P1 + Entries
  BY Layout
<1>2. P4 = 0 /\ P3 = Entries /\ P2 = 2 * Entries
  BY DEF P4, P3, P2
<1>3. BootTables[0] = Link(Entries)
  BY <1>1, <1>2 DEF BootTables
<1>4. BootTables[Entries] = Link(2 * Entries)
  BY <1>1, <1>2 DEF BootTables
<1>5. ASSUME NEW n \in Index PROVE BootTables[2 * Entries + n] = Huge(n * Entries)
  <2> DEFINE a == 2 * Entries + n
  <2>1. a \in 0 .. End - 1 /\ a \in P2 .. P2 + Entries - 1 /\ a # P4 /\ a # P3 /\ a - P2 = n
    BY <1>1, <1>2 DEF Index
  <2> HIDE DEF a
  <2>2. BootTables[a] = Huge((a - P2) * Entries)
    BY <2>1 DEF BootTables
  <2> QED
    BY <2>1, <2>2 DEF a
<1>6. ASSUME NEW a \in 0 .. End - 1, a \notin {0, Entries},
             a \notin 2 * Entries .. 3 * Entries - 1
      PROVE  BootTables[a] = Absent
  <2>1. a # P4 /\ a # P3 /\ a \notin P2 .. P2 + Entries - 1
    BY <1>1, <1>2, <1>6
  <2> QED
    BY <2>1 DEF BootTables
<1> QED
  BY <1>3, <1>4, <1>5, <1>6 DEF BootTables

\* palloc returns the first entry that is not present.
LEMMA PallocIs ==
  ASSUME NEW m, NEW base \in Nat, NEW x \in base .. End, End \in Nat,
         DOMAIN m = 0 .. End - 1, x \in DOMAIN m, ~m[x].present,
         \A b \in base .. x - 1 : m[b].present
  PROVE  palloc(m, base) = x
<1> DEFINE Fits(a) == /\ a \in DOMAIN m => ~m[a].present
                      /\ \A b \in base .. a - 1 : m[b].present
<1>1. Fits(x)
  OBVIOUS
<1>2. ASSUME NEW a \in base .. End, Fits(a) PROVE a = x
  <2>1. ~(a < x)
    <3> SUFFICES ASSUME a < x PROVE FALSE
      OBVIOUS
    <3>1. a \in base .. x - 1 /\ a \in DOMAIN m
      OBVIOUS
    <3> QED
      BY <1>2, <3>1
  <2>2. ~(x < a)
    <3> SUFFICES ASSUME x < a PROVE FALSE
      OBVIOUS
    <3>1. x \in base .. a - 1
      OBVIOUS
    <3> QED
      BY <1>2, <3>1
  <2> QED
    BY <2>1, <2>2
<1> QED
  BY <1>1, <1>2 DEF palloc

\* The tables after pmap on the tables of boot.asm: three entries are new.
Mapped(p) ==
  LET a3 == Entries + IndexAt(3, p)
      a2 == 3 * Entries + IndexAt(2, p)
      a1 == P1 + IndexAt(1, p)
  IN  [[[BootTables EXCEPT ![a3] = Link(3 * Entries)] EXCEPT ![a2] = Link(P1)]
         EXCEPT ![a1] = Link(p)]

LEMMA PmapOnBootTables ==
  ASSUME P2Tables > 1, mem = BootTables, ~stray,
         NEW p \in Entries * Entries .. Entries * Entries * Entries - 1,
         pmap(p, p)
  PROVE  mem' = Mapped(p) /\ ~stray'
<1> DEFINE j1 == IndexAt(1, p)
           j2 == IndexAt(2, p)
           j3 == IndexAt(3, p)
           m3 == [BootTables EXCEPT ![Entries + j3] = Link(3 * Entries)]
           m2 == [m3 EXCEPT ![3 * Entries + j2] = Link(P1)]
<1>1. /\ j1 \in Index /\ j2 \in Index /\ j3 \in Index /\ j3 # 0 /\ IndexAt(4, p) = 0
  BY BeyondFirst, Indices
<1>2. /\ Entries \in Nat \ {0} /\ P1 \in Nat /\ P1 >= 4 * Entries
      /\ End \in Nat /\ End >= P1 + Entries
      /\ Aligned(Entries) = Entries
  BY Layout
<1>3. P4 = 0 /\ P3 = Entries /\ P2 = 2 * Entries
  BY DEF P4, P3, P2
<1>4. /\ DOMAIN BootTables = 0 .. End - 1
      /\ BootTables[0] = Link(Entries)
      /\ \A n \in Index : BootTables[2 * Entries + n] = Huge(n * Entries)
      /\ \A a \in 0 .. End - 1 :
           a \notin {0, Entries} /\ a \notin 2 * Entries .. 3 * Entries - 1
             => BootTables[a] = Absent
  BY BootEntries
<1>5. /\ Table(mem, 0, P3) = Entries
      /\ Linked(mem, 0, P3) = BootTables
  BY <1>2, <1>4 DEF Table, Linked, Link
<1>6. ~BootTables[Entries + j3].present
  <2>1. /\ Entries + j3 \in 0 .. End - 1 /\ Entries + j3 \notin {0, Entries}
        /\ Entries + j3 \notin 2 * Entries .. 3 * Entries - 1
    BY <1>1, <1>2 DEF Index
  <2> QED
    BY <1>4, <2>1 DEF Absent
<1>7. palloc(BootTables, P2) = 3 * Entries
  <2>1. 3 * Entries \in 0 .. End - 1 /\ 3 * Entries \in P2 .. End
    BY <1>2, <1>3
  <2>2. ~BootTables[3 * Entries].present
    <3>1. 3 * Entries \notin {0, Entries} /\ 3 * Entries \notin 2 * Entries .. 3 * Entries - 1
      BY <1>2
    <3> QED
      BY <1>4, <2>1, <3>1 DEF Absent
  <2>3. ASSUME NEW b \in P2 .. 3 * Entries - 1 PROVE BootTables[b].present
    <3>1. b - 2 * Entries \in Index /\ b = 2 * Entries + (b - 2 * Entries)
      BY <1>2, <1>3 DEF Index
    <3>2. BootTables[b] = Huge((b - 2 * Entries) * Entries)
      BY <1>4, <3>1
    <3> QED
      BY <3>2 DEF Huge
  <2> QED
    BY <1>2, <1>3, <1>4, <2>1, <2>2, <2>3, PallocIs
<1>8. /\ Table(BootTables, Entries + j3, P2) = 3 * Entries
      /\ Linked(BootTables, Entries + j3, P2) = m3
  BY <1>6, <1>7 DEF Table, Linked
<1>9. /\ DOMAIN m3 = 0 .. End - 1
      /\ \A a \in 0 .. End - 1 : a >= 3 * Entries => m3[a] = Absent
  <2>1. Entries + j3 < 2 * Entries
    BY <1>1, <1>2 DEF Index
  <2>2. ASSUME NEW a \in 0 .. End - 1, a >= 3 * Entries PROVE m3[a] = Absent
    <3>1. a # Entries + j3 /\ a \notin {0, Entries} /\ a \notin 2 * Entries .. 3 * Entries - 1
      BY <1>1, <1>2, <2>1, <2>2 DEF Index
    <3> QED
      BY <1>4, <3>1
  <2> QED
    BY <1>4, <2>2
<1>10. 3 * Entries + j2 \in 0 .. End - 1 /\ 3 * Entries + j2 >= 3 * Entries
       /\ P1 \in 0 .. End - 1 /\ P1 >= 3 * Entries /\ P1 + j1 \in 0 .. End - 1
  BY <1>1, <1>2 DEF Index
<1> HIDE DEF j1, j2, j3, m3
<1>11. palloc(m3, P1) = P1
  <2>1. ~m3[P1].present /\ P1 \in P1 .. End
    BY <1>2, <1>9, <1>10 DEF Absent
  <2>2. \A b \in P1 .. P1 - 1 : m3[b].present
    BY <1>2
  <2> QED
    BY <1>2, <1>9, <1>10, <2>1, <2>2, PallocIs
<1>12. /\ ~m3[3 * Entries + j2].present
       /\ Table(m3, 3 * Entries + j2, P1) = P1
       /\ Linked(m3, 3 * Entries + j2, P1) = m2
  BY <1>9, <1>10, <1>11 DEF Table, Linked, Absent
<1>13. mem' = [m2 EXCEPT ![P1 + j1] = Link(p)] /\ ~stray'
  <2> DEFINE a4 == P4 + IndexAt(4, p)
             m4 == Linked(mem, a4, P3)
             a3 == Table(mem, a4, P3) + IndexAt(3, p)
             n3 == Linked(m4, a3, P2)
             a2 == Table(m4, a3, P2) + IndexAt(2, p)
             n2 == Linked(n3, a2, P1)
             a1 == Table(n3, a2, P1) + IndexAt(1, p)
  <2>1. a4 = 0
    BY <1>1, <1>3
  <2>2. m4 = BootTables /\ a3 = Entries + j3
    BY <1>5, <2>1, Zenon DEF j3
  <2>3. n3 = m3 /\ a2 = 3 * Entries + j2
    BY <1>8, <2>2, Zenon DEF j2
  <2>4. n2 = m2 /\ a1 = P1 + j1
    BY <1>12, <2>3, Zenon DEF j1
  <2>5. ~(n3[a2].present /\ n3[a2].huge) /\ a1 \in DOMAIN mem
    BY <1>4, <1>10, <1>12, <2>3, <2>4
  <2>6. /\ mem' = [n2 EXCEPT ![a1] = Link(p)]
        /\ ~stray'
    <3>1. /\ mem' = IF ~(n3[a2].present /\ n3[a2].huge) /\ a1 \in DOMAIN mem
                    THEN [n2 EXCEPT ![a1] = Link(p)] ELSE n2
          /\ stray' = (stray \/ ~(~(n3[a2].present /\ n3[a2].huge) /\ a1 \in DOMAIN mem))
      BY DEF pmap
    <3> HIDE DEF a1, a2, n2, n3
    <3> QED
      BY <2>5, <3>1
  <2> QED
    BY <2>4, <2>6, Zenon
<1> QED
  BY <1>13 DEF Mapped, m3, j1, j2, j3

\* The processor's walk through tables of this size.
LEMMA Walk ==
  ASSUME NEW m, DOMAIN m = 0 .. End - 1, P2Tables > 1, NEW v \in Page
  PROVE  LET e3 == m[Entries + IndexAt(3, v)]
         IN  /\ m[IndexAt(4, v)] = Absent => Translate(m, v) = NotMapped
             /\ IndexAt(4, v) = 0 /\ m[0] = Link(Entries) =>
                  /\ e3 = Absent => Translate(m, v) = NotMapped
                  /\ \A t \in {2 * Entries, 3 * Entries} :
                       LET e2 == m[t + IndexAt(2, v)] IN
                       e3 = Link(t) =>
                         /\ e2 = Absent => Translate(m, v) = NotMapped
                         /\ \A h : e2 = Huge(h) => Translate(m, v) = h + IndexAt(1, v)
                         /\ LET e1 == m[P1 + IndexAt(1, v)] IN
                            e2 = Link(P1) =>
                              /\ e1 = Absent => Translate(m, v) = NotMapped
                              /\ \A q : e1 = Link(q) => Translate(m, v) = q
<1> DEFINE k1 == IndexAt(1, v)
           k2 == IndexAt(2, v)
           k3 == IndexAt(3, v)
           k4 == IndexAt(4, v)
<1>1. k1 \in Index /\ k2 \in Index /\ k3 \in Index /\ k4 \in Index
  BY Indices
<1>2. /\ Entries \in Nat \ {0} /\ P1 \in Nat /\ P1 >= 4 * Entries
      /\ End \in Nat /\ End >= P1 + Entries
      /\ \A a \in {0, Entries, 2 * Entries, 3 * Entries, P1} : Aligned(a) = a
  BY Layout
<1> DEFINE Follow(table, k) ==
             IF Aligned(table) + k \in DOMAIN m THEN m[Aligned(table) + k] ELSE Absent
           e4 == Follow(P4, k4)
           e3 == Follow(e4.addr, k3)
           e2 == Follow(e3.addr, k2)
           e1 == Follow(e2.addr, k1)
<1>3. Translate(m, v) = IF ~e4.present \/ ~e3.present \/ ~e2.present THEN NotMapped
                        ELSE IF e2.huge THEN e2.addr + k1
                        ELSE IF e1.present THEN e1.addr ELSE NotMapped
  BY Zenon DEF Translate
<1>4. \A k \in Index : /\ Follow(0, k) = m[k]
                       /\ \A t \in {Entries, 2 * Entries, 3 * Entries, P1} :
                            Follow(t, k) = m[t + k]
  BY <1>2 DEF Index
<1>5. e4 = m[k4]
  BY <1>1, <1>4 DEF P4
<1> HIDE DEF k1, k2, k3, k4, Follow, e4
<1>6. m[k4] = Absent => Translate(m, v) = NotMapped
  <2> HIDE DEF e3, e2, e1
  <2> QED
    BY <1>3, <1>5 DEF Absent
<1> SUFFICES ASSUME k4 = 0, m[0] = Link(Entries)
             PROVE  LET f3 == m[Entries + k3] IN
                    /\ f3 = Absent => Translate(m, v) = NotMapped
                    /\ \A t \in {2 * Entries, 3 * Entries} :
                         LET f2 == m[t + k2] IN
                         f3 = Link(t) =>
                           /\ f2 = Absent => Translate(m, v) = NotMapped
                           /\ \A h : f2 = Huge(h) => Translate(m, v) = h + k1
                           /\ LET f1 == m[P1 + k1] IN
                              f2 = Link(P1) =>
                                /\ f1 = Absent => Translate(m, v) = NotMapped
                                /\ \A q : f1 = Link(q) => Translate(m, v) = q
  BY <1>6, Zenon DEF k1, k2, k3, k4
<1>7. e4.present /\ e3 = m[Entries + k3]
  <2>1. e4 = Link(Entries)
    BY <1>5
  <2>2. e4.present /\ e4.addr = Entries
    BY <2>1 DEF Link
  <2>3. Follow(Entries, k3) = m[Entries + k3]
    BY <1>1, <1>4
  <2> QED
    BY <2>2, <2>3
<1> HIDE DEF e3
<1>8. m[Entries + k3] = Absent => Translate(m, v) = NotMapped
  <2> HIDE DEF e2, e1
  <2> QED
    BY <1>3, <1>7 DEF Absent
<1>9. ASSUME NEW t \in {2 * Entries, 3 * Entries}, m[Entries + k3] = Link(t)
      PROVE  /\ m[t + k2] = Absent => Translate(m, v) = NotMapped
             /\ \A h : m[t + k2] = Huge(h) => Translate(m, v) = h + k1
             /\ m[t + k2] = Link(P1) =>
                  /\ m[P1 + k1] = Absent => Translate(m, v) = NotMapped
                  /\ \A q : m[P1 + k1] = Link(q) => Translate(m, v) = q
  <2>1. e3.present /\ e2 = m[t + k2]
    <3>1. e3.present /\ e3.addr = t
      BY <1>7, <1>9 DEF Link
    <3>2. Follow(t, k2) = m[t + k2]
      BY <1>1, <1>4
    <3> QED
      BY <3>1, <3>2
  <2> HIDE DEF e2
  <2>2. m[t + k2] = Absent => Translate(m, v) = NotMapped
    <3> HIDE DEF e1
    <3> QED
      BY <1>3, <2>1 DEF Absent
  <2>3. \A h : m[t + k2] = Huge(h) => Translate(m, v) = h + k1
    <3> HIDE DEF e1
    <3> QED
      BY <1>3, <1>7, <2>1 DEF Huge
  <2>4. ASSUME m[t + k2] = Link(P1)
        PROVE  /\ m[P1 + k1] = Absent => Translate(m, v) = NotMapped
               /\ \A q : m[P1 + k1] = Link(q) => Translate(m, v) = q
    <3>1. e2.present /\ ~e2.huge /\ e1 = m[P1 + k1]
      BY <1>1, <1>4, <2>1, <2>4 DEF Link
    <3> HIDE DEF e1
    <3>2. Translate(m, v) = IF e1.present THEN e1.addr ELSE NotMapped
      BY <1>3, <1>7, <2>1, <3>1
    <3> QED
      BY <3>1, <3>2 DEF Absent, Link
  <2> QED
    BY <2>2, <2>3, <2>4
<1> QED
  BY <1>8, <1>9, Zenon

\* Where the three new entries lie, and that they change no other.
LEMMA MappedEntries ==
  ASSUME P2Tables > 1, NEW p \in Entries * Entries .. Entries * Entries * Entries - 1
  PROVE  /\ DOMAIN Mapped(p) = 0 .. End - 1
         /\ Mapped(p)[Entries + IndexAt(3, p)] = Link(3 * Entries)
         /\ Mapped(p)[3 * Entries + IndexAt(2, p)] = Link(P1)
         /\ Mapped(p)[P1 + IndexAt(1, p)] = Link(p)
         /\ \A a \in 0 .. End - 1 :
              a \notin {Entries + IndexAt(3, p), 3 * Entries + IndexAt(2, p), P1 + IndexAt(1, p)}
                => Mapped(p)[a] = BootTables[a]
<1> DEFINE a3 == Entries + IndexAt(3, p)
           a2 == 3 * Entries + IndexAt(2, p)
           a1 == P1 + IndexAt(1, p)
<1>1. IndexAt(1, p) \in Index /\ IndexAt(2, p) \in Index /\ IndexAt(3, p) \in Index
  BY BeyondFirst, Indices
<1>2. /\ Entries \in Nat \ {0} /\ P1 \in Nat /\ P1 >= 4 * Entries
      /\ End \in Nat /\ End >= P1 + Entries
  BY Layout
<1>3. /\ a3 \in 0 .. End - 1 /\ a2 \in 0 .. End - 1 /\ a1 \in 0 .. End - 1
      /\ a3 < a2 /\ a2 < a1
  BY <1>1, <1>2 DEF Index
<1>4. DOMAIN BootTables = 0 .. End - 1
  BY DEF BootTables
<1>5. Mapped(p) = [[[BootTables EXCEPT ![a3] = Link(3 * Entries)] EXCEPT ![a2] = Link(P1)]
                     EXCEPT ![a1] = Link(p)]
  BY DEF Mapped
<1>6. a3 # a2 /\ a3 # a1 /\ a2 # a1
  BY <1>3
<1> HIDE DEF a3, a2, a1
<1> QED
  BY <1>3, <1>4, <1>5, <1>6 DEF a3, a2, a1

\* After pmap the processor finds the page of the registers at its own address and
\* every other page where boot.asm put it.
LEMMA MapsOnlyRegisters ==
  ASSUME P2Tables > 1, NEW p \in Entries * Entries .. Entries * Entries * Entries - 1,
         NEW v \in Page
  PROVE  Translate(Mapped(p), v) = IF v = p THEN p ELSE Translate(BootTables, v)
<1> DEFINE k1 == IndexAt(1, v)
           k2 == IndexAt(2, v)
           k3 == IndexAt(3, v)
           k4 == IndexAt(4, v)
           j1 == IndexAt(1, p)
           j2 == IndexAt(2, p)
           j3 == IndexAt(3, p)
           M == Mapped(p)
           B == BootTables
<1>1. /\ k1 \in Index /\ k2 \in Index /\ k3 \in Index /\ k4 \in Index
      /\ j1 \in Index /\ j2 \in Index /\ j3 \in Index
      /\ p \in Page /\ IndexAt(4, p) = 0 /\ j3 # 0
  BY BeyondFirst, Indices
<1>2. /\ Entries \in Nat \ {0} /\ P1 \in Nat /\ P1 >= 4 * Entries
      /\ End \in Nat /\ End >= P1 + Entries
  BY Layout
<1>3. /\ DOMAIN B = 0 .. End - 1
      /\ B[0] = Link(Entries)
      /\ B[Entries] = Link(2 * Entries)
      /\ B[2 * Entries + k2] = Huge(k2 * Entries)
      /\ \A a \in 0 .. End - 1 :
           a \notin {0, Entries} /\ a \notin 2 * Entries .. 3 * Entries - 1 => B[a] = Absent
  BY <1>1, BootEntries
<1>4. /\ DOMAIN M = 0 .. End - 1
      /\ M[Entries + j3] = Link(3 * Entries)
      /\ M[3 * Entries + j2] = Link(P1)
      /\ M[P1 + j1] = Link(p)
      /\ \A a \in 0 .. End - 1 :
           a \notin {Entries + j3, 3 * Entries + j2, P1 + j1} => M[a] = B[a]
  BY MappedEntries
<1>5. v = p <=> k1 = j1 /\ k2 = j2 /\ k3 = j3 /\ k4 = 0
  <2>1. ASSUME k1 = j1, k2 = j2, k3 = j3, k4 = 0 PROVE v = p
    <3>1. \A level \in 1 .. 4 : level = 1 \/ level = 2 \/ level = 3 \/ level = 4
      OBVIOUS
    <3> QED
      BY <1>1, <2>1, <3>1, SamePage
  <2> QED
    BY <1>1, <2>1
<1> HIDE DEF k1, k2, k3, k4, j1, j2, j3, M, B
<1>6. CASE k4 # 0
  <2>1. /\ k4 \in 0 .. End - 1 /\ k4 \notin {0, Entries}
        /\ k4 \notin 2 * Entries .. 3 * Entries - 1
        /\ k4 \notin {Entries + j3, 3 * Entries + j2, P1 + j1}
    BY <1>1, <1>2, <1>6 DEF Index
  <2>2. B[k4] = Absent /\ M[k4] = Absent
    BY <1>3, <1>4, <2>1
  <2>3. Translate(M, v) = NotMapped /\ Translate(B, v) = NotMapped
    BY <1>3, <1>4, <2>2, Walk DEF k4
  <2> QED
    BY <1>5, <1>6, <2>3 DEF M, B
<1>7. M[0] = Link(Entries)
  <2>1. 0 \in 0 .. End - 1 /\ 0 \notin {Entries + j3, 3 * Entries + j2, P1 + j1}
    BY <1>1, <1>2 DEF Index
  <2> QED
    BY <1>3, <1>4, <2>1
<1>8. CASE k4 = 0 /\ k3 = 0
  <2>1. /\ Entries \in 0 .. End - 1 /\ Entries \notin {Entries + j3, 3 * Entries + j2, P1 + j1}
        /\ 2 * Entries + k2 \in 0 .. End - 1
        /\ 2 * Entries + k2 \notin {Entries + j3, 3 * Entries + j2, P1 + j1}
    BY <1>1, <1>2 DEF Index
  <2>2. M[Entries] = Link(2 * Entries) /\ M[2 * Entries + k2] = Huge(k2 * Entries)
    BY <1>3, <1>4, <2>1
  <2>3. Entries + k3 = Entries
    BY <1>2, <1>8
  <2>4. \A m \in {M, B} : Translate(m, v) = k2 * Entries + k1
    <3> TAKE m \in {M, B}
    <3>1. /\ DOMAIN m = 0 .. End - 1 /\ m[0] = Link(Entries)
          /\ m[Entries + k3] = Link(2 * Entries)
          /\ m[2 * Entries + k2] = Huge(k2 * Entries)
      BY <1>3, <1>4, <1>7, <2>2, <2>3
    <3> QED
      BY <1>8, <3>1, Walk DEF k1, k2, k3, k4
  <2> QED
    BY <1>1, <1>5, <1>8, <2>4 DEF M, B
<1>9. CASE k4 = 0 /\ k3 # 0
  <2>1. /\ Entries + k3 \in 0 .. End - 1 /\ Entries + k3 \notin {0, Entries}
        /\ Entries + k3 \notin 2 * Entries .. 3 * Entries - 1
        /\ Entries + k3 \notin {3 * Entries + j2, P1 + j1}
    BY <1>1, <1>2, <1>9 DEF Index
  <2>2. Translate(B, v) = NotMapped
    <3>1. B[Entries + k3] = Absent
      BY <1>3, <2>1
    <3> QED
      BY <1>3, <1>9, <3>1, Walk DEF k3, k4
  <2>3. CASE k3 # j3
    <3>1. Entries + k3 # Entries + j3
      BY <1>1, <1>2, <2>3 DEF Index
    <3>2. M[Entries + k3] = Absent
      BY <1>3, <1>4, <2>1, <3>1
    <3>3. Translate(M, v) = NotMapped
      BY <1>4, <1>7, <1>9, <3>2, Walk DEF k3, k4
    <3> QED
      BY <1>5, <2>2, <2>3, <3>3 DEF M, B
  <2>4. CASE k3 = j3
    <3>1. M[Entries + k3] = Link(3 * Entries)
      BY <1>4, <2>4
    <3>2. CASE k2 # j2
      <4>1. /\ 3 * Entries + k2 \in 0 .. End - 1 /\ 3 * Entries + k2 \notin {0, Entries}
            /\ 3 * Entries + k2 \notin 2 * Entries .. 3 * Entries - 1
            /\ 3 * Entries + k2 \notin {Entries + j3, 3 * Entries + j2, P1 + j1}
        BY <1>1, <1>2, <3>2 DEF Index
      <4>2. M[3 * Entries + k2] = Absent
        BY <1>3, <1>4, <4>1
      <4>3. Translate(M, v) = NotMapped
        BY <1>4, <1>7, <1>9, <3>1, <4>2, Walk DEF k2, k3, k4
      <4> QED
        BY <1>5, <2>2, <3>2, <4>3 DEF M, B
    <3>3. CASE k2 = j2
      <4>1. M[3 * Entries + k2] = Link(P1)
        BY <1>4, <3>3
      <4>2. CASE k1 # j1
        <5>1. /\ P1 + k1 \in 0 .. End - 1 /\ P1 + k1 \notin {0, Entries}
              /\ P1 + k1 \notin 2 * Entries .. 3 * Entries - 1
              /\ P1 + k1 \notin {Entries + j3, 3 * Entries + j2, P1 + j1}
          BY <1>1, <1>2, <4>2 DEF Index
        <5>2. M[P1 + k1] = Absent
          BY <1>3, <1>4, <5>1
        <5>3. Translate(M, v) = NotMapped
          BY <1>4, <1>7, <1>9, <3>1, <4>1, <5>2, Walk DEF k1, k2, k3, k4
        <5> QED
          BY <1>5, <2>2, <4>2, <5>3 DEF M, B
      <4>3. CASE k1 = j1
        <5>1. M[P1 + k1] = Link(p)
          BY <1>4, <4>3
        <5>2. Translate(M, v) = p
          <6>1. \A q : M[P1 + k1] = Link(q) => Translate(M, v) = q
            BY <1>4, <1>7, <1>9, <3>1, <4>1, Walk DEF k1, k2, k3, k4
          <6> QED
            BY <5>1, <6>1
        <5> QED
          BY <1>5, <1>9, <2>4, <3>3, <4>3, <5>2 DEF M
      <4> QED
        BY <4>2, <4>3
    <3> QED
      BY <3>2, <3>3
  <2> QED
    BY <2>3, <2>4
<1> QED
  BY <1>6, <1>8, <1>9

-----------------------------------------------------------------------------
(***************************************************************************)
(* The driver's way to its controller                                      *)
(***************************************************************************)

\* What ahci_init has found and mapped by the phase it is in.
Found ==
  /\ phase # "scan" => scan = "done"
  /\ phase # "done" => mem = BootTables /\ ~stray
  /\ phase # "scan" /\ Controllers # {} => controller # {} /\ abar \in BarPages
  /\ phase = "done" /\ Controllers # {} => mem = Mapped(abar) /\ ~stray

\* Every step keeps Found.
LEMMA NextFound ==
  ASSUME RegistersBeyondBootMap
  PROVE  Inv /\ Found /\ [Next]_vars => Found'
<1> SUFFICES ASSUME Inv, Found, [Next]_vars PROVE Found'
  OBVIOUS
<1>1. CASE Scan
  BY <1>1 DEF Scan, pageVars, setupVars, Found
<1>2. CASE pci_ahci_get_abar
  <2>1. /\ phase' = "pmap" /\ scan' = "done" /\ mem' = mem /\ stray' = stray
        /\ controller' # {} /\ abar' \in BarPages /\ phase = "scan"
    BY <1>2 DEF pci_ahci_get_abar, pciVars, pageVars
  <2> QED
    BY <2>1 DEF Found
<1>3. CASE NoController
  <2>1. /\ phase' = "pmap" /\ scan' = "done" /\ mem' = mem /\ stray' = stray
        /\ phase = "scan" /\ Controllers = {} /\ UNCHANGED <<vector, conf>>
    BY <1>3 DEF NoController, pciVars, pageVars
  <2>2. Controllers' = {}
    BY <2>1 DEF Controllers
  <2> QED
    BY <2>1, <2>2 DEF Found
<1>4. CASE MapRegisters
  <2>1. /\ phase = "pmap" /\ phase' = "done" /\ pmap(abar, abar)
        /\ UNCHANGED <<scan, vector, conf, controller, abar>>
    BY <1>4 DEF MapRegisters, pciVars
  <2>2. Controllers' = Controllers
    BY <2>1 DEF Controllers
  <2>3. mem = BootTables /\ ~stray /\ scan = "done"
    BY <2>1 DEF Found
  <2>4. CASE Controllers # {}
    <3>1. /\ abar \in BarPages /\ controller # {} /\ P2Tables > 1
          /\ abar \in Entries * Entries .. Entries * Entries * Entries - 1
      BY <2>1, <2>4 DEF Found, RegistersBeyondBootMap
    <3>2. mem' = Mapped(abar) /\ ~stray'
      BY <2>1, <2>3, <3>1, PmapOnBootTables
    <3>3. Mapped(abar)' = Mapped(abar)
      BY <2>1 DEF Mapped
    <3> QED
      BY <2>1, <2>2, <2>3, <3>1, <3>2, <3>3 DEF Found
  <2>5. CASE Controllers = {}
    BY <2>1, <2>2, <2>3, <2>5 DEF Found
  <2> QED
    BY <2>4, <2>5
<1>5. CASE Done \/ UNCHANGED vars
  BY <1>5 DEF Done, vars, pciVars, pageVars, setupVars, Found, Controllers, Mapped
<1> QED
  BY <1>1, <1>2, <1>3, <1>4, <1>5 DEF Next

\* ahci_init brings up a controller that is within reach: whatever the topology, the
\* place of the registers and the sizes of the page tables, exactly one controller is
\* allowed to master the bus, its page is mapped, and every other page still translates
\* as boot.asm arranged (pci_ahci_get_abar, palloc, pmap).
THEOREM ControllerIsReadyHolds ==
  RegistersBeyondBootMap => (Spec => []ControllerIsReady)
<1> SUFFICES ASSUME RegistersBeyondBootMap
             PROVE  Spec => []ControllerIsReady
  OBVIOUS
<1>1. Init => Found
  BY DEF Init, PageInit, Found
<1>2. Inv /\ Found => (FindsEveryFunction => ControllerIsReady)
  <2> SUFFICES ASSUME Inv, Found, FindsEveryFunction, phase = "done",
                      conf.ahci \cap Reached # {}, Len(vector) < MaxDevices
               PROVE  /\ ~stray
                      /\ Cardinality(controller) = 1 /\ controller \subseteq conf.ahci
                      /\ \A v \in Page : Translate(mem, v) = IF v = abar THEN abar
                                                              ELSE Translate(BootTables, v)
    BY DEF ControllerIsReady
  <2>1. ToSet(vector) = Reached
    BY DEF Found, FindsEveryFunction
  <2>2. Controllers # {}
    <3>1. PICK c \in conf.ahci : c \in ToSet(vector)
      BY <2>1
    <3>2. \E n \in DOMAIN vector : vector[n] = c
      BY <3>1 DEF ToSet
    <3> QED
      BY <3>1, <3>2 DEF Controllers
  <2>3. controller # {} /\ abar \in BarPages /\ mem = Mapped(abar) /\ ~stray
    BY <2>2 DEF Found
  <2>4. Cardinality(controller) = 1
    <3>1. PICK c \in controller : TRUE
      BY <2>3
    <3>2. controller = {c}
      BY <3>1 DEF Inv, Chosen
    <3> QED
      BY <3>2, FS_Singleton
  <2>5. \A v \in Page : Translate(mem, v) = IF v = abar THEN abar
                                             ELSE Translate(BootTables, v)
    BY <2>3, MapsOnlyRegisters DEF RegistersBeyondBootMap
  <2> QED
    BY <2>3, <2>4, <2>5 DEF Inv, Chosen
<1>3. Inv /\ Found /\ [Next]_vars => Found'
  BY NextFound
<1> QED
  BY <1>1, <1>2, <1>3, InvHolds, FindsEveryFunctionHolds, PTL DEF Spec
=============================================================================
