----------------------------- MODULE NfvProofs ------------------------------
(***************************************************************************)
(* For any number of ports, queues and resources: what spp_nfv's tables    *)
(* say between commands, and what the worker that reads them without a     *)
(* lock can rely on.                                                       *)
(***************************************************************************)
EXTENDS Nfv, TLAPS, WellFoundedInduction

Entry == [in : BOOLEAN, out : Slots \cup {Reset}, outq : Queues, tx : BOOLEAN]
Patching == mpc \in {"patch_queue", "patch_out"}

Typed == /\ port_map \in [Slots -> Resources \cup {None}]
         /\ dev \in [Slots -> Resources \cup {None}]
         /\ fwd \in [Entries -> Entry]
         /\ mpc \in {"idle", "patch_queue", "patch_out", "del", "exit"}
         /\ Patching => arg[1] \in Slots /\ arg[2] \in Slots /\ arg[3] \in Queues
         /\ mpc = "del" => arg[1] \in Slots
         /\ spc \in {"top", "scan", "rx", "tx", "crashed"}
         /\ entry \in Entries /\ out \in Slots \cup {Reset} /\ outq \in Queues
         /\ accepted \in [Resources -> {<<>>} \cup (Resources \X Queues)]
         /\ raced \in BOOLEAN /\ deleted \in BOOLEAN

(* A resource has one port and one device, and a port has the device of its *)
(* resource, except while it is being deleted.                              *)
OnePort == /\ \A i, j \in Slots : port_map[i] = port_map[j] /\ port_map[i] # None
                                    => i = j
           /\ \A i, j \in Slots : dev[i] = dev[j] /\ dev[i] # None => i = j
           /\ \A i \in Slots : port_map[i] # None /\ ~(mpc = "del" /\ i = arg[1])
                                 => dev[i] = port_map[i]

(* Only queue 0 of a port that is in use has a destination. *)
OutInUse == \A e \in Entries : fwd[e].out # Reset => e[2] = 0 /\ fwd[e].in

Out(i) == fwd[<<i, 0>>].out
Outq(i) == fwd[<<i, 0>>].outq
Halfway(i) == Patching /\ i = arg[1]

(* Ports that are patched exist, and are patched as the commands asked.     *)
BothExist == \A i \in Slots : Out(i) # Reset =>
               port_map[i] # None /\ port_map[Out(i)] # None
Agrees == \A i \in Slots : port_map[i] # None =>
            IF Out(i) = Reset THEN accepted[port_map[i]] = <<>>
            ELSE /\ accepted[port_map[i]][1] = port_map[Out(i)]
                 /\ accepted[port_map[i]] # <<>>
                 /\ accepted[port_map[i]][2] =
                      IF Halfway(i) THEN arg[3] ELSE Outq(i)
OfPorts == \A r \in Resources : accepted[r] # <<>> => Known(r)
(* Their destinations can be sent to. *)
TxReady == \A i \in Slots : Out(i) # Reset /\ ~Halfway(i) =>
             fwd[<<Out(i), Outq(i)>>].tx
(* The command in progress *)
InCommand == /\ Patching => Out(arg[1]) = arg[2]
             /\ mpc = "patch_out" => Outq(arg[1]) = arg[3]
             /\ mpc = "del" => \A i \in Slots : Out(i) = Reset

AsAccepted == ~deleted => BothExist /\ Agrees /\ OfPorts /\ TxReady /\ InCommand

(* A pass of forward() that no command overlapped sees the tables as they   *)
(* are between commands.                                                    *)
InPass == /\ spc # "top" /\ ~raced => mpc \in {"idle", "exit"}
          /\ spc \in {"rx", "tx"} /\ ~raced =>
               /\ fwd[entry].out = out /\ fwd[entry].outq = outq
               /\ out # Reset

Inv == Typed /\ OnePort /\ OutInUse /\ AsAccepted /\ InPass /\ CrashOnlyIfRaced

-----------------------------------------------------------------------------
LEMMA Basics ==
  /\ Slots \subseteq Int /\ Reset \notin Slots /\ 0 \in Queues
  /\ None \notin Resources
  /\ \A i \in Slots, q \in Queues : <<i, q>> \in Entries
  /\ \A i \in Slots : <<i, 0>> \in Entries
  /\ \A e \in Entries : e[1] \in Slots /\ e[2] \in Queues /\ e = <<e[1], e[2]>>
BY NfvAssumption
  DEF Slots, Queues, Entries, Reset, Resources, Phys, Added

LEMMA FirstScanned == \A i \in Slots : Scanned(<<i, 0>>)
BY NfvAssumption DEF Scanned, MaxQueues

LEMMA InitInv == Init => Inv
<1> SUFFICES ASSUME Init PROVE Inv OBVIOUS
<1>1. \A i \in Slots : i < Len(Phy) =>
        i + 1 \in DOMAIN Phy /\ Phy[i + 1] \in Resources
  <2>1. DOMAIN Phy = 1 .. Len(Phy) /\ Len(Phy) \in Nat BY NfvAssumption
  <2>2. \A n \in DOMAIN Phy : Phy[n] \in Range(Phy) BY DEF Range
  <2> QED BY <2>1, <2>2 DEF Slots, Resources, Phys
<1>2. \A e \in Entries : fwd[e].out = Reset BY DEF Init
<1>3. Typed
  <2>1. port_map \in [Slots -> Resources \cup {None}] BY <1>1 DEF Init
  <2>2. fwd \in [Entries -> Entry]
    <3>1. Reset \in Slots \cup {Reset} OBVIOUS
    <3>2. \A e \in Entries : (e[1] < Len(Phy)) \in BOOLEAN OBVIOUS
    <3> QED BY <3>1, <3>2, Basics DEF Init, Entry
  <2>3. <<0, 0>> \in Entries BY NfvAssumption DEF Entries, Slots, Queues
  <2> QED BY ZenonT(60), <2>1, <2>2, <2>3, Basics DEF Init, Typed, Patching
<1>4. OnePort
  <2>1. \A i, j \in Slots : port_map[i] = port_map[j] /\ port_map[i] # None => i = j
    <3> SUFFICES ASSUME NEW i \in Slots, NEW j \in Slots,
                        port_map[i] = port_map[j], port_map[i] # None
                 PROVE  i = j
      OBVIOUS
    <3>1. i < Len(Phy) /\ j < Len(Phy) BY DEF Init
    <3>2. Phy[i + 1] = Phy[j + 1] BY <3>1 DEF Init
    <3>3. i + 1 = j + 1 BY <3>1, <3>2, <1>1, NfvAssumption DEF IsInjective
    <3> QED BY <3>3 DEF Slots
  <2> QED BY <2>1 DEF Init, OnePort
<1>5. OutInUse BY <1>2 DEF OutInUse
<1>6. AsAccepted
  <2>1. \A i \in Slots : Out(i) = Reset BY <1>2, Basics DEF Out
  <2>2. \A r \in Resources : accepted[r] = <<>> BY DEF Init
  <2>3. mpc = "idle" BY DEF Init
  <2>4. \A i \in Slots : port_map[i] # None => port_map[i] \in Resources
    BY <1>3 DEF Typed
  <2> QED BY <2>1, <2>2, <2>3, <2>4
          DEF AsAccepted, BothExist, Agrees, OfPorts, TxReady, InCommand, Patching
<1>7. InPass /\ CrashOnlyIfRaced BY DEF Init, InPass, CrashOnlyIfRaced
<1> QED BY <1>3, <1>4, <1>5, <1>6, <1>7 DEF Inv

-----------------------------------------------------------------------------
(* The worker: it writes no table.                                         *)

WorkerStep == UNCHANGED <<tables, main, accepted, deleted>>

LEMMA AdvanceTyped ==
  ASSUME entry \in Entries, raced \in BOOLEAN, Advance
  PROVE  /\ entry' \in Entries /\ raced' \in BOOLEAN
         /\ out' = Reset /\ outq' = 0
         /\ spc' \in {"top", "scan"} /\ (spc' = "scan" => raced' = raced)
<1>1. entry = <<entry[1], entry[2]>> /\ entry[1] \in Slots /\ entry[2] \in Queues
  BY Basics
<1>2. CASE \E e \in Entries : Before(entry, e)
  <2>1. PICK e \in Entries : Before(entry, e) BY <1>2
  <2>2. e[1] \in Slots /\ e[2] \in Queues BY Basics
  <2>3. CASE entry[2] < NTxq - 1
    <3>1. entry' = <<entry[1], entry[2] + 1>> BY <1>2, <2>3 DEF Advance
    <3>2. entry[2] + 1 \in Queues BY <1>1, <2>3, NfvAssumption DEF Queues
    <3> QED BY <1>1, <1>2, <3>1, <3>2, Basics DEF Advance
  <2>4. CASE ~(entry[2] < NTxq - 1)
    <3>1. entry' = <<entry[1] + 1, 0>> BY <1>2, <2>4 DEF Advance
    <3>2. entry[1] + 1 \in Slots
      BY <1>1, <2>1, <2>2, <2>4, NfvAssumption DEF Before, Slots, Queues
    <3> QED BY <1>1, <1>2, <3>1, <3>2, Basics DEF Advance
  <2> QED BY <2>3, <2>4
<1>3. CASE ~\E e \in Entries : Before(entry, e)
  <2>1. <<0, 0>> \in Entries BY NfvAssumption DEF Entries, Slots, Queues
  <2> QED BY ZenonT(60), <1>3, <2>1 DEF Advance
<1> QED BY <1>2, <1>3

LEMMA WorkerKeeps ==
  ASSUME Inv, WorkerStep,
         spc' \in {"top", "scan", "rx", "tx", "crashed"},
         entry' \in Entries, out' \in Slots \cup {Reset}, outq' \in Queues,
         raced' \in BOOLEAN, InPass', CrashOnlyIfRaced'
  PROVE  Inv'
<1> USE DEF Inv, WorkerStep, tables, main
<1>1. Typed' BY DEF Typed, Patching
<1>2. OnePort' BY DEF OnePort
<1>3. OutInUse' BY DEF OutInUse
<1>4. AsAccepted'
  BY DEF AsAccepted, BothExist, Agrees, OfPorts, TxReady, InCommand, Patching,
         Halfway, Out, Outq, Known, Holds
<1> QED BY <1>1, <1>2, <1>3, <1>4

(* What the worker finds in a pass that no command overlapped *)
LEMMA PassSound ==
  ASSUME Inv, spc \in {"rx", "tx"}, ~raced, ~deleted
  PROVE  /\ accepted[port_map[entry[1]]] = <<port_map[out], outq>>
         /\ out \in Slots
         /\ dev[entry[1]] # None /\ dev[out] # None /\ fwd[<<out, outq>>].tx
<1>1. mpc \in {"idle", "exit"} BY DEF Inv, InPass
<1>2. fwd[entry].out = out /\ fwd[entry].outq = outq /\ out # Reset
  BY DEF Inv, InPass
<1>3. entry \in Entries /\ entry[2] = 0 BY <1>2 DEF Inv, Typed, OutInUse
<1>4. entry = <<entry[1], 0>> /\ entry[1] \in Slots BY <1>3, Basics
<1>5. Out(entry[1]) = out /\ Outq(entry[1]) = outq BY <1>2, <1>4 DEF Out, Outq
<1>6. out \in Slots BY <1>2 DEF Inv, Typed
<1>7. port_map[entry[1]] # None /\ port_map[out] # None
  BY <1>2, <1>4, <1>5 DEF Inv, AsAccepted, BothExist
<1>8. dev[entry[1]] # None /\ dev[out] # None
  BY <1>1, <1>4, <1>6, <1>7 DEF Inv, OnePort
<1>9. fwd[<<out, outq>>].tx
  BY <1>1, <1>2, <1>4, <1>5 DEF Inv, AsAccepted, TxReady, Halfway, Patching
<1>10. accepted[port_map[entry[1]]] = <<port_map[out], outq>>
  <2> DEFINE a == accepted[port_map[entry[1]]]
  <2>1. a # <<>> /\ a[1] = port_map[out] /\ a[2] = outq
    BY <1>1, <1>2, <1>4, <1>5, <1>7 DEF Inv, AsAccepted, Agrees, Halfway, Patching
  <2>2. a \in Resources \X Queues BY <1>4, <1>7, <2>1 DEF Inv, Typed
  <2>3. a = <<a[1], a[2]>> BY <2>2
  <2> QED BY <2>1, <2>3
<1> QED BY <1>6, <1>8, <1>9, <1>10

LEMMA WorkerInv ==
  ASSUME Inv, Alive, Enter \/ forward
  PROVE  Inv'
<1> USE DEF WorkerStep
<1>0. /\ entry \in Entries /\ raced \in BOOLEAN /\ out \in Slots \cup {Reset}
      /\ outq \in Queues /\ 0 \in Queues /\ <<0, 0>> \in Entries
      /\ fwd \in [Entries -> Entry] /\ mpc # "exit" /\ spc # "crashed"
  BY Basics, NfvAssumption DEF Inv, Typed, Entries, Slots, Queues, Alive
<1>1. CASE Enter
  <2>1. InPass' /\ CrashOnlyIfRaced'
    BY ZenonT(60), <1>1 DEF Enter, InPass, CrashOnlyIfRaced, main
  <2> QED BY <1>0, <1>1, <2>1, WorkerKeeps DEF Enter
<1>2. ASSUME Advance, WorkerStep, spc \in {"scan", "rx", "tx"} PROVE Inv'
  <2>1. InPass' /\ CrashOnlyIfRaced'
    BY <1>0, <1>2, AdvanceTyped DEF InPass, CrashOnlyIfRaced, main, Inv
  <2> QED BY <1>0, <1>2, <2>1, AdvanceTyped, WorkerKeeps
<1>3. CASE Skip \/ RxNothing \/ TxBurst
  BY <1>2, <1>3 DEF Skip, RxNothing, TxBurst
<1>4. CASE Select
  <2>1. fwd[entry].out \in Slots \cup {Reset} /\ fwd[entry].outq \in Queues
    BY <1>0 DEF Entry
  <2>2. fwd[entry].out # Reset BY <1>4 DEF Select, Patched
  <2>3. InPass' /\ CrashOnlyIfRaced'
    BY <1>0, <1>4, <2>2 DEF Select, InPass, CrashOnlyIfRaced, main, ghosts, tables, Inv
  <2> QED BY <1>0, <1>4, <2>1, <2>3, WorkerKeeps DEF Select, ghosts
<1>5. CASE RxBurst
  <2>1. InPass' /\ CrashOnlyIfRaced'
    BY <1>5 DEF RxBurst, InPass, CrashOnlyIfRaced, main, ghosts, tables, Inv
  <2> QED BY <1>0, <1>5, <2>1, WorkerKeeps DEF RxBurst, ghosts
<1>6. CASE RxCrash \/ TxCrash
  <2>1. raced \/ deleted BY <1>6, PassSound DEF RxCrash, TxCrash
  <2>2. InPass' /\ CrashOnlyIfRaced'
    BY <1>6, <2>1
       DEF RxCrash, TxCrash, Crash, InPass, CrashOnlyIfRaced, main, ghosts, Inv
  <2> QED BY <1>0, <1>6, <2>2, WorkerKeeps DEF RxCrash, TxCrash, Crash, ghosts
<1> QED BY ZenonT(60), <1>1, <1>3, <1>4, <1>5, <1>6 DEF forward

-----------------------------------------------------------------------------
(* The commands.                                                           *)

LEMMA TouchKeeps ==
  ASSUME Inv, Alive, Touches, UNCHANGED worker
  PROVE  /\ InPass' /\ CrashOnlyIfRaced' /\ raced' \in BOOLEAN
         /\ spc' \in {"top", "scan", "rx", "tx", "crashed"}
         /\ entry' \in Entries /\ out' \in Slots \cup {Reset} /\ outq' \in Queues
BY ZenonT(60) DEF Inv, Typed, Alive, Touches, worker, InPass, CrashOnlyIfRaced

(* ethdev ids are natural numbers: there is a first free one. *)
LEMMA MinFree ==
  ASSUME FreeSlots # {}
  PROVE  Min(FreeSlots) \in FreeSlots
<1>1. FreeSlots \subseteq Nat BY NfvAssumption DEF FreeSlots, Slots
<1>2. \E x \in FreeSlots : \A y \in FreeSlots : ~(<<y, x>> \in OpToRel(<, Nat))
  BY <1>1, NatLessThanWellFounded, WFMin
<1>3. PICK x \in FreeSlots : \A y \in FreeSlots : ~(<<y, x>> \in OpToRel(<, Nat))
  BY <1>2
<1>4. \A y \in FreeSlots : x <= y
  <2> SUFFICES ASSUME NEW y \in FreeSlots PROVE x <= y OBVIOUS
  <2>1. ~(y < x) BY ZenonT(60), <1>1, <1>3 DEF OpToRel
  <2> QED BY <1>1, <2>1
<1> QED BY <1>4 DEF Min

LEMMA DevSlot ==
  ASSUME NEW r, NEW i \in DevSlots(r)
  PROVE  /\ i \in Slots
         /\ dev[i] = r \/ (dev[i] = None /\ \A j \in Slots : dev[j] # r)
BY MinFree DEF DevSlots, FreeSlots

LEMMA FoundPort ==
  ASSUME NEW r, Known(r)
  PROVE  find_port_id(r) \in Slots /\ port_map[find_port_id(r)] = r
BY DEF Known, find_port_id, Holds

LEMMA AddInv ==
  ASSUME Inv, Alive, NEW r \in Added, do_add(r)
  PROVE  Inv'
<1> USE DEF main, worker
<1>1. PICK i \in DevSlots(r) :
        /\ dev' = [dev EXCEPT ![i] = r]
        /\ port_map' = [port_map EXCEPT ![i] = r]
        /\ fwd' = [fwd EXCEPT ![<<i, 0>>].in = TRUE]
        /\ Touches
  BY ZenonT(60) DEF do_add
<1>2. /\ mpc = "idle" /\ UNCHANGED <<cmd, mpc, arg, spc, entry, out, outq,
                                     accepted, deleted>>
  BY DEF do_add
<1>3. /\ i \in Slots /\ <<i, 0>> \in Entries /\ r \in Resources /\ r # None
      /\ dev[i] = r \/ (dev[i] = None /\ \A j \in Slots : dev[j] # r)
  BY DevSlot, Basics DEF Resources
<1>4. /\ port_map \in [Slots -> Resources \cup {None}]
      /\ dev \in [Slots -> Resources \cup {None}]
      /\ fwd \in [Entries -> Entry]
  BY DEF Inv, Typed
<1>5. port_map[i] \in {r, None} BY <1>2, <1>3 DEF Inv, OnePort
<1>6. \A j \in Slots : port_map[j] = r => j = i
  BY <1>2, <1>3 DEF Inv, OnePort
<1>7. /\ \A e \in Entries : /\ fwd'[e].out = fwd[e].out
                            /\ fwd'[e].outq = fwd[e].outq
                            /\ fwd'[e].tx = fwd[e].tx
                            /\ fwd[e].in => fwd'[e].in
      /\ fwd' \in [Entries -> Entry]
  BY ZenonT(60), <1>1, <1>3, <1>4 DEF Entry
<1>8. Typed'
  BY <1>1, <1>2, <1>3, <1>4, <1>7, TouchKeeps DEF Inv, Typed, Patching
<1>9. OnePort'
  BY <1>1, <1>2, <1>3, <1>4, <1>5, <1>6 DEF Inv, OnePort
<1>10. OutInUse' BY <1>7 DEF Inv, OutInUse
<1>11. AsAccepted'
  <2> SUFFICES ASSUME ~deleted
               PROVE  (BothExist /\ Agrees /\ OfPorts /\ TxReady /\ InCommand)'
    BY <1>2 DEF AsAccepted
  <2>1. BothExist /\ Agrees /\ OfPorts /\ TxReady BY DEF Inv, AsAccepted
  <2>2. \A j \in Slots : /\ Out(j)' = Out(j) /\ Outq(j)' = Outq(j)
                         /\ <<j, 0>> \in Entries
    BY <1>7, Basics DEF Out, Outq
  <2>3. \A j \in Slots : port_map'[j] = IF j = i THEN r ELSE port_map[j]
    BY <1>1, <1>4
  <2>4. \A j \in Slots : Out(j) \in Slots \cup {Reset} /\ Outq(j) \in Queues
    BY <1>4, <2>2 DEF Out, Outq, Entry
  <2>5. BothExist' BY ZenonT(60), <1>3, <2>1, <2>2, <2>3, <2>4 DEF BothExist
  <2>6. Agrees'
    <3> SUFFICES ASSUME NEW j \in Slots, port_map'[j] # None
                 PROVE  IF Out(j) = Reset THEN accepted[port_map'[j]] = <<>>
                        ELSE /\ accepted[port_map'[j]][1] = port_map'[Out(j)]
                             /\ accepted[port_map'[j]] # <<>>
                             /\ accepted[port_map'[j]][2] = Outq(j)
      BY ZenonT(60), <1>2, <2>2 DEF Agrees, Halfway, Patching
    <3>1. CASE j = i /\ port_map[i] = None
      <4>1. Out(j) = Reset BY <2>1, <3>1 DEF BothExist
      <4>2. ~Known(r) BY <1>3, <1>6, <3>1 DEF Known, Holds
      <4>3. accepted[r] = <<>> BY <1>3, <2>1, <4>2 DEF OfPorts
      <4> QED BY <2>3, <3>1, <4>1, <4>3
    <3>2. CASE ~(j = i /\ port_map[i] = None)
      <4>1. port_map'[j] = port_map[j] BY ZenonT(60), <1>5, <2>3, <3>2
      <4>2. Out(j) # Reset => port_map'[Out(j)] = port_map[Out(j)]
        BY ZenonT(60), <1>5, <2>1, <2>3, <2>4 DEF BothExist
      <4> QED BY <4>1, <4>2, <2>1, <1>2 DEF Agrees, Halfway, Patching
    <3> QED BY <3>1, <3>2
  <2>7. OfPorts' BY ZenonT(60), <1>2, <1>5, <2>1, <2>3, Basics DEF OfPorts, Known, Holds
  <2>8. TxReady'
    BY ZenonT(60), <1>2, <1>7, <2>1, <2>2, <2>4, Basics DEF TxReady, Halfway, Patching
  <2>9. InCommand' BY <1>2 DEF InCommand, Patching
  <2> QED BY <2>5, <2>6, <2>7, <2>8, <2>9
<1> QED BY <1>1, <1>2, <1>8, <1>9, <1>10, <1>11, TouchKeeps DEF Inv

LEMMA PatchInInv ==
  ASSUME Inv, Alive, NEW src \in Resources, NEW dst \in Resources,
         NEW q \in Queues, PatchIn(src, dst, q)
  PROVE  Inv'
<1> USE DEF worker
<1> DEFINE i == find_port_id(src)
           d == find_port_id(dst)
<1>1. /\ mpc = "idle" /\ mpc' = "patch_queue" /\ arg' = <<i, d, q>>
      /\ accepted' = [accepted EXCEPT ![src] = <<dst, q>>]
      /\ UNCHANGED <<port_map, dev, deleted>>
  BY DEF PatchIn
<1>2. /\ i \in Slots /\ port_map[i] = src /\ d \in Slots /\ port_map[d] = dst
      /\ <<i, 0>> \in Entries
  BY FoundPort, Basics DEF PatchIn, ValidPatch
<1>3. fwd' = [fwd EXCEPT ![<<i, 0>>].in = TRUE, ![<<i, 0>>].tx = TRUE,
                         ![<<i, 0>>].out = d]
  BY DEF PatchIn
<1> HIDE DEF i, d
<1>4. Touches /\ UNCHANGED worker BY DEF PatchIn
<1>5. fwd \in [Entries -> Entry] BY DEF Inv, Typed
<1>6. /\ \A e \in Entries : /\ fwd'[e].out = IF e = <<i, 0>> THEN d ELSE fwd[e].out
                            /\ fwd'[e].outq = fwd[e].outq
                            /\ fwd[e].tx => fwd'[e].tx
                            /\ fwd[e].in => fwd'[e].in
      /\ fwd'[<<i, 0>>].in
      /\ fwd' \in [Entries -> Entry]
  <2>1. PICK k : k = <<i, 0>>
    BY Zenon
  <2>2. k \in Entries /\ fwd[k] \in Entry
    BY ZenonT(60), <1>2, <1>5, <2>1
  <2>3. fwd' = [fwd EXCEPT ![k].in = TRUE, ![k].tx = TRUE, ![k].out = d]
    BY ZenonT(60), <1>3, <2>1
  <2>4. fwd' \in [Entries -> Entry]
    BY ZenonT(60), <1>2, <1>5, <2>2, <2>3 DEF Entry
  <2>5. \A e \in Entries : e # k => fwd'[e] = fwd[e]
    BY ZenonT(60), <1>5, <2>3
  <2>6. fwd'[k].in /\ fwd'[k].tx /\ fwd'[k].out = d /\ fwd'[k].outq = fwd[k].outq
    BY ZenonT(60), <1>5, <2>2, <2>3 DEF Entry
  <2> QED
    BY ZenonT(60), <2>1, <2>4, <2>5, <2>6
<1>7. \A j \in Slots : /\ Out(j)' = IF j = i THEN d ELSE Out(j)
                       /\ Outq(j)' = Outq(j) /\ <<j, 0>> \in Entries
  BY <1>6, Basics DEF Out, Outq
<1>8. \A j \in Slots : Out(j) \in Slots \cup {Reset} /\ Outq(j) \in Queues
  BY <1>5, <1>7 DEF Out, Outq, Entry
<1>9. src # None /\ dst # None /\ d # Reset BY <1>2, Basics
<1>10. Typed'
  BY <1>1, <1>2, <1>4, <1>6, TouchKeeps DEF Inv, Typed, Patching
<1>11. OnePort' BY <1>1 DEF Inv, OnePort
<1>12. OutInUse' BY <1>6 DEF Inv, OutInUse
<1>13. AsAccepted'
  <2> SUFFICES ASSUME ~deleted
               PROVE  (BothExist /\ Agrees /\ OfPorts /\ TxReady /\ InCommand)'
    BY <1>1 DEF AsAccepted
  <2>1. BothExist /\ Agrees /\ OfPorts /\ TxReady BY DEF Inv, AsAccepted
  <2>2. \A j \in Slots : Halfway(j)' <=> j = i
    BY <1>1 DEF Halfway, Patching
  <2>3. \A j \in Slots : ~Halfway(j) BY ZenonT(60), <1>1 DEF Halfway, Patching
  <2>4. BothExist' BY ZenonT(60), <1>1, <1>2, <1>7, <1>9, <2>1 DEF BothExist
  <2>5. \A j \in Slots : port_map[j] = src => j = i
    BY <1>2, <1>9 DEF Inv, OnePort
  <2>6. /\ accepted'[src] = <<dst, q>>
        /\ \A r \in Resources : r # src => accepted'[r] = accepted[r]
    BY <1>1 DEF Inv, Typed
  <2>7. Agrees'
    <3> SUFFICES ASSUME NEW j \in Slots, port_map[j] # None
                 PROVE  IF Out(j)' = Reset THEN accepted'[port_map[j]] = <<>>
                        ELSE /\ accepted'[port_map[j]][1] = port_map[Out(j)']
                             /\ accepted'[port_map[j]] # <<>>
                             /\ accepted'[port_map[j]][2] =
                                  IF Halfway(j)' THEN arg'[3] ELSE Outq(j)'
      BY <1>1 DEF Agrees
    <3>1. CASE j = i
      BY <1>1, <1>2, <1>7, <1>9, <2>2, <2>6, <3>1
    <3>2. CASE j # i
      <4>1. port_map[j] \in Resources /\ port_map[j] # src
        BY <2>5, <3>2 DEF Inv, Typed
      <4>2. /\ Out(j)' = Out(j) /\ Outq(j)' = Outq(j) /\ ~Halfway(j)' /\ ~Halfway(j)
            /\ accepted'[port_map[j]] = accepted[port_map[j]]
        BY ZenonT(60), <1>7, <2>2, <2>3, <2>6, <3>2, <4>1
      <4>3. IF Out(j) = Reset THEN accepted[port_map[j]] = <<>>
            ELSE /\ accepted[port_map[j]][1] = port_map[Out(j)]
                 /\ accepted[port_map[j]] # <<>>
                 /\ accepted[port_map[j]][2] = IF Halfway(j) THEN arg[3] ELSE Outq(j)
        BY ZenonT(60), <2>1 DEF Agrees
      <4> QED BY ZenonT(60), <4>2, <4>3
    <3> QED BY <3>1, <3>2
  <2>8. OfPorts' BY <1>1, <1>2, <2>1, <2>6 DEF OfPorts, Known, Holds
  <2>9. TxReady'
    BY ZenonT(60), <1>6, <1>7, <1>8, <2>1, <2>2, <2>3, Basics DEF TxReady
  <2>10. InCommand' BY <1>1, <1>2, <1>7 DEF InCommand, Patching
  <2> QED BY <2>4, <2>7, <2>8, <2>9, <2>10
<1> QED BY <1>4, <1>10, <1>11, <1>12, <1>13, TouchKeeps DEF Inv

LEMMA PatchQueueInv ==
  ASSUME Inv, Alive, PatchQueue
  PROVE  Inv'
<1> USE DEF worker
<1>1. /\ mpc = "patch_queue" /\ mpc' = "patch_out"
      /\ fwd' = [fwd EXCEPT ![<<arg[1], 0>>].outq = arg[3]]
      /\ UNCHANGED <<port_map, dev, arg, accepted, deleted>>
      /\ Touches /\ UNCHANGED worker
  BY DEF PatchQueue
<1>2. /\ arg[1] \in Slots /\ arg[2] \in Slots /\ arg[3] \in Queues
      /\ <<arg[1], 0>> \in Entries
  BY <1>1, Basics DEF Inv, Typed, Patching
<1>3. fwd \in [Entries -> Entry] BY DEF Inv, Typed
<1>4. /\ \A e \in Entries : /\ fwd'[e].out = fwd[e].out
                            /\ fwd'[e].outq = IF e = <<arg[1], 0>> THEN arg[3]
                                                                ELSE fwd[e].outq
                            /\ fwd'[e].tx = fwd[e].tx
                            /\ fwd'[e].in = fwd[e].in
      /\ fwd' \in [Entries -> Entry]
  BY <1>1, <1>2, <1>3 DEF Entry
<1>5. \A j \in Slots : /\ Out(j)' = Out(j)
                       /\ Outq(j)' = IF j = arg[1] THEN arg[3] ELSE Outq(j)
                       /\ <<j, 0>> \in Entries
  BY <1>4, Basics DEF Out, Outq
<1>6. \A j \in Slots : Out(j) \in Slots \cup {Reset} /\ Outq(j) \in Queues
  BY <1>3, <1>5 DEF Out, Outq, Entry
<1>7. Typed'
  BY <1>1, <1>2, <1>4, TouchKeeps DEF Inv, Typed, Patching
<1>8. OnePort' BY <1>1 DEF Inv, OnePort
<1>9. OutInUse' BY <1>4 DEF Inv, OutInUse
<1>10. AsAccepted'
  <2> SUFFICES ASSUME ~deleted
               PROVE  (BothExist /\ Agrees /\ OfPorts /\ TxReady /\ InCommand)'
    BY <1>1 DEF AsAccepted
  <2>1. BothExist /\ Agrees /\ OfPorts /\ TxReady /\ InCommand
    BY DEF Inv, AsAccepted
  <2>2. \A j \in Slots : /\ Halfway(j)' <=> j = arg[1]
                         /\ Halfway(j) <=> j = arg[1]
    BY <1>1 DEF Halfway, Patching
  <2>3. BothExist' BY ZenonT(60), <1>1, <1>5, <2>1 DEF BothExist
  <2>4. Agrees'
    <3> SUFFICES ASSUME NEW j \in Slots, port_map[j] # None
                 PROVE  IF Out(j)' = Reset THEN accepted'[port_map[j]] = <<>>
                        ELSE /\ accepted'[port_map[j]][1] = port_map[Out(j)']
                             /\ accepted'[port_map[j]] # <<>>
                             /\ accepted'[port_map[j]][2] =
                                  IF Halfway(j)' THEN arg'[3] ELSE Outq(j)'
      BY ZenonT(60), <1>1 DEF Agrees
    <3>1. IF Out(j) = Reset THEN accepted[port_map[j]] = <<>>
          ELSE /\ accepted[port_map[j]][1] = port_map[Out(j)]
               /\ accepted[port_map[j]] # <<>>
               /\ accepted[port_map[j]][2] = IF Halfway(j) THEN arg[3] ELSE Outq(j)
      BY ZenonT(60), <2>1 DEF Agrees
    <3>2. /\ Out(j)' = Out(j) /\ (j # arg[1] => Outq(j)' = Outq(j))
          /\ (Halfway(j)' <=> j = arg[1]) /\ (Halfway(j) <=> j = arg[1])
      BY ZenonT(60), <1>5, <2>2
    <3> QED BY ZenonT(60), <1>1, <3>1, <3>2
  <2>5. OfPorts' BY <1>1, <2>1 DEF OfPorts, Known, Holds
  <2>6. TxReady'
    <3> SUFFICES ASSUME NEW j \in Slots, Out(j)' # Reset, ~Halfway(j)'
                 PROVE  fwd'[<<Out(j)', Outq(j)'>>].tx
      BY DEF TxReady
    <3>1. j # arg[1] /\ ~Halfway(j) BY <2>2
    <3>2. Out(j)' = Out(j) /\ Outq(j)' = Outq(j) BY ZenonT(60), <1>5, <3>1
    <3>3. <<Out(j), Outq(j)>> \in Entries BY <1>6, <3>2, Basics
    <3> QED BY <1>4, <2>1, <3>1, <3>2, <3>3 DEF TxReady
  <2>7. InCommand' BY <1>1, <1>2, <1>5, <2>1 DEF InCommand, Patching
  <2> QED BY <2>3, <2>4, <2>5, <2>6, <2>7
<1> QED BY <1>1, <1>7, <1>8, <1>9, <1>10, TouchKeeps DEF Inv

LEMMA PatchOutInv ==
  ASSUME Inv, Alive, PatchOut
  PROVE  Inv'
<1> USE DEF worker
<1> DEFINE t == <<arg[2], arg[3]>>
<1>1. /\ mpc = "patch_out" /\ mpc' = "idle"
      /\ fwd' = [fwd EXCEPT ![t].in = TRUE, ![t].tx = TRUE]
      /\ UNCHANGED <<port_map, dev, accepted, deleted>>
      /\ Touches /\ UNCHANGED worker
  BY DEF PatchOut
<1>2. /\ arg[1] \in Slots /\ arg[2] \in Slots /\ arg[3] \in Queues
      /\ <<arg[1], 0>> \in Entries /\ t \in Entries
  BY <1>1, Basics DEF Inv, Typed, Patching
<1>3. fwd \in [Entries -> Entry] BY DEF Inv, Typed
<1> HIDE DEF t
<1>4. /\ \A e \in Entries : /\ fwd'[e].out = fwd[e].out
                            /\ fwd'[e].outq = fwd[e].outq
                            /\ fwd[e].tx => fwd'[e].tx
                            /\ fwd[e].in => fwd'[e].in
      /\ fwd'[t].tx
      /\ fwd' \in [Entries -> Entry]
  BY ZenonT(60), <1>1, <1>2, <1>3 DEF Entry
<1>5. \A j \in Slots : /\ Out(j)' = Out(j) /\ Outq(j)' = Outq(j)
                       /\ <<j, 0>> \in Entries
  BY <1>4, Basics DEF Out, Outq
<1>6. \A j \in Slots : Out(j) \in Slots \cup {Reset} /\ Outq(j) \in Queues
  BY <1>3, <1>5 DEF Out, Outq, Entry
<1>7. Typed'
  BY <1>1, <1>2, <1>4, TouchKeeps DEF Inv, Typed, Patching
<1>8. OnePort' BY <1>1 DEF Inv, OnePort
<1>9. OutInUse' BY <1>4 DEF Inv, OutInUse
<1>10. AsAccepted'
  <2> SUFFICES ASSUME ~deleted
               PROVE  (BothExist /\ Agrees /\ OfPorts /\ TxReady /\ InCommand)'
    BY <1>1 DEF AsAccepted
  <2>1. BothExist /\ Agrees /\ OfPorts /\ TxReady /\ InCommand
    BY DEF Inv, AsAccepted
  <2>2. \A j \in Slots : /\ ~Halfway(j)'
                         /\ Halfway(j) <=> j = arg[1]
    BY <1>1 DEF Halfway, Patching
  <2>3. Out(arg[1]) = arg[2] /\ Outq(arg[1]) = arg[3]
    BY <1>1, <2>1 DEF InCommand, Patching
  <2>4. BothExist' BY ZenonT(60), <1>1, <1>5, <2>1 DEF BothExist
  <2>5. Agrees'
    <3> SUFFICES ASSUME NEW j \in Slots, port_map[j] # None
                 PROVE  IF Out(j)' = Reset THEN accepted'[port_map[j]] = <<>>
                        ELSE /\ accepted'[port_map[j]][1] = port_map[Out(j)']
                             /\ accepted'[port_map[j]] # <<>>
                             /\ accepted'[port_map[j]][2] =
                                  IF Halfway(j)' THEN arg'[3] ELSE Outq(j)'
      BY ZenonT(60), <1>1 DEF Agrees
    <3>1. IF Out(j) = Reset THEN accepted[port_map[j]] = <<>>
          ELSE /\ accepted[port_map[j]][1] = port_map[Out(j)]
               /\ accepted[port_map[j]] # <<>>
               /\ accepted[port_map[j]][2] = IF Halfway(j) THEN arg[3] ELSE Outq(j)
      BY ZenonT(60), <2>1 DEF Agrees
    <3>2. /\ Out(j)' = Out(j) /\ Outq(j)' = Outq(j)
          /\ ~Halfway(j)' /\ (Halfway(j) <=> j = arg[1])
      BY ZenonT(60), <1>5, <2>2
    <3> QED BY ZenonT(60), <1>1, <2>3, <3>1, <3>2
  <2>6. OfPorts' BY <1>1, <2>1 DEF OfPorts, Known, Holds
  <2>7. TxReady'
    <3> SUFFICES ASSUME NEW j \in Slots, Out(j) # Reset
                 PROVE  fwd'[<<Out(j), Outq(j)>>].tx
      BY ZenonT(60), <1>5 DEF TxReady
    <3>1. <<Out(j), Outq(j)>> \in Entries BY <1>6, Basics
    <3>2. CASE j = arg[1] BY <1>4, <2>3, <3>2 DEF t
    <3>3. CASE j # arg[1] BY <1>4, <2>1, <2>2, <3>1, <3>3 DEF TxReady
    <3> QED BY <3>2, <3>3
  <2>8. InCommand' BY <1>1 DEF InCommand, Patching
  <2> QED BY <2>4, <2>5, <2>6, <2>7, <2>8
<1> QED BY <1>1, <1>7, <1>8, <1>9, <1>10, TouchKeeps DEF Inv

LEMMA ResetInv ==
  ASSUME Inv, Alive, forward_array_reset
  PROVE  Inv'
<1> USE DEF worker, main
<1>1. /\ mpc = "idle" /\ mpc' = "idle"
      /\ UNCHANGED <<port_map, dev, deleted>>
      /\ accepted' = [r \in Resources |-> <<>>]
      /\ Touches /\ UNCHANGED worker
  BY DEF forward_array_reset
<1>2. fwd' = [e \in Entries |-> IF Scanned(e) /\ fwd[e].in
                                  THEN [fwd[e] EXCEPT !.out = Reset] ELSE fwd[e]]
  BY DEF forward_array_reset
<1>3. fwd \in [Entries -> Entry] BY DEF Inv, Typed
<1>4. fwd' \in [Entries -> Entry] BY <1>2, <1>3 DEF Entry
<1>5. \A e \in Entries : fwd'[e].out = Reset
  <2> SUFFICES ASSUME NEW e \in Entries PROVE fwd'[e].out = Reset OBVIOUS
  <2>1. fwd[e] \in Entry BY <1>3
  <2>2. CASE fwd[e].out = Reset BY <1>2, <2>1, <2>2 DEF Entry
  <2>3. CASE fwd[e].out # Reset
    <3>1. e[2] = 0 /\ fwd[e].in BY <2>3 DEF Inv, OutInUse
    <3>2. Scanned(e) BY <3>1, Basics, FirstScanned
    <3> QED BY <1>2, <2>1, <3>1, <3>2 DEF Entry
  <2> QED BY <2>2, <2>3
<1>6. \A j \in Slots : Out(j)' = Reset BY ZenonT(60), <1>5, Basics DEF Out
<1>7. Typed'
  BY ZenonT(60), <1>1, <1>4, TouchKeeps DEF Inv, Typed, Patching
<1>8. OnePort' BY <1>1 DEF Inv, OnePort
<1>9. OutInUse' BY ZenonT(60), <1>5 DEF OutInUse
<1>10. AsAccepted'
  <2>1. \A j \in Slots : port_map[j] # None => port_map[j] \in Resources
    BY DEF Inv, Typed
  <2> QED
    BY ZenonT(60), <1>1, <1>6, <2>1
       DEF AsAccepted, BothExist, Agrees, OfPorts, TxReady, InCommand, Patching
<1> QED BY <1>1, <1>7, <1>8, <1>9, <1>10, TouchKeeps DEF Inv

(* Deleting a port while there is no patch forgets no patch. *)
LEMMA DelInv ==
  ASSUME Inv, Alive, NEW r \in Added, do_del(r)
  PROVE  Inv'
<1> USE DEF worker
<1> DEFINE i == find_port_id(r)
<1>1. /\ mpc = "idle" /\ mpc' = "del" /\ arg' = <<i>>
      /\ UNCHANGED <<port_map, fwd>>
      /\ Touches /\ UNCHANGED worker
      /\ dev' = IF r \in Rings THEN dev ELSE [dev EXCEPT ![i] = None]
      /\ deleted' = (deleted \/ \E e \in Entries : Patched(e))
  BY ZenonT(60) DEF do_del
<1>2. /\ accepted' = [s \in Resources |->
           IF s = r \/ (accepted[s] # <<>> /\ accepted[s][1] = r) THEN <<>>
                                                           ELSE accepted[s]]
  BY ZenonT(60) DEF do_del
<1>3. i \in Slots /\ port_map[i] = r BY ZenonT(60), FoundPort DEF do_del
<1> HIDE DEF i
<1>4. accepted' \in [Resources -> {<<>>} \cup (Resources \X Queues)]
  BY ZenonT(60), <1>2 DEF Inv, Typed
<1>5. Typed'
  BY ZenonT(60), <1>1, <1>3, <1>4, TouchKeeps DEF Inv, Typed, Patching
<1>6. OnePort' BY ZenonT(60), <1>1, <1>3 DEF Inv, Typed, OnePort
<1>7. OutInUse' BY ZenonT(60), <1>1 DEF Inv, OutInUse
<1>8. AsAccepted'
  <2> SUFFICES ASSUME ~deleted'
               PROVE  (BothExist /\ Agrees /\ OfPorts /\ TxReady /\ InCommand)'
    BY DEF AsAccepted
  <2>1. ~deleted /\ \A e \in Entries : ~Patched(e) BY ZenonT(60), <1>1
  <2>2. BothExist /\ Agrees /\ OfPorts BY <2>1 DEF Inv, AsAccepted
  <2>3. \A j \in Slots : Out(j) = Reset
    <3> SUFFICES ASSUME NEW j \in Slots, Out(j) # Reset PROVE FALSE OBVIOUS
    <3>1. <<j, 0>> \in Entries /\ fwd[<<j, 0>>].in
      BY Basics DEF Inv, OutInUse, Out
    <3> QED BY <2>1, <3>1, FirstScanned DEF Patched, Out
  <2>4. \A s \in Resources : accepted[s] = <<>>
    <3> SUFFICES ASSUME NEW s \in Resources, accepted[s] # <<>> PROVE FALSE
      OBVIOUS
    <3>1. PICK j \in Slots : port_map[j] = s BY <2>2 DEF OfPorts, Known, Holds
    <3> QED BY <2>2, <2>3, <3>1, Basics DEF Agrees
  <2>5. \A s \in Resources : accepted'[s] = <<>> BY <1>2, <2>4
  <2>6. \A j \in Slots : Out(j)' = Reset BY <1>1, <2>3 DEF Out
  <2>7. \A j \in Slots : port_map[j] # None => port_map[j] \in Resources
    BY DEF Inv, Typed
  <2> QED BY ZenonT(60), <1>1, <2>5, <2>6, <2>7
          DEF BothExist, Agrees, OfPorts, TxReady, InCommand, Patching
<1> QED BY ZenonT(60), <1>1, <1>5, <1>6, <1>7, <1>8, TouchKeeps DEF Inv

(* forward_array_remove leaves an entry as it is, or without destination. *)
LEMMA Removed ==
  ASSUME NEW f \in [Entries -> Entry], NEW i \in Slots
  PROVE  LET g == forward_array_remove([f EXCEPT ![<<i, 0>>] = Cleared(@)], i)
         IN /\ g \in [Entries -> Entry]
            /\ g[<<i, 0>>].out = Reset
            /\ \A e \in Entries : e # <<i, 0>> =>
                 g[e].in = f[e].in /\ g[e].out \in {f[e].out, Reset}
<1> DEFINE c == [f EXCEPT ![<<i, 0>>] = Cleared(@)]
           g == forward_array_remove(c, i)
<1>1. <<i, 0>> \in Entries /\ 0 \in Queues BY Basics
<1>2. \A e \in Entries : f[e] \in Entry OBVIOUS
<1>3. Cleared(f[<<i, 0>>]) \in Entry /\ Cleared(f[<<i, 0>>]).out = Reset
  BY ZenonT(60), <1>1, <1>2 DEF Cleared, Entry
<1>4. /\ c \in [Entries -> Entry] /\ c[<<i, 0>>].out = Reset
      /\ \A e \in Entries : e # <<i, 0>> => c[e] = f[e]
  BY <1>1, <1>3
<1> HIDE DEF c
<1>5. \A e \in Entries : g[e] = c[e] \/ g[e] = [c[e] EXCEPT !.out = Reset]
  BY DEF forward_array_remove
<1>6. g = [e \in Entries |-> g[e]] BY DEF forward_array_remove
<1> HIDE DEF g
<1>7. \A e \in Entries : g[e] \in Entry /\ g[e].in = c[e].in
                         /\ g[e].out \in {c[e].out, Reset}
  <2>1. \A x \in Entry : LET y == [x EXCEPT !.out = Reset]
                         IN y \in Entry /\ y.in = x.in /\ y.out = Reset
    BY DEF Entry
  <2> SUFFICES ASSUME NEW e \in Entries
               PROVE  /\ g[e] \in Entry /\ g[e].in = c[e].in
                      /\ g[e].out \in {c[e].out, Reset}
    OBVIOUS
  <2>2. c[e] \in Entry BY <1>4
  <2>3. CASE g[e] = c[e] BY <2>2, <2>3
  <2>4. CASE g[e] = [c[e] EXCEPT !.out = Reset] BY ZenonT(60), <2>1, <2>2, <2>4
  <2> QED BY <1>5, <2>3, <2>4
<1>8. /\ g \in [Entries -> Entry]
      /\ g[<<i, 0>>].out = Reset
      /\ \A e \in Entries : e # <<i, 0>> =>
           g[e].in = f[e].in /\ g[e].out \in {f[e].out, Reset}
  BY ZenonT(60), <1>1, <1>4, <1>6, <1>7
<1> QED BY ZenonT(60), <1>8 DEF g, c

LEMMA DelTablesInv ==
  ASSUME Inv, Alive, DelTables
  PROVE  Inv'
<1> USE DEF worker
<1>1. /\ mpc = "del" /\ mpc' = "idle"
      /\ port_map' = [port_map EXCEPT ![arg[1]] = None]
      /\ UNCHANGED <<dev, accepted, deleted>>
      /\ Touches /\ UNCHANGED worker
  BY ZenonT(60) DEF DelTables
<1>2. arg[1] \in Slots /\ <<arg[1], 0>> \in Entries
  BY ZenonT(60), <1>1, Basics DEF Inv, Typed
<1>3. fwd \in [Entries -> Entry] BY DEF Inv, Typed
<1>4. /\ fwd' \in [Entries -> Entry]
      /\ fwd'[<<arg[1], 0>>].out = Reset
      /\ \A e \in Entries : e # <<arg[1], 0>> =>
           fwd'[e].in = fwd[e].in /\ fwd'[e].out \in {fwd[e].out, Reset}
  BY ZenonT(60), <1>2, <1>3, Removed DEF DelTables
<1>5. Typed'
  BY <1>1, <1>2, <1>4, TouchKeeps DEF Inv, Typed, Patching
<1>6. OnePort' BY <1>1, <1>2 DEF Inv, Typed, OnePort
<1>7. OutInUse' BY <1>4 DEF Inv, OutInUse
<1>8. AsAccepted'
  <2> SUFFICES ASSUME ~deleted
               PROVE  (BothExist /\ Agrees /\ OfPorts /\ TxReady /\ InCommand)'
    BY <1>1 DEF AsAccepted
  <2>1. Agrees /\ OfPorts BY DEF Inv, AsAccepted
  <2>2. \A j \in Slots : Out(j) = Reset
    BY ZenonT(60), <1>1 DEF Inv, AsAccepted, InCommand
  <2>3. \A s \in Resources : accepted[s] = <<>>
    <3> SUFFICES ASSUME NEW s \in Resources, accepted[s] # <<>> PROVE FALSE
      OBVIOUS
    <3>1. PICK j \in Slots : port_map[j] = s BY <2>1 DEF OfPorts, Known, Holds
    <3> QED BY ZenonT(60), <2>1, <2>2, <3>1, Basics DEF Agrees
  <2>4. \A j \in Slots : Out(j)' = Reset
    BY <1>4, <2>2, Basics DEF Out
  <2>5. \A j \in Slots : port_map'[j] # None => port_map'[j] \in Resources
    BY <1>5 DEF Typed
  <2> QED BY <1>1, <2>3, <2>4, <2>5
          DEF BothExist, Agrees, OfPorts, TxReady, InCommand, Patching
<1> QED BY ZenonT(60), <1>1, <1>5, <1>6, <1>7, <1>8, TouchKeeps DEF Inv

(* The commands that touch no table *)
LEMMA PlainInv ==
  ASSUME Inv, Alive, UNCHANGED <<tables, arg, worker, ghosts>>,
         mpc = "idle", mpc' \in {"idle", "exit"}
  PROVE  Inv'
<1> USE DEF tables, worker, ghosts, Inv
<1>1. Typed' BY ZenonT(60) DEF Typed, Patching
<1>2. OnePort' BY ZenonT(60) DEF OnePort
<1>3. OutInUse' BY ZenonT(60) DEF OutInUse
<1>4. AsAccepted'
  BY DEF AsAccepted, BothExist, Agrees, OfPorts, TxReady, InCommand, Patching,
         Halfway, Out, Outq, Known, Holds
<1>5. InPass' /\ CrashOnlyIfRaced' BY DEF InPass, CrashOnlyIfRaced
<1> QED BY ZenonT(60), <1>1, <1>2, <1>3, <1>4, <1>5

LEMMA StepInv == Inv /\ [Next]_vars => Inv'
<1> SUFFICES ASSUME Inv, [Next]_vars PROVE Inv' BY ZenonT(60)
<1>1. CASE UNCHANGED vars
  BY <1>1 DEF vars, tables, main, worker, ghosts, Inv, Typed, OnePort, OutInUse,
              AsAccepted, BothExist, Agrees, OfPorts, TxReady, InCommand,
              Patching, Halfway, Out, Outq, Known, Holds, InPass,
              CrashOnlyIfRaced
<1>2. CASE Next
  <2>0. Alive BY <1>2 DEF Next
  <2>1. ASSUME NEW r \in Added, do_add(r) \/ do_del(r) PROVE Inv'
    BY ZenonT(60), <2>0, <2>1, AddInv, DelInv
  <2>2. ASSUME NEW r \in Added, do_delUnknown(r) PROVE Inv'
    BY ZenonT(60), <2>0, <2>2, PlainInv DEF do_delUnknown
  <2>3. CASE ForwardStop("FORWARD") \/ ForwardStop("STOP") \/ Exit
    BY <2>0, <2>3, PlainInv DEF ForwardStop, Exit
  <2> QED BY ZenonT(60), <1>2, <2>0, <2>1, <2>2, <2>3, PatchInInv, PatchQueueInv, PatchOutInv,
             ResetInv, DelTablesInv, WorkerInv DEF Next, parse_command
<1> QED BY <1>1, <1>2

LEMMA SpecInv == Spec => []Inv
BY InitInv, StepInv, PTL DEF Spec

(* nfv_loop fails, by calling the driver of a device that is gone or a      *)
(* function that is not set, only in a pass of forward() that a command     *)
(* overlapped or after a port was deleted while there were patches.         *)
THEOREM CrashOnlyIfRacedAlways == Spec => []CrashOnlyIfRaced
<1>1. Inv => CrashOnlyIfRaced BY ZenonT(60) DEF Inv
<1> QED BY <1>1, SpecInv, PTL

(* forward() sends a burst where its source was patched to, for any number  *)
(* of ports and queues, if no command overlaps the pass and no patched port *)
(* was deleted.                                                             *)
THEOREM FollowsPatchAlways == Spec => []FollowsPatch
<1>1. Inv => FollowsPatch BY ZenonT(60), PassSound DEF FollowsPatch
<1> QED BY <1>1, SpecInv, PTL

LEMMA InvPatched == Inv => PatchedAsAccepted
<1> SUFFICES ASSUME Inv, mpc = "idle", ~deleted
             PROVE  {<<port_map[e[1]], port_map[fwd[e].out], fwd[e].outq>>
                       : e \in ListedPatches}
                    = {<<r, accepted[r][1], accepted[r][2]>>
                         : r \in {s \in Resources : accepted[s] # <<>>}}
  BY DEF PatchedAsAccepted
<1>1. /\ Agrees /\ OfPorts /\ BothExist BY DEF Inv, AsAccepted
<1>2. \A i \in Slots : ~Halfway(i) BY ZenonT(60) DEF Halfway, Patching
<1>3. \A i \in Slots : port_map[i] # None => port_map[i] \in Resources
  BY ZenonT(60) DEF Inv, Typed
<1>4. \A e \in ListedPatches :
        \E r \in {s \in Resources : accepted[s] # <<>>} :
          <<port_map[e[1]], port_map[fwd[e].out], fwd[e].outq>>
            = <<r, accepted[r][1], accepted[r][2]>>
  <2> SUFFICES ASSUME NEW e \in ListedPatches
               PROVE  \E r \in {s \in Resources : accepted[s] # <<>>} :
                        /\ r = port_map[e[1]]
                        /\ accepted[r][1] = port_map[fwd[e].out]
                        /\ accepted[r][2] = fwd[e].outq
    OBVIOUS
  <2>1. e \in Entries /\ fwd[e].out # Reset BY DEF ListedPatches, ListedPorts
  <2>2. e[2] = 0 BY <2>1 DEF Inv, OutInUse
  <2>3. e = <<e[1], 0>> /\ e[1] \in Slots BY <2>1, <2>2, Basics
  <2>4. Out(e[1]) = fwd[e].out /\ Outq(e[1]) = fwd[e].outq
    BY ZenonT(60), <2>3 DEF Out, Outq
  <2> QED BY ZenonT(60), <1>1, <1>2, <1>3, <2>1, <2>3, <2>4 DEF Agrees, BothExist
<1>5. \A r \in {s \in Resources : accepted[s] # <<>>} :
        \E e \in ListedPatches :
          <<port_map[e[1]], port_map[fwd[e].out], fwd[e].outq>>
            = <<r, accepted[r][1], accepted[r][2]>>
  <2> SUFFICES ASSUME NEW r \in Resources, accepted[r] # <<>>
               PROVE  \E e \in ListedPatches :
                        /\ port_map[e[1]] = r
                        /\ port_map[fwd[e].out] = accepted[r][1]
                        /\ fwd[e].outq = accepted[r][2]
    BY ZenonT(60)
  <2>1. PICK i \in Slots : port_map[i] = r BY <1>1 DEF OfPorts, Known, Holds
  <2>2. r # None /\ <<i, 0>> \in Entries BY ZenonT(60), Basics
  <2>3. /\ Out(i) # Reset /\ port_map[Out(i)] = accepted[r][1]
        /\ Outq(i) = accepted[r][2]
    BY ZenonT(60), <1>1, <1>2, <2>1, <2>2 DEF Agrees
  <2>4. <<i, 0>> \in ListedPatches
    BY <2>2, <2>3, FirstScanned
       DEF ListedPatches, ListedPorts, Out, Inv, OutInUse
  <2> QED BY ZenonT(60), <2>1, <2>3, <2>4 DEF Out, Outq
<1> QED BY <1>4, <1>5

(* The patches that status lists between commands are exactly those that    *)
(* were asked for, for any number of ports and queues and any sequence of   *)
(* add, del, patch and reset that deletes no port while there are patches.  *)
THEOREM PatchedAsAcceptedAlways == Spec => []PatchedAsAccepted
BY InvPatched, SpecInv, PTL
=============================================================================
