--------------------------- MODULE VfWorkerProofs ---------------------------
(***************************************************************************)
(* For any lcores, components and ports, and whenever a signal comes: the  *)
(* list of components that a slave walks through is not changed under it   *)
(* and no component is worked on by two slaves, whatever fails; and, where *)
(* the steps named with each theorem do not fail, the lists are complete,  *)
(* an answered command is in force and no queue has two users.             *)
(***************************************************************************)
EXTENDS VfWorker, TLAPS, FiniteSetTheorems, WellFoundedInduction

(* The indices name a side, and every lcore has two lists. *)
SidesTyped == /\ ref \in [Lcores -> Sides] /\ upd \in [Lcores -> Sides]
              /\ side \in [Slaves -> Sides]
              /\ core = [l \in Lcores |-> [s \in Sides |-> core[l][s]]]

(* A slave walks the side it has published as its own. *)
OnRefSide == \A l \in Slaves : side[l] = ref[l]

(* A list is handed over only while update_lcore_info waits for its lcore. *)
HandedOver == \A l \in Lcores : ref[l] = upd[l] => mpc = "cores" /\ l \in todo

Inv == SidesTyped /\ OnRefSide /\ HandedOver

LEMMA InitInv == Init => Inv
BY DEF Init, Inv, SidesTyped, OnRefSide, HandedOver, Sides, Lcores

(* The steps of the master edit one list, of which the slave has published  *)
(* that it is not walking it.                                               *)
Edits(l, s) == /\ ref[l] # upd[l] \/ l \notin Lcores
               /\ core' = [core EXCEPT ![l][upd[l]] = s]

LEMMA EditKeeps ==
  ASSUME SidesTyped, OnRefSide, NEW m, NEW s, Edits(m, s)
  PROVE  /\ core' = [l \in Lcores |-> [t \in Sides |-> core'[l][t]]]
         /\ \A l \in Slaves : core'[l][side[l]] = core[l][side[l]]
<1> DEFINE f == [l \in Lcores |-> [t \in Sides |-> core[l][t]]]
<1>1. core = f BY DEF SidesTyped
<1>2. core' = [l \in Lcores |-> IF l = m THEN [core[l] EXCEPT ![upd[l]] = s]
                                       ELSE core[l]]
  BY Zenon, <1>1 DEF Edits
<1>3. \A l \in Lcores : core[l] = [t \in Sides |-> core[l][t]] BY <1>1
<1>4. core' = [l \in Lcores |-> [t \in Sides |-> core'[l][t]]]
  <2>1. \A l \in Lcores : core'[l] = [t \in Sides |-> core'[l][t]]
    BY Zenon, <1>2, <1>3
  <2> QED BY <1>2, <2>1
<1>5. \A l \in Slaves : core'[l][side[l]] = core[l][side[l]]
  BY <1>2, <1>3 DEF Edits, SidesTyped, OnRefSide, Lcores
<1> QED BY <1>4, <1>5

(* A step that hands no list over, and ends no wait before its time *)
NoHandOver == /\ UNCHANGED <<ref, upd, side>>
              /\ mpc = "cores" => \A l \in todo : \/ mpc' = "cores" /\ l \in todo'
                                                 \/ ref[l] # upd[l]

Quiet == NoHandOver /\ UNCHANGED core
Editing == NoHandOver /\ \E l, s : Edits(l, s)

LEMMA CommandKind ==
  ASSUME Inv, Command
  PROVE  Quiet \/ Editing
<1> USE DEF Inv, HandedOver, NoHandOver, Listening, registry, slaves, buffers
<1>1. ASSUME NEW n \in Names, NEW l \in Targets, NEW t \in Types,
             CompStart(n, l, t)
      PROVE  Editing
  <2> DEFINE s == Append(core[l][upd[l]], get_free_lcore_id)
  <2>1. Edits(l, s) BY <1>1 DEF CompStart, Edits
  <2> QED BY <1>1, <2>1 DEF CompStart, Editing
<1>2. ASSUME NEW n \in Names, CompStop(n) PROVE Editing
  <2> DEFINE i == First({j \in Ids : comp[j].name = n})
             l == comp[i].lcore
             s == del_comp_info(i, core[l][upd[l]])
  <2>1. Edits(l, s) BY Zenon, <1>2 DEF CompStop, Edits
  <2> QED BY Zenon, <1>2, <2>1 DEF CompStop, Editing
<1>3. ASSUME NEW n \in Names, CompStopUnknown(n) PROVE Quiet
  BY <1>3 DEF CompStopUnknown, Quiet
<1>4. ASSUME NEW n \in Names, NEW p \in Ports, NEW d \in Dirs,
             NEW tag \in {FALSE, MayTag}, PortAdd(n, p, d, tag)
      PROVE  Quiet
  BY <1>4 DEF PortAdd, Quiet
<1>5. ASSUME NEW n \in Names, NEW p \in Ports, NEW d \in Dirs, PortDel(n, p, d)
      PROVE  Quiet
  BY <1>5 DEF PortDel, Quiet
<1>6. CASE ExitCommand BY <1>6 DEF ExitCommand, Quiet
<1> QED BY ZenonT(60), <1>1, <1>2, <1>3, <1>4, <1>5, <1>6 DEF Command

LEMMA FlushKind ==
  ASSUME Inv, Flush
  PROVE  Quiet \/ Editing \/ PublishCores
<1> USE DEF NoHandOver, Quiet, registry, slaves, buffers
<1>1. CASE UpdatePorts BY <1>1 DEF UpdatePorts
<1>2. CASE UpdatePortsFails BY <1>2 DEF UpdatePortsFails
<1>3. CASE WaitCore
  <2> DEFINE l == First(todo)
  <2>1. Edits(l, core[l][ref[l]]) BY <1>3 DEF WaitCore, Edits
  <2>2. NoHandOver BY <1>3 DEF WaitCore
  <2> QED BY <2>1, <2>2 DEF Editing
<1>4. CASE CoresDone BY <1>4 DEF CoresDone
<1>5. CASE UpdateComp BY <1>5 DEF UpdateComp
<1>6. CASE UpdateCompFails BY <1>6 DEF UpdateCompFails
<1>7. CASE PublishComp BY <1>7 DEF PublishComp
<1>8. CASE WaitComp BY <1>8 DEF WaitComp
<1>9. CASE FlushDone BY <1>9 DEF FlushDone
<1> QED BY ZenonT(60), <1>1, <1>2, <1>3, <1>4, <1>5, <1>6, <1>7, <1>8, <1>9 DEF Flush

LEMMA MainKind ==
  ASSUME MainSteps \/ Signal
  PROVE  Quiet
<1> USE DEF NoHandOver, Quiet, registry, slaves, buffers, master
<1>1. CASE LaunchSlaves BY <1>1 DEF LaunchSlaves
<1>2. CASE MasterIdling BY <1>2 DEF MasterIdling
<1>3. CASE CheckIdling BY <1>3 DEF CheckIdling
<1>4. CASE SetRunning BY <1>4 DEF SetRunning
<1>5. CASE QuitLoop BY <1>5 DEF QuitLoop
<1>6. CASE Finalize BY <1>6 DEF Finalize
<1>7. CASE Exit BY <1>7 DEF Exit
<1>8. CASE Signal BY <1>8 DEF Signal
<1> QED BY ZenonT(60), <1>1, <1>2, <1>3, <1>4, <1>5, <1>6, <1>7, <1>8 DEF MainSteps

LEMMA SlaveKind ==
  ASSUME NEW l \in Slaves, SlaveMain(l)
  PROVE  Quiet \/ Boot(l) \/ Top(l)
<1> USE DEF NoHandOver, Quiet, registry, buffers, master
<1>1. CASE SlaveStop(l) BY <1>1 DEF SlaveStop
<1>2. CASE Call(l) BY <1>2 DEF Call
<1>3. CASE Enter(l) BY <1>3 DEF Enter
<1>4. CASE Leave(l) BY <1>4 DEF Leave
<1> QED BY <1>1, <1>2, <1>3, <1>4 DEF SlaveMain

(* What a step can be, as far as the lists are concerned *)
LEMMA StepKind ==
  ASSUME Inv, [Next]_vars
  PROVE  \/ Quiet \/ Editing \/ PublishCores
         \/ \E l \in Slaves : Boot(l) \/ Top(l)
<1>1. CASE UNCHANGED vars BY <1>1 DEF vars, Quiet, NoHandOver
<1>2. CASE Next
  BY <1>2, CommandKind, FlushKind, MainKind, SlaveKind DEF Next
<1> QED BY <1>1, <1>2

LEMMA StepInv == Inv /\ [Next]_vars => Inv'
<1> SUFFICES ASSUME Inv, [Next]_vars PROVE Inv' OBVIOUS
<1> USE DEF Inv, OnRefSide, HandedOver
<1>1. CASE Quiet BY <1>1 DEF Quiet, NoHandOver, SidesTyped
<1>2. CASE Editing
  <2>1. PICK m, s : Edits(m, s) BY <1>2 DEF Editing
  <2>2. core' = [l \in Lcores |-> [t \in Sides |-> core'[l][t]]]
    BY <2>1, EditKeeps
  <2> QED BY <1>2, <2>2 DEF Editing, NoHandOver, SidesTyped
<1>3. CASE PublishCores BY <1>3 DEF PublishCores, SidesTyped, slaves, registry
<1>4. ASSUME NEW m \in Slaves, Boot(m) PROVE Inv'
  BY <1>4 DEF Boot, SidesTyped, master, Lcores
<1>5. ASSUME NEW m \in Slaves, Top(m) PROVE Inv'
  <2>1. m \in Lcores BY DEF Lcores
  <2>2. (upd[m] + 1) % 2 \in Sides /\ (upd[m] + 1) % 2 # upd[m]
    BY <2>1 DEF SidesTyped, Sides
  <2> QED BY <1>5, <2>1, <2>2 DEF Top, SidesTyped, master, Lcores
<1> QED BY <1>1, <1>2, <1>3, <1>4, <1>5, StepKind

LEMMA SpecInv == Spec => []Inv
BY InitInv, StepInv, PTL DEF Spec

(* A slave that is walking keeps its side, and what is stored on it. *)
LEMMA StepStable ==
  ASSUME Inv, [Next]_vars
  PROVE  \A l \in Slaves : Walking(l) => core'[l][side[l]] = core[l][side[l]]
<1> USE DEF Inv
<1>1. CASE Quiet BY <1>1 DEF Quiet
<1>2. CASE Editing BY <1>2, EditKeeps DEF Editing
<1>3. CASE PublishCores BY <1>3 DEF PublishCores
<1>4. CASE \E l \in Slaves : Boot(l) \/ Top(l) BY <1>4 DEF Boot, Top
<1> QED BY <1>1, <1>2, <1>3, <1>4, StepKind

(* update_comp and update_lcore_info edit and copy the lists while slaves   *)
(* walk them, with no lock: the side they write is never the one a slave is *)
(* on, however many lcores there are, whatever flush fails, and also when   *)
(* the slaves stop.                                                         *)
THEOREM ListStableAlways == Spec => ListStable
<1>1. Inv /\ [Next]_vars =>
        [\A l \in Slaves : Walking(l) => core'[l][side[l]] = core[l][side[l]]]_vars
  BY StepStable
<1> QED BY <1>1, SpecInv, PTL DEF Spec, ListStable

-----------------------------------------------------------------------------
(* The contents of the lists, as long as ports can be attached.            *)

Component == [name : Names \union {""}, type : Types \union {"none"},
              lcore : Lcores \union {0}, rx : SUBSET Ports, tx : SUBSET Ports]

(* A slot of g_component_info is free, or holds a named component of one of *)
(* the lcores.                                                              *)
SlotsTyped == /\ comp \in [Ids -> Component]
              /\ \A i \in Ids : \/ comp[i] = ZeroComp
                                \/ /\ comp[i].type \in Types
                                   /\ comp[i].name \in Names
                                   /\ comp[i].lcore \in Lcores
              /\ core \in [Lcores -> [Sides -> Seq(Ids)]]

Free == {i \in Ids : comp[i].type = "none"}

(* A list that holds each element of A once *)
OnceEach(ids, A) == /\ \A n \in 1 .. Len(ids) : ids[n] \in A
                    /\ \A i \in A : \E n \in 1 .. Len(ids) : ids[n] = i
                    /\ \A m, n \in 1 .. Len(ids) : ids[m] = ids[n] => m = n
Within(ids, A) == \A n \in 1 .. Len(ids) : ids[n] \in A

(* The lcore whose list a command has edited, until WaitCore, and the side  *)
(* that still has the list from before the command                          *)
Edited(l) == \/ mpc \in {"ports", "publish"} /\ l \in change_core
             \/ mpc = "cores" /\ l \in todo
OldSide(l) == IF mpc = "cores" /\ ref[l] # upd[l] THEN upd[l] ELSE ref[l]

InFlush == mpc \in {"ports", "publish", "cores", "comps", "fill", "wait"}

(* One command is flushed at a time. *)
OneChange == /\ change_core \subseteq Lcores
             /\ \A l, m \in change_core : l = m
             /\ ~InFlush => change_core = {} /\ change_comp = {}
             /\ mpc = "cores" => todo \subseteq change_core

(* Both sides hold the components of the lcore, but for the old side of an  *)
(* lcore that is edited: it may hold the one that was stopped, or lack the  *)
(* one that was started.                                                    *)
Lists == \A l \in Lcores :
           /\ \A s \in Sides : IF Edited(l) /\ s = OldSide(l)
                                 THEN Within(core[l][s], Assigned(l) \union Free)
                                 ELSE OnceEach(core[l][s], Assigned(l))
           /\ ~Edited(l) => core[l][0] = core[l][1]

(* A slave that walks is at a position of its list. *)
InList == /\ pos \in [Slaves -> Nat \ {0}] /\ DOMAIN spc = Slaves
          /\ \A l \in Slaves : Walking(l) => pos[l] <= Len(core[l][side[l]])

ListInv == SlotsTyped /\ OneChange /\ Lists /\ InList

LEMMA FirstIn ==
  ASSUME NEW S, S \subseteq Nat, S # {}
  PROVE  First(S) \in S /\ \A y \in S : First(S) <= y
<1>1. \E x \in S : \A y \in S : ~(<<y, x>> \in OpToRel(<, Nat))
  BY Zenon, NatLessThanWellFounded, WFMin
<1>2. PICK x \in S : \A y \in S : ~(<<y, x>> \in OpToRel(<, Nat)) BY Zenon, <1>1
<1>3. \A y \in S : x <= y
  <2> SUFFICES ASSUME NEW y \in S PROVE x <= y OBVIOUS
  <2>1. ~(y < x) BY Zenon, <1>2 DEF OpToRel
  <2> QED BY <2>1
<1> QED BY Zenon, <1>3 DEF First

LEMMA AppendOnce ==
  ASSUME NEW T, NEW ids \in Seq(T), NEW i \in T, NEW A, i \notin A,
         OnceEach(ids, A)
  PROVE  Append(ids, i) \in Seq(T) /\ OnceEach(Append(ids, i), A \union {i})
<1> DEFINE new == Append(ids, i)
<1>1. /\ new \in Seq(T) /\ Len(ids) \in Nat /\ Len(new) = Len(ids) + 1
      /\ \A n \in 1 .. Len(ids) : new[n] = ids[n]
      /\ new[Len(ids) + 1] = i
  OBVIOUS
<1>2. \A n \in 1 .. Len(new) : n \in 1 .. Len(ids) \/ n = Len(ids) + 1 BY <1>1
<1>3. \A n \in 1 .. Len(ids) : n \in 1 .. Len(new) BY <1>1
<1>4. Len(ids) + 1 \in 1 .. Len(new) BY <1>1
<1> HIDE DEF new
<1>5. \A n \in 1 .. Len(new) : new[n] \in A \union {i}
  BY <1>1, <1>2 DEF OnceEach
<1>6. \A j \in A \union {i} : \E n \in 1 .. Len(new) : new[n] = j
  BY <1>1, <1>3, <1>4 DEF OnceEach
<1>7. \A m, n \in 1 .. Len(new) : new[m] = new[n] => m = n
  BY <1>1, <1>2 DEF OnceEach
<1>8. OnceEach(new, A \union {i}) BY <1>5, <1>6, <1>7 DEF OnceEach
<1> QED BY <1>1, <1>8 DEF new

(* del_comp_info removes the one entry there is. *)
LEMMA DelOnce ==
  ASSUME NEW T, NEW ids \in Seq(T), NEW A, NEW i \in A, OnceEach(ids, A)
  PROVE  /\ del_comp_info(i, ids) \in Seq(T)
         /\ OnceEach(del_comp_info(i, ids), A \ {i})
<1> DEFINE k == DelIndex(i, ids)
           len == Len(ids)
           new == del_comp_info(i, ids)
<1>1. len \in Nat OBVIOUS
<1>2. k \in 1 .. len /\ ids[k] = i /\ \A m \in 1 .. len : ids[m] = i => m = k
  <2> DEFINE found == {m \in 1 .. len : ids[m] = i}
  <2>1. PICK m \in 1 .. len : ids[m] = i BY DEF OnceEach
  <2>2. found = {m} BY <2>1 DEF OnceEach
  <2>3. k = CHOOSE x \in found : \A y \in found : y <= x
    BY <2>2 DEF DelIndex
  <2>4. m <= m BY <2>1, <1>1
  <2>5. k \in found BY <2>2, <2>3, <2>4
  <2> QED BY <2>2, <2>5
<1>3. new = SubSeq(ids, 1, k - 1) \o SubSeq(ids, k + 1, len)
  BY DEF del_comp_info
<1> HIDE DEF k, len, new
<1>4. /\ SubSeq(ids, 1, k - 1) \in Seq(T) /\ Len(SubSeq(ids, 1, k - 1)) = k - 1
      /\ \A n \in 1 .. (k - 1) : SubSeq(ids, 1, k - 1)[n] = ids[n]
  BY <1>1, <1>2 DEF len
<1>5. /\ SubSeq(ids, k + 1, len) \in Seq(T)
      /\ Len(SubSeq(ids, k + 1, len)) = len - k
      /\ \A n \in 1 .. (len - k) : SubSeq(ids, k + 1, len)[n] = ids[k + n]
  BY <1>1, <1>2 DEF len
<1>6. /\ new \in Seq(T) /\ Len(new) = len - 1
      /\ \A n \in 1 .. (len - 1) : new[n] = IF n < k THEN ids[n] ELSE ids[n + 1]
  <2> DEFINE a == SubSeq(ids, 1, k - 1)
             b == SubSeq(ids, k + 1, len)
  <2> HIDE DEF a, b
  <2>1. a \in Seq(T) /\ Len(a) = k - 1 /\ \A n \in 1 .. (k - 1) : a[n] = ids[n]
    BY <1>4 DEF a
  <2>2. /\ b \in Seq(T) /\ Len(b) = len - k
        /\ \A n \in 1 .. (len - k) : b[n] = ids[k + n]
    BY <1>5 DEF b
  <2>3. new = a \o b BY <1>3 DEF a, b
  <2>0. \A f, g \in Seq(T) : f \o g \in Seq(T) /\ Len(f \o g) = Len(f) + Len(g)
    OBVIOUS
  <2>4. new \in Seq(T) /\ Len(new) = (k - 1) + (len - k)
    BY Zenon, <2>0, <2>1, <2>2, <2>3
  <2>5. \A n \in 1 .. (len - 1) : new[n] = IF n <= k - 1 THEN a[n] ELSE b[n - (k - 1)]
    BY <1>1, <1>2, <2>1, <2>2, <2>3
  <2>6. ASSUME NEW n \in 1 .. (len - 1)
        PROVE  new[n] = IF n < k THEN ids[n] ELSE ids[n + 1]
    <3>1. CASE n < k
      <4>1. n \in 1 .. (k - 1) BY <1>1, <1>2, <3>1
      <4> QED BY <1>2, <2>1, <2>5, <3>1, <4>1
    <3>2. CASE ~(n < k)
      <4>1. n - (k - 1) \in 1 .. (len - k) /\ k + (n - (k - 1)) = n + 1
        BY <1>1, <1>2, <3>2
      <4>2. ~(n <= k - 1) BY <1>2, <3>2
      <4>3. b[n - (k - 1)] = ids[n + 1] BY <2>2, <4>1
      <4> QED BY <2>5, <3>2, <4>2, <4>3
    <3> QED BY <3>1, <3>2
  <2> QED BY <1>1, <1>2, <2>4, <2>6
<1>7. \A n \in 1 .. (len - 1) :
        /\ n < k => n \in 1 .. len /\ n # k
        /\ ~(n < k) => n + 1 \in 1 .. len /\ n + 1 # k
  BY <1>1, <1>2
<1>8. \A n \in 1 .. Len(new) : new[n] \in A \ {i}
  BY <1>2, <1>6, <1>7 DEF OnceEach, len
<1>9. \A j \in A \ {i} : \E n \in 1 .. Len(new) : new[n] = j
  <2> SUFFICES ASSUME NEW j \in A \ {i} PROVE \E n \in 1 .. Len(new) : new[n] = j
    OBVIOUS
  <2>1. PICK m \in 1 .. len : ids[m] = j BY DEF OnceEach, len
  <2>2. m # k BY <1>2, <2>1
  <2>3. CASE m < k
    <3>1. m \in 1 .. (len - 1) BY <1>1, <1>2, <2>3
    <3> QED BY <1>6, <2>1, <2>3, <3>1
  <2>4. CASE k < m
    <3>1. m - 1 \in 1 .. (len - 1) /\ ~(m - 1 < k) /\ (m - 1) + 1 = m
      BY <1>1, <1>2, <2>4
    <3> QED BY <1>6, <2>1, <3>1
  <2> QED BY <1>1, <1>2, <2>2, <2>3, <2>4
<1>10. \A m, n \in 1 .. Len(new) : new[m] = new[n] => m = n
  <2> DEFINE at(n) == IF n < k THEN n ELSE n + 1
  <2>1. \A n \in 1 .. (len - 1) : at(n) \in 1 .. len /\ new[n] = ids[at(n)]
    BY <1>6, <1>7
  <2>2. \A m, n \in 1 .. (len - 1) : at(m) = at(n) => m = n BY <1>1, <1>2
  <2> HIDE DEF at
  <2> SUFFICES ASSUME NEW m \in 1 .. (len - 1), NEW n \in 1 .. (len - 1),
                      new[m] = new[n]
               PROVE  m = n
    BY ZenonT(60), <1>6
  <2>3. at(m) \in 1 .. len /\ at(n) \in 1 .. len /\ ids[at(m)] = ids[at(n)]
    BY ZenonT(60), <2>1
  <2>4. at(m) = at(n) BY ZenonT(60), <2>3 DEF OnceEach, len
  <2> QED BY ZenonT(60), <2>2, <2>4
<1>11. OnceEach(new, A \ {i}) BY <1>8, <1>9, <1>10 DEF OnceEach
<1> QED BY <1>6, <1>11 DEF new

LEMMA InitLists == Init => ListInv
<1> SUFFICES ASSUME Init PROVE ListInv OBVIOUS
<1>1. ZeroComp \in Component BY DEF ZeroComp, Component
<1>2. SlotsTyped
  <2>1. <<>> \in Seq(Ids) OBVIOUS
  <2>2. core \in [Lcores -> [Sides -> Seq(Ids)]] BY <2>1 DEF Init
  <2> QED BY <1>1, <2>2 DEF Init, SlotsTyped
<1>3. OneChange BY DEF Init, OneChange, InFlush
<1>4. \A i \in Ids : comp[i].type = "none" BY Zenon DEF Init, ZeroComp
<1>5. Lists
  <2>1. \A l \in Lcores, s \in Sides : core[l][s] = <<>> BY DEF Init
  <2>2. \A l : Assigned(l) = {} BY <1>4 DEF Assigned
  <2>3. OnceEach(<<>>, {}) BY DEF OnceEach
  <2>4. \A l : ~Edited(l) BY DEF Init, Edited
  <2>5. 0 \in Sides /\ 1 \in Sides BY DEF Sides
  <2> QED BY Zenon, <2>1, <2>2, <2>3, <2>4, <2>5 DEF Lists
<1>6. InList BY DEF Init, InList, Walking
<1> QED BY <1>2, <1>3, <1>5, <1>6 DEF ListInv

(* Steps that leave the lists, and which of them is edited, as they are *)
SameSlots == /\ comp' \in [Ids -> Component]
             /\ \A i \in Ids : /\ comp'[i].type = comp[i].type
                               /\ comp'[i].name = comp[i].name
                               /\ comp'[i].lcore = comp[i].lcore
                               /\ comp[i] = ZeroComp => comp'[i] = ZeroComp
SameEdited == /\ UNCHANGED <<core, ref, upd>>
              /\ \A l \in Lcores : Edited(l)' <=> Edited(l)
              /\ \A l \in Lcores : Edited(l) => (mpc' = "cores" <=> mpc = "cores")

LEMMA SlotsSame ==
  ASSUME SameSlots
  PROVE  Free' = Free /\ \A l : Assigned(l)' = Assigned(l)
BY DEF SameSlots, Free, Assigned

LEMMA ListsSame ==
  ASSUME Lists, SlotsTyped, SameSlots, SameEdited
  PROVE  Lists' /\ SlotsTyped'
<1>1. \A l \in Lcores : Edited(l) => OldSide(l)' = OldSide(l)
  BY DEF SameEdited, OldSide
<1>2. Free' = Free /\ \A l : Assigned(l)' = Assigned(l) BY SlotsSame
<1>3. SlotsTyped' BY DEF SlotsTyped, SameSlots, SameEdited
<1>4. Lists' BY ZenonT(60), <1>1, <1>2 DEF Lists, SameEdited
<1> QED BY <1>3, <1>4

(* The master leaves the slaves where they are. *)
LEMMA InListMaster ==
  ASSUME Inv, InList, [Next]_vars, UNCHANGED slaves
  PROVE  InList'
BY StepStable DEF InList, slaves, Walking

(* What update_port does to a component *)
SetsPorts(i, d, P) == P \subseteq Ports /\ comp' = [comp EXCEPT ![i][d] = P]

LEMMA PortSlots ==
  ASSUME SlotsTyped, NEW n \in Names, NEW d \in Dirs, NEW P, NEW i \in Ids,
         comp[i].name = n, SetsPorts(i, d, P)
  PROVE  SameSlots
<1>1. comp \in [Ids -> Component] BY DEF SlotsTyped
<1>2. comp[i] # ZeroComp
  <2>1. ZeroComp.name = "" BY DEF ZeroComp
  <2>2. "" \notin Names BY Zenon, VfWorkerAssumption
  <2> QED BY ZenonT(60), <2>1, <2>2
<1>3. CASE d = "rx" BY ZenonT(60), <1>1, <1>2, <1>3 DEF SetsPorts, SameSlots, Component
<1>4. CASE d = "tx" BY ZenonT(60), <1>1, <1>2, <1>4 DEF SetsPorts, SameSlots, Component
<1> QED BY <1>3, <1>4 DEF Dirs

LEMMA PortAddSets ==
  ASSUME SlotsTyped, NEW n \in Names, NEW p \in Ports, NEW d \in Dirs, NEW tag,
         PortAdd(n, p, d, tag)
  PROVE  \E i \in Ids : \E P : /\ comp[i].name = n /\ SetsPorts(i, d, P)
                                /\ P = comp[i][d] \union {p}
                                /\ change_comp' = change_comp \union {i}
<1>1. PICK i \in Ids : /\ comp[i].name = n
                       /\ comp' = [comp EXCEPT ![i][d] = @ \union {p}]
                       /\ change_comp' = change_comp \union {i}
  BY Zenon DEF PortAdd
<1>2. comp[i][d] \union {p} \subseteq Ports
  BY Zenon DEF SlotsTyped, Component, Dirs
<1>3. SetsPorts(i, d, comp[i][d] \union {p}) BY <1>1, <1>2 DEF SetsPorts
<1> QED BY <1>1, <1>3

LEMMA PortDelSets ==
  ASSUME SlotsTyped, NEW n \in Names, NEW p \in Ports, NEW d \in Dirs,
         PortDel(n, p, d)
  PROVE  \E i \in Ids : \E P : /\ comp[i].name = n /\ SetsPorts(i, d, P)
                                /\ P = comp[i][d] \ {p}
                                /\ change_comp' = change_comp \union {i}
<1>1. PICK i \in Ids : /\ comp[i].name = n
                       /\ comp' = [comp EXCEPT ![i][d] = @ \ {p}]
                       /\ change_comp' = change_comp \union {i}
  BY Zenon DEF PortDel
<1>2. comp[i][d] \ {p} \subseteq Ports
  BY Zenon DEF SlotsTyped, Component, Dirs
<1>3. SetsPorts(i, d, comp[i][d] \ {p}) BY <1>1, <1>2 DEF SetsPorts
<1> QED BY <1>1, <1>3

(* The steps of the master that change no list *)
LEMMA CalmMaster ==
  ASSUME "attach" \notin MayFail, Inv, ListInv,
         \/ MainSteps \/ Signal \/ ExitCommand
         \/ \E n \in Names : CompStopUnknown(n)
         \/ \E n \in Names, p \in Ports, d \in Dirs :
              \/ \E tag \in {FALSE, MayTag} : PortAdd(n, p, d, tag)
              \/ PortDel(n, p, d)
         \/ UpdatePorts \/ UpdatePortsFails \/ CoresDone \/ UpdateComp
         \/ UpdateCompFails \/ PublishComp \/ WaitComp \/ FlushDone
  PROVE  /\ SameSlots /\ SameEdited /\ OneChange'
         /\ UNCHANGED <<side, pos>> /\ (UNCHANGED spc \/ LaunchSlaves)
<1> USE DEF registry, buffers, master, slaves, SameEdited, Edited, OneChange,
            InFlush, ListInv
<1>1. ASSUME comp' = comp PROVE SameSlots BY ZenonT(60), <1>1 DEF SameSlots, SlotsTyped
<1>2. CASE MainSteps
  <2>1. CASE LaunchSlaves BY ZenonT(60), <1>1, <2>1 DEF LaunchSlaves
  <2>2. CASE MasterIdling BY ZenonT(60), <1>1, <2>2 DEF MasterIdling
  <2>3. CASE CheckIdling BY ZenonT(60), <1>1, <2>3 DEF CheckIdling
  <2>4. CASE SetRunning BY ZenonT(60), <1>1, <2>4 DEF SetRunning
  <2>5. CASE QuitLoop BY ZenonT(60), <1>1, <2>5 DEF QuitLoop
  <2>6. CASE Finalize BY ZenonT(60), <1>1, <2>6 DEF Finalize
  <2>7. CASE Exit BY ZenonT(60), <1>1, <2>7 DEF Exit
  <2> QED BY ZenonT(60), <1>2, <2>1, <2>2, <2>3, <2>4, <2>5, <2>6, <2>7 DEF MainSteps
<1>3. CASE Signal BY ZenonT(60), <1>1, <1>3 DEF Signal
<1>4. CASE ExitCommand BY ZenonT(60), <1>1, <1>4 DEF ExitCommand, Listening
<1>5. ASSUME NEW n \in Names, CompStopUnknown(n)
      PROVE  /\ SameSlots /\ SameEdited /\ OneChange' /\ UNCHANGED <<side, pos, spc>>
  BY ZenonT(60), <1>1, <1>5 DEF CompStopUnknown, Listening
<1>8. ASSUME NEW n \in Names, NEW p \in Ports, NEW d \in Dirs,
             NEW tag \in {FALSE, MayTag}, PortAdd(n, p, d, tag)
      PROVE  /\ SameSlots /\ SameEdited /\ OneChange' /\ UNCHANGED <<side, pos, spc>>
  <2>1. SameSlots BY ZenonT(60), <1>8, PortAddSets, PortSlots
  <2> QED BY ZenonT(60), <1>8, <2>1 DEF PortAdd, Listening
<1>9. ASSUME NEW n \in Names, NEW p \in Ports, NEW d \in Dirs, PortDel(n, p, d)
      PROVE  /\ SameSlots /\ SameEdited /\ OneChange' /\ UNCHANGED <<side, pos, spc>>
  <2>1. SameSlots BY ZenonT(60), <1>9, PortDelSets, PortSlots
  <2> QED BY ZenonT(60), <1>9, <2>1 DEF PortDel, Listening
<1>10. CASE UpdatePorts BY ZenonT(60), <1>1, <1>10 DEF UpdatePorts
<1>11. CASE UpdatePortsFails BY ZenonT(60), <1>11 DEF UpdatePortsFails
<1>12. CASE CoresDone BY ZenonT(60), <1>1, <1>12 DEF CoresDone
<1>13. CASE UpdateComp BY ZenonT(60), <1>1, <1>13 DEF UpdateComp
<1>14. CASE UpdateCompFails BY ZenonT(60), <1>1, <1>14 DEF UpdateCompFails
<1>15. CASE PublishComp BY ZenonT(60), <1>1, <1>15 DEF PublishComp
<1>16. CASE WaitComp BY ZenonT(60), <1>1, <1>16 DEF WaitComp
<1>17. CASE FlushDone BY ZenonT(60), <1>1, <1>17 DEF FlushDone
<1> QED BY ZenonT(60), <1>2, <1>3, <1>4, <1>5, <1>8, <1>9, <1>10, <1>11, <1>12, <1>13,
           <1>14, <1>15, <1>16, <1>17

LEMMA StartLists ==
  ASSUME Inv, ListInv, NEW n \in Names, NEW l \in Targets, NEW t \in Types,
         CompStart(n, l, t)
  PROVE  SlotsTyped' /\ OneChange' /\ Lists' /\ UNCHANGED slaves
<1> DEFINE i == get_free_lcore_id
           u == upd[l]
           s == Append(core[l][u], i)
<1>1. /\ mpc = "idle" /\ mpc' = "ports" /\ UNCHANGED <<ref, upd, slaves>>
      /\ core' = [core EXCEPT ![l][u] = s]
      /\ comp' = [comp EXCEPT ![i] = [name |-> n, type |-> t, lcore |-> l,
                                      rx |-> {}, tx |-> {}]]
      /\ change_core' = change_core \union {l}
      /\ HasFreeId
  BY DEF CompStart, Listening
<1>2. i \in Ids /\ comp[i].type = "none"
  <2> DEFINE S == {j \in Ids : comp[j].type = "none"}
  <2>1. S \subseteq Nat /\ S # {} BY Zenon, <1>1, VfWorkerAssumption DEF HasFreeId
  <2> HIDE DEF S
  <2>2. First(S) \in S BY Zenon, <2>1, FirstIn
  <2> QED BY <2>2 DEF S, get_free_lcore_id
<1>3. /\ l \in Lcores /\ ref[l] \in Sides /\ upd[l] \in Sides /\ ref[l] # upd[l]
      /\ t # "none" /\ t \in Types
  BY ZenonT(60), <1>1, VfWorkerAssumption DEF Lcores, Inv, SidesTyped, HandedOver
<1> HIDE DEF i
<1>4. comp \in [Ids -> Component] /\ core \in [Lcores -> [Sides -> Seq(Ids)]]
  BY ZenonT(60) DEF ListInv, SlotsTyped
<1>5. \A m \in Lcores : ~Edited(m) BY <1>1 DEF Edited
<1>6. \A m \in Lcores, x \in Sides : OnceEach(core[m][x], Assigned(m))
  BY ZenonT(60), <1>5 DEF ListInv, Lists
<1>7. change_core = {} BY ZenonT(60), <1>1 DEF ListInv, OneChange, InFlush
<1>8. /\ Assigned(l)' = Assigned(l) \union {i} /\ i \notin Assigned(l)
      /\ \A m \in Lcores : m # l => Assigned(m)' = Assigned(m)
  BY ZenonT(60), <1>1, <1>2, <1>3, <1>4 DEF Assigned
<1>9. core[l][u] \in Seq(Ids) BY ZenonT(60), <1>3, <1>4
<1>10. s \in Seq(Ids) /\ OnceEach(s, Assigned(l)')
  BY SMTT(30), <1>2, <1>3, <1>6, <1>8, <1>9, AppendOnce
<1> HIDE DEF s
<1>11. /\ core' \in [Lcores -> [Sides -> Seq(Ids)]]
       /\ core'[l][u] = s
       /\ \A x \in Sides : x # u => core'[l][x] = core[l][x]
       /\ \A m \in Lcores : m # l => core'[m] = core[m]
  BY ZenonT(60), <1>1, <1>3, <1>4, <1>10
<1>12. SlotsTyped'
  <2>1. [name |-> n, type |-> t, lcore |-> l, rx |-> {}, tx |-> {}] \in Component
    BY Zenon, <1>3 DEF Component
  <2>2. comp' \in [Ids -> Component] BY ZenonT(60), <1>1, <1>4, <2>1
  <2> QED BY <1>1, <1>2, <1>3, <1>4, <1>11, <2>2 DEF ListInv, SlotsTyped
<1>13. OneChange' BY ZenonT(60), <1>1, <1>3, <1>7 DEF OneChange, InFlush
<1>14. Lists'
  <2>1. \A m \in Lcores : (Edited(m)' <=> m = l) /\ OldSide(m)' = ref[m]
    BY <1>1, <1>7 DEF Edited, OldSide
  <2>2. Within(core'[l][ref[l]], (Assigned(l) \union Free)')
    BY Zenon, <1>3, <1>6, <1>8, <1>11 DEF Within, OnceEach
  <2>3. \A x \in Sides : x # ref[l] => x = u BY <1>3 DEF Sides
  <2>4. \A m \in Lcores : m # l => core'[m][0] = core'[m][1]
    BY Zenon, <1>5, <1>11 DEF ListInv, Lists
  <2>5. \A x \in Sides : IF x = ref[l]
                          THEN Within(core'[l][x], (Assigned(l) \union Free)')
                          ELSE OnceEach(core'[l][x], Assigned(l)')
    BY ZenonT(60), <1>10, <1>11, <2>2, <2>3
  <2>6. \A m \in Lcores : m # l =>
          \A x \in Sides : OnceEach(core'[m][x], Assigned(m)')
    BY ZenonT(60), <1>6, <1>8, <1>11
  <2> QED BY ZenonT(60), <2>1, <2>4, <2>5, <2>6 DEF Lists
<1> QED BY ZenonT(60), <1>1, <1>12, <1>13, <1>14

LEMMA StopLists ==
  ASSUME Inv, ListInv, NEW n \in Names, CompStop(n)
  PROVE  SlotsTyped' /\ OneChange' /\ Lists' /\ UNCHANGED slaves
<1>0. PICK i, l : i = First({j \in Ids : comp[j].name = n}) /\ l = comp[i].lcore
  BY Zenon
<1> DEFINE u == upd[l]
           s == del_comp_info(i, core[l][u])
<1>1. /\ mpc = "idle" /\ mpc' = "ports" /\ UNCHANGED <<ref, upd, slaves>>
      /\ core' = [core EXCEPT ![l][u] = s]
      /\ comp' = [comp EXCEPT ![i] = ZeroComp]
      /\ change_core' = change_core \union {l}
      /\ IsUsedName(n)
  BY Zenon, <1>0 DEF CompStop, Listening
<1>2. i \in Ids /\ comp[i].name = n
  <2> DEFINE S == {j \in Ids : comp[j].name = n}
  <2>1. S \subseteq Nat /\ S # {} BY Zenon, <1>1, VfWorkerAssumption DEF IsUsedName
  <2> HIDE DEF S
  <2>2. First(S) \in S BY Zenon, <2>1, FirstIn
  <2> QED BY <1>0, <2>2 DEF S
<1>3. comp[i].type \in Types /\ l \in Lcores /\ comp[i].type # "none"
  <2>1. ZeroComp.name = "" BY DEF ZeroComp
  <2>2. "" \notin Names /\ "none" \notin Types BY Zenon, VfWorkerAssumption
  <2>3. comp[i] # ZeroComp BY ZenonT(60), <1>2, <2>1, <2>2
  <2> QED BY ZenonT(60), <1>0, <1>2, <2>2, <2>3 DEF ListInv, SlotsTyped
<1>4. /\ ref[l] \in Sides /\ upd[l] \in Sides /\ ref[l] # upd[l]
  BY ZenonT(60), <1>1, <1>3 DEF Lcores, Inv, SidesTyped, HandedOver
<1>5. comp \in [Ids -> Component] /\ core \in [Lcores -> [Sides -> Seq(Ids)]]
  BY DEF ListInv, SlotsTyped
<1>6. \A m \in Lcores : ~Edited(m) BY <1>1 DEF Edited
<1>7. \A m \in Lcores, x \in Sides : OnceEach(core[m][x], Assigned(m))
  BY Zenon, <1>6 DEF ListInv, Lists
<1>8. change_core = {} BY ZenonT(60), <1>1 DEF ListInv, OneChange, InFlush
<1>9. ZeroComp.type = "none" /\ ZeroComp \in Component
  BY ZenonT(60) DEF ZeroComp, Component
<1>10. /\ \A j \in Ids : comp'[j] = IF j = i THEN ZeroComp ELSE comp[j]
       /\ comp' \in [Ids -> Component]
  BY ZenonT(60), <1>1, <1>2, <1>5, <1>9
<1>11. /\ Assigned(l)' = Assigned(l) \ {i} /\ i \in Assigned(l)
       /\ \A m \in Lcores : m # l => Assigned(m)' = Assigned(m)
       /\ i \in Free'
  BY ZenonT(60), <1>0, <1>2, <1>3, <1>9, <1>10 DEF Assigned, Free
<1>12. core[l][u] \in Seq(Ids) BY ZenonT(60), <1>3, <1>4, <1>5
<1>13. s \in Seq(Ids) /\ OnceEach(s, Assigned(l)')
  <2>1. OnceEach(core[l][u], Assigned(l)) /\ i \in Assigned(l)
    BY ZenonT(60), <1>3, <1>4, <1>7, <1>11
  <2>2. s \in Seq(Ids) /\ OnceEach(s, Assigned(l) \ {i})
    BY ZenonT(60), <1>12, <2>1, DelOnce
  <2> QED BY ZenonT(60), <1>11, <2>2
<1> HIDE DEF s
<1>14. /\ core' \in [Lcores -> [Sides -> Seq(Ids)]]
       /\ core'[l][u] = s
       /\ \A x \in Sides : x # u => core'[l][x] = core[l][x]
       /\ \A m \in Lcores : m # l => core'[m] = core[m]
  BY ZenonT(60), <1>1, <1>3, <1>4, <1>5, <1>13
<1>15. SlotsTyped' BY ZenonT(60), <1>10, <1>14 DEF ListInv, SlotsTyped
<1>16. OneChange' BY ZenonT(60), <1>1, <1>3, <1>8 DEF OneChange, InFlush
<1>17. Lists'
  <2>1. \A m \in Lcores : (Edited(m)' <=> m = l) /\ OldSide(m)' = ref[m]
    BY <1>1, <1>8 DEF Edited, OldSide
  <2>2. Within(core'[l][ref[l]], (Assigned(l) \union Free)')
    BY ZenonT(60), <1>3, <1>4, <1>7, <1>11, <1>14 DEF Within, OnceEach
  <2>3. \A x \in Sides : x # ref[l] => x = u BY <1>4 DEF Sides
  <2>4. \A m \in Lcores : m # l => core'[m][0] = core'[m][1]
    BY ZenonT(60), <1>6, <1>14 DEF ListInv, Lists
  <2>5. \A x \in Sides : IF x = ref[l]
                          THEN Within(core'[l][x], (Assigned(l) \union Free)')
                          ELSE OnceEach(core'[l][x], Assigned(l)')
    BY ZenonT(60), <1>13, <1>14, <2>2, <2>3
  <2>6. \A m \in Lcores : m # l =>
          \A x \in Sides : OnceEach(core'[m][x], Assigned(m)')
    BY ZenonT(60), <1>7, <1>11, <1>14
  <2> QED BY ZenonT(60), <2>1, <2>4, <2>5, <2>6 DEF Lists
<1> QED BY ZenonT(60), <1>1, <1>15, <1>16, <1>17

LEMMA PublishLists ==
  ASSUME Inv, ListInv, PublishCores
  PROVE  SlotsTyped' /\ OneChange' /\ Lists' /\ UNCHANGED slaves
<1>1. /\ mpc = "publish" /\ mpc' = "cores" /\ todo' = change_core
      /\ UNCHANGED <<ref, core, comp, change_core, change_comp, slaves>>
      /\ upd' = [l \in Lcores |-> IF l \in change_core THEN ref[l] ELSE upd[l]]
  BY ZenonT(60) DEF PublishCores, registry
<1>2. SlotsTyped' BY ZenonT(60), <1>1 DEF ListInv, SlotsTyped
<1>3. OneChange' BY ZenonT(60), <1>1 DEF ListInv, OneChange, InFlush
<1>4. Free' = Free /\ \A l : Assigned(l)' = Assigned(l)
  BY ZenonT(60), <1>1 DEF Free, Assigned
<1>5. \A l \in Lcores : /\ Edited(l)' <=> Edited(l)
                        /\ Edited(l) => OldSide(l)' = OldSide(l)
  BY <1>1 DEF Edited, OldSide
<1>6. Lists' BY ZenonT(60), <1>1, <1>4, <1>5 DEF ListInv, Lists
<1> QED BY ZenonT(60), <1>1, <1>2, <1>3, <1>6

LEMMA WaitLists ==
  ASSUME Inv, ListInv, WaitCore
  PROVE  SlotsTyped' /\ OneChange' /\ Lists' /\ UNCHANGED slaves
<1>0. PICK l : l = First(todo) BY ZenonT(60)
<1>1. /\ mpc = "cores" /\ mpc' = "cores" /\ todo # {} /\ todo' = todo \ {l}
      /\ ref[l] # upd[l]
      /\ core' = [core EXCEPT ![l][upd[l]] = core[l][ref[l]]]
      /\ UNCHANGED <<ref, upd, comp, change_core, change_comp, slaves>>
  BY <1>0 DEF WaitCore, registry
<1>2. l \in todo /\ todo \subseteq change_core /\ l \in Lcores
  <2>1. todo \subseteq Lcores /\ todo \subseteq change_core
    BY <1>1 DEF ListInv, OneChange
  <2>2. Lcores \subseteq Nat BY ZenonT(60), VfWorkerAssumption DEF Lcores
  <2> QED BY ZenonT(60), <1>0, <1>1, <2>1, <2>2, FirstIn
<1>3. /\ ref[l] \in Sides /\ upd[l] \in Sides
      /\ core \in [Lcores -> [Sides -> Seq(Ids)]]
  BY ZenonT(60), <1>2 DEF Inv, SidesTyped, ListInv, SlotsTyped
<1>4. /\ core' \in [Lcores -> [Sides -> Seq(Ids)]]
      /\ core'[l][upd[l]] = core[l][ref[l]]
      /\ core'[l][ref[l]] = core[l][ref[l]]
      /\ \A m \in Lcores : m # l => core'[m] = core[m]
  BY ZenonT(60), <1>1, <1>2, <1>3
<1>5. SlotsTyped' BY ZenonT(60), <1>1, <1>4 DEF ListInv, SlotsTyped
<1>6. OneChange' BY ZenonT(60), <1>1, <1>2 DEF ListInv, OneChange, InFlush
<1>7. Free' = Free /\ \A m : Assigned(m)' = Assigned(m)
  BY <1>1 DEF Free, Assigned
<1>8. OnceEach(core[l][ref[l]], Assigned(l))
  BY ZenonT(60), <1>1, <1>2, <1>3 DEF ListInv, Lists, Edited, OldSide
<1>9. \A s \in Sides : s = ref[l] \/ s = upd[l] BY ZenonT(60), <1>1, <1>3 DEF Sides
<1>10. /\ \A s \in Sides : OnceEach(core'[l][s], Assigned(l))
       /\ core'[l][0] = core'[l][1]
  <2>1. \A s \in Sides : core'[l][s] = core[l][ref[l]] BY ZenonT(60), <1>4, <1>9
  <2> QED BY ZenonT(60), <1>8, <2>1 DEF Sides
<1>11. ~Edited(l)' BY <1>1 DEF Edited
<1>12. \A m \in Lcores : m # l => /\ Edited(m)' <=> Edited(m)
                                  /\ OldSide(m)' = OldSide(m)
  BY <1>1 DEF Edited, OldSide
<1>13. Lists' BY ZenonT(60), <1>4, <1>7, <1>10, <1>11, <1>12 DEF ListInv, Lists
<1> QED BY ZenonT(60), <1>1, <1>5, <1>6, <1>13

LEMMA TopLists ==
  ASSUME Inv, ListInv, NEW l \in Slaves, Top(l)
  PROVE  ListInv'
<1>1. /\ UNCHANGED <<upd, core, comp, change_core, change_comp, mpc, todo>>
      /\ ref' = [ref EXCEPT ![l] = IF ref[l] = upd[l] THEN (upd[l] + 1) % 2
                                                    ELSE ref[l]]
      /\ side' = [side EXCEPT ![l] = IF ref[l] = upd[l] THEN (upd[l] + 1) % 2
                                                      ELSE side[l]]
      /\ pos' = [pos EXCEPT ![l] = 1]
      /\ spc' = [spc EXCEPT ![l] = IF core[l][side'[l]] = <<>> THEN "top"
                                                             ELSE "call"]
  <2>1. l \in DOMAIN side /\ l \in Lcores
    BY ZenonT(60) DEF Inv, SidesTyped, Lcores
  <2> QED BY <2>1 DEF Top, registry, master
<1>2. SlotsTyped' /\ OneChange'
  BY ZenonT(60), <1>1 DEF ListInv, SlotsTyped, OneChange, InFlush
<1>3. Free' = Free /\ \A m : Assigned(m)' = Assigned(m)
  BY ZenonT(60), <1>1 DEF Free, Assigned
<1>4. \A m \in Lcores : Edited(m)' <=> Edited(m) BY ZenonT(60), <1>1 DEF Edited
<1>5. \A m \in Lcores : OldSide(m)' = OldSide(m)
  <2> SUFFICES ASSUME NEW m \in Lcores PROVE OldSide(m)' = OldSide(m) OBVIOUS
  <2>1. ref \in [Lcores -> Sides] /\ upd \in [Lcores -> Sides]
    BY ZenonT(60) DEF Inv, SidesTyped
  <2>2. CASE m # l BY ZenonT(60), <1>1, <2>1, <2>2 DEF OldSide
  <2>3. CASE m = l /\ ref[l] # upd[l] BY ZenonT(60), <1>1, <2>1, <2>3 DEF OldSide
  <2>4. CASE m = l /\ ref[l] = upd[l]
    <3>1. mpc = "cores" BY <2>4 DEF Inv, HandedOver
    <3>2. (upd[l] + 1) % 2 # upd[l] BY <2>1, <2>4 DEF Sides
    <3>3. ref'[l] = (upd[l] + 1) % 2 BY <1>1, <2>1, <2>4
    <3> QED BY ZenonT(60), <1>1, <2>4, <3>1, <3>2, <3>3 DEF OldSide
  <2> QED BY ZenonT(60), <2>2, <2>3, <2>4
<1>6. Lists' BY ZenonT(60), <1>1, <1>3, <1>4, <1>5 DEF ListInv, Lists
<1>7. InList'
  <2>0. /\ pos \in [Slaves -> Nat \ {0}] /\ DOMAIN spc = Slaves
        /\ side \in [Slaves -> Sides]
    BY ZenonT(60) DEF ListInv, InList, Inv, SidesTyped
  <2> SUFFICES ASSUME NEW m \in Slaves, Walking(m)'
               PROVE  pos'[m] <= Len(core[m][side'[m]])
    BY <1>1, <2>0 DEF InList
  <2>1. CASE m # l
    BY <1>1, <2>0, <2>1 DEF ListInv, InList, Walking
  <2>2. CASE m = l
    <3>1. l \in Lcores /\ upd[l] \in Sides
      BY DEF Inv, SidesTyped, Lcores
    <3>2. (upd[l] + 1) % 2 \in Sides BY <3>1 DEF Sides
    <3>3. side'[l] \in Sides BY ZenonT(60), <1>1, <2>0, <3>2
    <3>4. core[l][side'[l]] \in Seq(Ids) BY ZenonT(60), <3>1, <3>3 DEF ListInv, SlotsTyped
    <3>5. pos'[l] = 1 BY ZenonT(60), <1>1, <2>0
    <3>6. core[l][side'[l]] # <<>> BY ZenonT(60), <1>1, <2>0, <2>2 DEF Walking
    <3> DEFINE q == core[l][side'[l]]
    <3> HIDE DEF q
    <3>7. \A x \in Seq(Ids) : x # <<>> => 1 <= Len(x) OBVIOUS
    <3>8. 1 <= Len(q) BY ZenonT(60), <3>4, <3>6, <3>7 DEF q
    <3> QED BY <2>2, <3>5, <3>8 DEF q
  <2> QED BY ZenonT(60), <2>1, <2>2
<1> QED BY ZenonT(60), <1>2, <1>6, <1>7 DEF ListInv

LEMMA SlaveLists ==
  ASSUME Inv, ListInv, NEW l \in Slaves, SlaveMain(l)
  PROVE  ListInv'
<1>0. /\ pos \in [Slaves -> Nat \ {0}] /\ DOMAIN spc = Slaves
      /\ side \in [Slaves -> Sides]
  BY DEF ListInv, InList, Inv, SidesTyped
<1>1. CASE Top(l) BY ZenonT(60), <1>1, TopLists
<1>2. ASSUME UNCHANGED <<ref, upd, core, registry, master>>, InList' PROVE ListInv'
  <2>1. SameSlots BY ZenonT(60), <1>2 DEF SameSlots, ListInv, SlotsTyped, registry
  <2>2. SameEdited BY <1>2 DEF SameEdited, Edited, registry, master
  <2>3. OneChange' BY <1>2 DEF ListInv, OneChange, InFlush, registry, master
  <2> QED BY ZenonT(60), <1>2, <2>1, <2>2, <2>3, ListsSame DEF ListInv
<1>3. CASE Boot(l)
  <2>1. InList' BY ZenonT(60), <1>0, <1>3 DEF Boot, ListInv, InList, Walking
  <2> QED BY ZenonT(60), <1>2, <1>3, <2>1 DEF Boot
<1>4. CASE SlaveStop(l)
  <2>1. InList' BY <1>0, <1>4 DEF SlaveStop, ListInv, InList, Walking
  <2> QED BY ZenonT(60), <1>2, <1>4, <2>1 DEF SlaveStop
<1>5. CASE Call(l)
  <2>1. InList' BY ZenonT(60), <1>0, <1>5 DEF Call, ListInv, InList, Walking
  <2> QED BY ZenonT(60), <1>2, <1>5, <2>1 DEF Call
<1>6. CASE Enter(l)
  <2>1. InList' BY ZenonT(60), <1>0, <1>6 DEF Enter, ListInv, InList, Walking
  <2> QED BY ZenonT(60), <1>2, <1>6, <2>1 DEF Enter
<1>7. CASE Leave(l)
  <2>1. InList'
    <3>1. CASE pos[l] < Len(core[l][side[l]])
      <4>1. /\ pos' = [pos EXCEPT ![l] = pos[l] + 1]
            /\ spc' = [spc EXCEPT ![l] = "call"]
            /\ UNCHANGED <<core, side>>
        BY ZenonT(60), <1>7, <3>1 DEF Leave
      <4>2. pos[l] + 1 <= Len(core[l][side[l]])
        <5>1. core[l][side[l]] \in Seq(Ids)
          BY Zenon, <1>0 DEF ListInv, SlotsTyped, Lcores
        <5>2. Len(core[l][side[l]]) \in Nat BY <5>1
        <5> QED BY <1>0, <3>1, <5>2
      <4> QED BY <1>0, <4>1, <4>2 DEF ListInv, InList, Walking
    <3>2. CASE ~(pos[l] < Len(core[l][side[l]]))
      <4>1. /\ pos' = [pos EXCEPT ![l] = 1]
            /\ spc' = [spc EXCEPT ![l] = "top"]
            /\ UNCHANGED <<core, side>>
        BY ZenonT(60), <1>7, <3>2 DEF Leave
      <4>2. pos' \in [Slaves -> Nat \ {0}] BY <1>0, <4>1
      <4>3. ~Walking(l)' /\ \A m \in Slaves : m # l => pos'[m] = pos[m] /\ spc'[m] = spc[m]
        BY ZenonT(60), <1>0, <4>1 DEF Walking
      <4> QED BY ZenonT(60), <1>0, <4>1, <4>2, <4>3 DEF ListInv, InList, Walking
    <3> QED BY ZenonT(60), <3>1, <3>2
  <2> QED BY ZenonT(60), <1>2, <1>7, <2>1 DEF Leave
<1> QED BY ZenonT(60), <1>1, <1>3, <1>4, <1>5, <1>6, <1>7 DEF SlaveMain

LEMMA StepLists ==
  ASSUME "attach" \notin MayFail, Inv, ListInv, [Next]_vars
  PROVE  ListInv'
<1>1. CASE UNCHANGED vars
  <2>1. SameSlots BY ZenonT(60), <1>1 DEF SameSlots, ListInv, SlotsTyped, vars
  <2>2. SameEdited BY ZenonT(60), <1>1 DEF SameEdited, Edited, vars
  <2>3. OneChange' BY ZenonT(60), <1>1 DEF ListInv, OneChange, InFlush, vars
  <2>4. InList' BY <1>1 DEF ListInv, InList, Walking, vars
  <2> QED BY <2>1, <2>2, <2>3, <2>4, ListsSame DEF ListInv
<1>2. ASSUME NEW l \in Slaves, SlaveMain(l) PROVE ListInv' BY <1>2, SlaveLists
<1>3. CASE LaunchSlaves
  <2>1. InList'
    BY <1>3 DEF ListInv, InList, Walking, LaunchSlaves
  <2>2. SameSlots /\ SameEdited /\ OneChange'
    BY <1>3, CalmMaster DEF MainSteps
  <2> QED BY ZenonT(60), <2>1, <2>2, ListsSame DEF ListInv
<1>4. ASSUME SlotsTyped', OneChange', Lists', UNCHANGED slaves PROVE ListInv'
  BY <1>4, InListMaster DEF ListInv
<1>5. ASSUME SameSlots, SameEdited, OneChange', UNCHANGED <<spc, side, pos>>
      PROVE  ListInv'
  <2>1. InList' BY <1>5 DEF ListInv, InList, Walking, SameEdited
  <2> QED BY ZenonT(60), <1>5, <2>1, ListsSame DEF ListInv
<1>6. CASE Command
  BY ZenonT(60), <1>3, <1>4, <1>5, <1>6, StartLists, StopLists, CalmMaster DEF Command
<1>7. CASE Flush
  BY ZenonT(60), <1>3, <1>4, <1>5, <1>7, PublishLists, WaitLists, CalmMaster DEF Flush
<1>8. CASE MainSteps \/ Signal
  BY Zenon, <1>3, <1>5, <1>8, CalmMaster
<1> QED BY <1>1, <1>2, <1>6, <1>7, <1>8 DEF Next

LEMMA SpecLists ==
  ASSUME "attach" \notin MayFail
  PROVE  Spec => []ListInv
<1>1. Inv /\ ListInv /\ [Next]_vars => ListInv' BY ZenonT(60), StepLists
<1> QED BY <1>1, InitLists, SpecInv, PTL DEF Spec

(* What a slave runs is a component of its lcore, or one just stopped. *)
LEMMA InsideKnown ==
  ASSUME Inv, ListInv, NEW k \in Slaves, Inside(k)
  PROVE  \/ CompId(k) \in Assigned(k)
         \/ CompId(k) \in Free /\ Edited(k)
<1>1. k \in Lcores /\ side[k] \in Sides BY ZenonT(60) DEF Lcores, Inv, SidesTyped
<1>2. core[k][side[k]] \in Seq(Ids) BY <1>1 DEF ListInv, SlotsTyped
<1>3. Len(core[k][side[k]]) \in Nat BY <1>2
<1>4. pos[k] \in 1 .. Len(core[k][side[k]])
  BY <1>3 DEF ListInv, InList, Walking, Inside
<1> QED BY <1>1, <1>4 DEF ListInv, Lists, Within, OnceEach, CompId

LEMMA InvOneLcore ==
  ASSUME Inv, ListInv
  PROVE  OneLcorePerComponent
<1> SUFFICES ASSUME NEW l \in Slaves, NEW m \in Slaves, l # m, Inside(l), Inside(m),
                    CompId(l) = CompId(m)
             PROVE  FALSE
  BY DEF OneLcorePerComponent
<1>1. /\ CompId(l) \in Assigned(l) \/ (CompId(l) \in Free /\ Edited(l))
      /\ CompId(m) \in Assigned(m) \/ (CompId(m) \in Free /\ Edited(m))
  BY InsideKnown
<1>2. Edited(l) => l \in change_core BY DEF ListInv, OneChange, Edited
<1>3. Edited(m) => m \in change_core BY DEF ListInv, OneChange, Edited
<1>4. ~(Edited(l) /\ Edited(m)) BY <1>2, <1>3 DEF ListInv, OneChange
<1> QED BY <1>1, <1>4 DEF Assigned, Free

(* No two slaves are ever inside the same component, for any number of      *)
(* lcores and components and also when a component is stopped and its id    *)
(* given to one of another lcore, if ports can always be attached.          *)
THEOREM OneLcorePerComponentAlways ==
  ASSUME "attach" \notin MayFail
  PROVE  Spec => []OneLcorePerComponent
<1>1. Inv /\ ListInv => OneLcorePerComponent BY InvOneLcore
<1> QED BY <1>1, SpecInv, SpecLists, PTL

(* A list that holds each element of a set once is as long as the set. *)
LEMMA OnceLen ==
  ASSUME NEW T, NEW ids \in Seq(T), NEW A, OnceEach(ids, A)
  PROVE  Elems(ids) = A /\ Len(ids) = Cardinality(A)
<1>1. Elems(ids) = A BY DEF Elems, OnceEach
<1>2. Len(ids) \in Nat /\ ids = [n \in 1 .. Len(ids) |-> ids[n]] OBVIOUS
<1>3. ids \in [1 .. Len(ids) -> A] BY <1>2 DEF OnceEach
<1>4. ids \in Bijection(1 .. Len(ids), A)
  BY <1>3 DEF OnceEach, Bijection, Injection, Surjection, IsInjective
<1>5. ExistsBijection(1 .. Len(ids), A) BY ZenonT(60), <1>4 DEF ExistsBijection
<1> QED BY ZenonT(60), <1>1, <1>2, <1>5, FS_CountingElements

(* Between commands the list that update_comp edits next is complete and    *)
(* without duplicates, for any number of lcores and components and any      *)
(* sequence of commands, if ports can always be attached.                   *)
THEOREM EditedListCompleteAlways ==
  ASSUME "attach" \notin MayFail
  PROVE  Spec => []EditedListComplete
<1>1. Inv /\ ListInv => EditedListComplete
  <2> SUFFICES ASSUME Inv, ListInv, mpc = "idle", NEW l \in Slaves
               PROVE  /\ Elems(core[l][upd[l]]) = Assigned(l)
                      /\ Len(core[l][upd[l]]) = Cardinality(Assigned(l))
    BY DEF EditedListComplete
  <2>1. l \in Lcores /\ upd[l] \in Sides BY ZenonT(60) DEF Lcores, Inv, SidesTyped
  <2>2. core[l][upd[l]] \in Seq(Ids) BY ZenonT(60), <2>1 DEF ListInv, SlotsTyped
  <2>3. OnceEach(core[l][upd[l]], Assigned(l))
    BY <2>1 DEF ListInv, Lists, Edited
  <2> QED BY ZenonT(60), <2>2, <2>3, OnceLen
<1> QED BY <1>1, SpecInv, SpecLists, PTL

-----------------------------------------------------------------------------
(* The paths in force                                                      *)

(* The components whose update is not over *)
NotYet == IF mpc \in {"comps", "fill", "wait"} THEN todo ELSE change_comp
(* The first update of a classifier may leave it with an empty path. *)
Takes(i, p) == p = PathOf(comp[i]) \/ (comp[i].type = "cls" /\ p = ZeroPath)
InForce(i) == Takes(i, inforce[KindOf(i)][i])

(* A path has the ports of its component.                                   *)
LEMMA PathFields == \A c : PathOf(c).rx = c.rx /\ PathOf(c).tx = c.tx
BY DEF PathOf

PathsTyped == /\ inforce = [k \in Kinds |-> [i \in Ids |-> inforce[k][i]]]
              /\ swap \in [Kinds -> SUBSET Ids]
              /\ kind \in [Slaves -> Kinds]
              /\ change_comp \subseteq Ids
              /\ mpc \in {"comps", "fill", "wait"} => todo \subseteq change_comp
              /\ mpc \in {"fill", "wait"} => todo # {}
              /\ \A i \in change_comp : comp[i].type # "none"

(* A forwarder's index is published only while its update is waited for. *)
SwapOnlyWaited == \A i \in swap["fwd"] : mpc = "wait" /\ i = First(todo)
                                          /\ KindOf(i) = "fwd"

(* A component that is to be updated is registered, and what is waited for  *)
(* is what it was given.                                                    *)
InUpdate ==
  /\ mpc \in {"comps", "fill", "wait"} => \A i \in todo : comp[i].type # "none"
  /\ mpc = "fill" => newpath = PathOf(comp[First(todo)])
  /\ mpc = "wait" => LET i == First(todo)
                     IN IF i \in swap[KindOf(i)] THEN Takes(i, newpath)
                                                  ELSE InForce(i)
AllInForce == \A i \in Ids : comp[i].type # "none" /\ i \notin NotYet => InForce(i)

(* A slave runs a component by the function of its type. *)
KindRead == \A l \in Slaves : Inside(l) /\ CompId(l) \in Assigned(l)
                                => kind[l] = KindOf(CompId(l))

PathInv == PathsTyped /\ SwapOnlyWaited /\ InUpdate /\ AllInForce /\ KindRead

LEMMA InitPaths == Init => PathInv
<1> SUFFICES ASSUME Init PROVE PathInv OBVIOUS
<1>1. \A i \in Ids : comp[i].type = "none" BY Zenon DEF Init, ZeroComp
<1>2. PathsTyped BY DEF Init, PathsTyped, Kinds
<1>3. SwapOnlyWaited BY ZenonT(60) DEF Init, SwapOnlyWaited, Kinds
<1>4. InUpdate /\ AllInForce BY ZenonT(60), <1>1 DEF Init, InUpdate, AllInForce
<1>5. KindRead BY DEF Init, KindRead, Inside
<1> QED BY ZenonT(60), <1>2, <1>3, <1>4, <1>5 DEF PathInv

Updating == mpc \in {"comps", "fill", "wait"}

(* Steps outside of update_comp_info that change no path *)
LEMMA PathsKept ==
  ASSUME PathInv, ~Updating, ~Updating', KindRead', kind' \in [Slaves -> Kinds],
         UNCHANGED <<comp, inforce, swap, change_comp>>
  PROVE  PathInv'
<1> USE DEF PathInv, Updating
<1>1. PathsTyped' BY ZenonT(60) DEF PathsTyped
<1>2. SwapOnlyWaited' BY ZenonT(60) DEF SwapOnlyWaited
<1>3. InUpdate' BY ZenonT(60) DEF InUpdate
<1>4. AllInForce' BY ZenonT(60) DEF AllInForce, NotYet, InForce, Takes, KindOf
<1> QED BY ZenonT(60), <1>1, <1>2, <1>3, <1>4

(* The master changes neither the component that a slave runs nor, while it *)
(* is registered, its type.                                                 *)
LEMMA KindReadMaster ==
  ASSUME Inv, KindRead, [Next]_vars, UNCHANGED slaves,
         \A l \in Slaves : Inside(l) /\ CompId(l) \in Assigned(l)' =>
           /\ CompId(l) \in Assigned(l)
           /\ comp'[CompId(l)].type = comp[CompId(l)].type
  PROVE  KindRead'
<1>1. \A l \in Slaves : (Inside(l)' <=> Inside(l)) /\ kind'[l] = kind[l]
  BY ZenonT(60) DEF slaves, Inside
<1>2. \A l \in Slaves : Inside(l) => CompId(l)' = CompId(l)
  BY ZenonT(60), StepStable DEF slaves, Inside, Walking, CompId
<1> SUFFICES ASSUME NEW l \in Slaves, Inside(l), CompId(l)' \in Assigned(l)'
             PROVE  kind[l] = KindOf(CompId(l))'
  BY ZenonT(60), <1>1 DEF KindRead
<1>4. CompId(l)' = CompId(l) BY ZenonT(60), <1>2
<1>5. CompId(l) \in Assigned(l) /\ comp'[CompId(l)].type = comp[CompId(l)].type
  BY ZenonT(60), <1>4
<1> QED BY ZenonT(60), <1>4, <1>5 DEF KindRead, KindOf

(* A command leaves the other components alone, and the component it        *)
(* changes is flushed, or gone.                                             *)
Changes(i) ==
  /\ mpc = "idle" /\ mpc' = "ports"
  /\ UNCHANGED <<inforce, swap, slaves>>
  /\ \A j \in Ids : j # i => comp'[j] = comp[j]
  /\ change_comp' \subseteq {i}
  /\ \/ i \in change_comp' /\ comp'[i].type # "none"
     \/ i \notin change_comp' /\ comp'[i].type = "none"
  /\ comp[i].type # "none" /\ comp'[i].type # "none" =>
       /\ comp'[i].type = comp[i].type
       /\ comp'[i].lcore = comp[i].lcore

LEMMA ChangesPaths ==
  ASSUME Inv, ListInv, PathInv, [Next]_vars, NEW i \in Ids, Changes(i)
  PROVE  PathInv'
<1> USE DEF PathInv
<1>1. PathsTyped' BY ZenonT(60) DEF PathsTyped, Changes, slaves
<1>2. SwapOnlyWaited' BY ZenonT(60), SMTT(30) DEF SwapOnlyWaited, Changes
<1>3. InUpdate' BY ZenonT(60) DEF InUpdate, Changes
<1>4. change_comp = {} BY ZenonT(60) DEF ListInv, OneChange, InFlush, Changes
<1>5. AllInForce'
  <2> SUFFICES ASSUME NEW j \in Ids, comp'[j].type # "none", j \notin change_comp'
               PROVE  InForce(j)'
    BY ZenonT(60) DEF AllInForce, NotYet, Changes
  <2>1. comp'[j] = comp[j] BY ZenonT(60) DEF Changes
  <2>2. InForce(j) BY ZenonT(60), <1>4, <2>1 DEF AllInForce, NotYet, Changes
  <2> QED BY ZenonT(60), <2>1, <2>2 DEF InForce, Takes, KindOf, Changes
<1>6. KindRead'
  <2> SUFFICES ASSUME NEW l \in Slaves, Inside(l), CompId(l) \in Assigned(l)'
               PROVE  /\ CompId(l) \in Assigned(l)
                      /\ comp'[CompId(l)].type = comp[CompId(l)].type
    BY ZenonT(60), KindReadMaster DEF Changes
  <2>1. CompId(l) \in Assigned(l)
    BY InsideKnown DEF Edited, Changes
  <2> QED BY ZenonT(60), <2>1 DEF Assigned, Changes
<1> QED BY ZenonT(60), <1>1, <1>2, <1>3, <1>5, <1>6

LEMMA CommandPaths ==
  ASSUME Inv, ListInv, PathInv, Command, [Next]_vars
  PROVE  PathInv'
<1> USE DEF registry, buffers
<1>0. mpc = "idle" /\ change_comp = {} /\ "none" \notin Types /\ "" \notin Names
  BY ZenonT(60), VfWorkerAssumption DEF Command, CompStart, CompStop, CompStopUnknown,
     PortAdd, PortDel, ExitCommand, Listening, ListInv, OneChange, InFlush
<1>1. ASSUME NEW n \in Names, NEW l \in Targets, NEW t \in Types, CompStart(n, l, t)
      PROVE  PathInv'
  <2>0. PICK i : i = get_free_lcore_id OBVIOUS
  <2> DEFINE S == {j \in Ids : comp[j].type = "none"}
  <2>1. S \subseteq Nat /\ S # {}
    BY Zenon, <1>1, VfWorkerAssumption DEF CompStart, HasFreeId
  <2> HIDE DEF S
  <2>2. First(S) \in S BY ZenonT(60), <2>1, FirstIn
  <2>3. i \in Ids /\ comp[i].type = "none" BY ZenonT(60), <2>0, <2>2 DEF S, get_free_lcore_id
  <2>4. /\ comp' = [comp EXCEPT ![i] = [name |-> n, type |-> t, lcore |-> l,
                                        rx |-> {}, tx |-> {}]]
        /\ change_comp' = change_comp \union {i}
        /\ mpc' = "ports" /\ UNCHANGED <<inforce, swap, slaves>>
    BY ZenonT(60), <1>1, <2>0 DEF CompStart
  <2>5. comp'[i].type = t /\ \A j \in Ids : j # i => comp'[j] = comp[j]
    BY <2>3, <2>4 DEF ListInv, SlotsTyped
  <2>6. Changes(i) BY ZenonT(60), <1>0, <2>3, <2>4, <2>5 DEF Changes
  <2> QED BY <2>3, <2>6, ChangesPaths
<1>2. ASSUME NEW n \in Names, CompStop(n) PROVE PathInv'
  <2>0. PICK i : i = First({j \in Ids : comp[j].name = n}) BY Zenon
  <2> DEFINE S == {j \in Ids : comp[j].name = n}
  <2>1. S \subseteq Nat /\ S # {}
    BY ZenonT(60), <1>2, VfWorkerAssumption DEF CompStop, IsUsedName
  <2> HIDE DEF S
  <2>2. First(S) \in S BY ZenonT(60), <2>1, FirstIn
  <2>3. i \in Ids BY <2>0, <2>2 DEF S
  <2>4. /\ comp' = [comp EXCEPT ![i] = ZeroComp]
        /\ change_comp' = change_comp \ {i}
        /\ mpc' = "ports" /\ UNCHANGED <<inforce, swap, slaves>>
    BY ZenonT(60), <1>2, <2>0 DEF CompStop
  <2>5. comp'[i] = ZeroComp /\ \A j \in Ids : j # i => comp'[j] = comp[j]
    BY ZenonT(60), <2>3, <2>4 DEF ListInv, SlotsTyped
  <2>6. ZeroComp.type = "none" BY DEF ZeroComp
  <2>7. Changes(i) BY ZenonT(60), <1>0, <2>3, <2>4, <2>5, <2>6 DEF Changes
  <2> QED BY <2>3, <2>7, ChangesPaths
<1>3. ASSUME NEW n \in Names, NEW d \in Dirs, NEW i \in Ids, NEW P,
             comp[i].name = n, SetsPorts(i, d, P),
             change_comp' = change_comp \union {i},
             mpc' = "ports", UNCHANGED <<inforce, swap, slaves>>
      PROVE  PathInv'
  <2>1. SameSlots BY <1>3, PortSlots DEF ListInv
  <2>2. comp[i].type # "none"
    <3>1. ZeroComp.name = "" BY DEF ZeroComp
    <3>2. comp[i] # ZeroComp BY ZenonT(60), <1>0, <1>3, <3>1
    <3> QED BY ZenonT(60), <1>0, <3>2 DEF ListInv, SlotsTyped
  <2>3. \A j \in Ids : j # i => comp'[j] = comp[j]
    BY <1>3 DEF SetsPorts, ListInv, SlotsTyped
  <2>4. Changes(i) BY ZenonT(60), <1>0, <1>3, <2>1, <2>2, <2>3 DEF Changes, SameSlots
  <2> QED BY ZenonT(60), <2>4, ChangesPaths
<1>4. ASSUME NEW n \in Names, NEW p \in Ports, NEW d \in Dirs,
             NEW tag \in {FALSE, MayTag}, PortAdd(n, p, d, tag)
      PROVE  PathInv'
  <2>0. PICK i \in Ids : \E P : /\ comp[i].name = n /\ SetsPorts(i, d, P)
                                /\ change_comp' = change_comp \union {i}
    BY <1>4, PortAddSets DEF ListInv
  <2>1. PICK P \in SUBSET Ports : /\ comp[i].name = n /\ SetsPorts(i, d, P)
                                  /\ change_comp' = change_comp \union {i}
    BY ZenonT(60), <2>0 DEF SetsPorts
  <2>2. mpc' = "ports" /\ UNCHANGED <<inforce, swap, slaves>>
    BY ZenonT(60), <1>4 DEF PortAdd
  <2> QED BY ZenonT(60), <1>3, <2>1, <2>2
<1>5. ASSUME NEW n \in Names, NEW p \in Ports, NEW d \in Dirs, PortDel(n, p, d)
      PROVE  PathInv'
  <2>1. PICK i \in Ids, P \in SUBSET Ports :
          /\ comp[i].name = n /\ SetsPorts(i, d, P)
          /\ change_comp' = change_comp \union {i}
    BY <1>5, PortDelSets DEF ListInv, SetsPorts
  <2>2. mpc' = "ports" /\ UNCHANGED <<inforce, swap, slaves>>
    BY <1>5 DEF PortDel
  <2> QED BY ZenonT(60), <1>3, <2>1, <2>2
<1>6. ASSUME UNCHANGED <<comp, inforce, swap, change_comp, slaves>>,
             mpc' \in {"ports", "final"}
      PROVE  PathInv'
  <2>1. KindRead' BY ZenonT(60), <1>6, KindReadMaster DEF PathInv, Assigned
  <2> QED BY ZenonT(60), <1>0, <1>6, <2>1, PathsKept DEF Updating, PathInv, PathsTyped, slaves
<1>7. ASSUME NEW n \in Names, CompStopUnknown(n) PROVE PathInv'
  BY ZenonT(60), <1>6, <1>7 DEF CompStopUnknown
<1>8. CASE ExitCommand BY <1>6, <1>8 DEF ExitCommand
<1> QED BY ZenonT(60), <1>1, <1>2, <1>4, <1>5, <1>7, <1>8 DEF Command

LEMMA FirstTodo ==
  ASSUME PathInv, Updating, todo # {}
  PROVE  First(todo) \in todo /\ First(todo) \in Ids
<1>1. todo \subseteq Ids /\ todo \subseteq Nat
  BY ZenonT(60), VfWorkerAssumption DEF PathInv, PathsTyped, Updating
<1> QED BY ZenonT(60), <1>1, FirstIn

(* What update_comp_info changes are the paths, one component at a time. *)
LEMMA UpdatePaths ==
  ASSUME Inv, ListInv, PathInv, [Next]_vars, MayFail = {},
         CoresDone \/ UpdateComp \/ UpdateCompFails \/ PublishComp \/ WaitComp
           \/ FlushDone
  PROVE  PathInv'
<1> USE DEF PathInv, Updating, registry, buffers
<1>0. KindRead'
  BY ZenonT(60), KindReadMaster DEF CoresDone, UpdateComp, UpdateCompFails, PublishComp,
                        WaitComp, FlushDone, Assigned
<1>1. \A i \in Ids : KindOf(i) \in Kinds /\ (KindOf(i) = "cls" <=> comp[i].type = "cls")
  BY ZenonT(60) DEF KindOf, Kinds
<1>2. /\ inforce = [k \in Kinds |-> [i \in Ids |-> inforce[k][i]]]
      /\ swap \in [Kinds -> SUBSET Ids]
  BY DEF PathsTyped
<1>3. CASE CoresDone
  <2>1. PathsTyped' BY ZenonT(60), <1>3 DEF CoresDone, PathsTyped, slaves
  <2>2. SwapOnlyWaited' BY ZenonT(60), <1>3 DEF CoresDone, SwapOnlyWaited
  <2>3. InUpdate' BY <1>3 DEF CoresDone, InUpdate, PathsTyped
  <2>4. AllInForce'
    BY ZenonT(60), <1>3 DEF CoresDone, AllInForce, NotYet, InForce, Takes, KindOf
  <2> QED BY ZenonT(60), <1>0, <2>1, <2>2, <2>3, <2>4
<1>4. CASE UpdateComp
  <2>0. PICK i : i = First(todo) BY ZenonT(60)
  <2>1. i \in todo /\ i \in Ids BY ZenonT(60), <1>4, <2>0, FirstTodo DEF UpdateComp
  <2>2. /\ mpc = "comps" /\ mpc' = "fill" /\ todo # {}
        /\ inforce' = Filled(i) /\ newpath' = PathOf(comp[i])
        /\ UNCHANGED <<comp, change_comp, swap, todo, kind>>
    BY ZenonT(60), <1>4, <2>0 DEF UpdateComp, slaves
  <2>3. /\ inforce' = [k \in Kinds |-> [j \in Ids |-> inforce'[k][j]]]
        /\ \A k \in Kinds, j \in Ids : j # i => inforce'[k][j] = inforce[k][j]
    <3>1. CASE i \in swap[KindOf(i)]
      <4>1. inforce' = [inforce EXCEPT ![KindOf(i)][i] = PathOf(comp[i])]
        BY ZenonT(60), <2>2, <3>1 DEF Filled
      <4> QED BY ZenonT(60), <1>1, <1>2, <2>1, <4>1
    <3>2. CASE i \notin swap[KindOf(i)] BY ZenonT(60), <1>2, <2>2, <3>2 DEF Filled
    <3> QED BY <3>1, <3>2
  <2>4. PathsTyped' BY <2>2, <2>3 DEF PathsTyped
  <2>5. SwapOnlyWaited' BY Zenon, <2>2 DEF SwapOnlyWaited
  <2>6. InUpdate' BY ZenonT(60), <2>0, <2>2 DEF InUpdate, PathOf
  <2>7. AllInForce'
    <3> SUFFICES ASSUME NEW j \in Ids, comp[j].type # "none", j \notin todo
                 PROVE  InForce(j)'
      BY <2>2 DEF AllInForce, NotYet
    <3>1. InForce(j) BY ZenonT(60), <2>2 DEF AllInForce, NotYet
    <3> QED BY ZenonT(60), <1>1, <2>1, <2>2, <2>3, <3>1 DEF InForce, Takes, KindOf
  <2> QED BY <1>0, <2>4, <2>5, <2>6, <2>7
<1>5. CASE UpdateCompFails BY ZenonT(60), <1>5 DEF UpdateCompFails
<1>6. CASE PublishComp
  <2>0. PICK i : i = First(todo) OBVIOUS
  <2>1. mpc = "fill" /\ todo # {} BY <1>6 DEF PublishComp, PathsTyped
  <2>2. i \in todo /\ i \in Ids BY ZenonT(60), <2>0, <2>1, FirstTodo
  <2>3. /\ mpc' = "wait"
        /\ newpath' = IF i \in swap[KindOf(i)] THEN ZeroPath ELSE newpath
        /\ swap' = [swap EXCEPT ![KindOf(i)] = @ \union {i}]
        /\ UNCHANGED <<comp, change_comp, inforce, todo, kind>>
    BY ZenonT(60), <1>6, <2>0 DEF PublishComp, slaves
  <2>4. swap' \in [Kinds -> SUBSET Ids] BY ZenonT(60), <1>1, <1>2, <2>2, <2>3
  <2>5. PathsTyped' BY ZenonT(60), <2>1, <2>3, <2>4 DEF PathsTyped
  <2>6. swap["fwd"] = {} BY ZenonT(60), <1>2, <2>1 DEF SwapOnlyWaited, Kinds
  <2>7. SwapOnlyWaited'
    <3>1. \A j \in swap'["fwd"] : j = i /\ KindOf(i) = "fwd"
      BY ZenonT(60), <1>1, <1>2, <2>2, <2>3, <2>6 DEF Kinds
    <3>2. KindOf(i)' = KindOf(i) BY ZenonT(60), <2>3 DEF KindOf
    <3> QED BY ZenonT(60), <2>0, <2>3, <3>1, <3>2 DEF SwapOnlyWaited, KindOf
  <2>8. Takes(i, newpath')
    <3>1. CASE i \in swap[KindOf(i)]
      <4>1. KindOf(i) # "fwd" BY ZenonT(60), <2>6, <3>1
      <4>2. comp[i].type = "cls" BY ZenonT(60), <1>1, <2>2, <4>1 DEF Kinds
      <4> QED BY ZenonT(60), <2>3, <3>1, <4>2 DEF Takes
    <3>2. CASE i \notin swap[KindOf(i)]
      BY ZenonT(60), <2>0, <2>1, <2>3, <3>2 DEF Takes, InUpdate
    <3> QED BY ZenonT(60), <3>1, <3>2
  <2>9. InUpdate'
    <3>1. i \in swap'[KindOf(i)] BY ZenonT(60), <1>1, <1>2, <2>2, <2>3
    <3>2. \A j \in todo : comp[j].type # "none" BY ZenonT(60), <2>1 DEF InUpdate
    <3> QED BY ZenonT(60), <2>0, <2>3, <2>8, <3>1, <3>2 DEF InUpdate, Takes, KindOf
  <2>10. AllInForce'
    BY ZenonT(60), <2>1, <2>3 DEF AllInForce, NotYet, InForce, Takes, KindOf
  <2> QED BY <1>0, <2>5, <2>7, <2>9, <2>10
<1>7. CASE WaitComp
  <2>0. PICK i : i = First(todo) OBVIOUS
  <2>1. mpc = "wait" /\ todo # {} BY ZenonT(60), <1>7 DEF WaitComp, PathsTyped
  <2>2. i \in todo /\ i \in Ids BY ZenonT(60), <2>0, <2>1, FirstTodo
  <2>3. /\ mpc' = "comps" /\ todo' = todo \ {i} /\ i \notin swap[KindOf(i)]
        /\ UNCHANGED <<comp, change_comp, inforce, swap, kind>>
    BY ZenonT(60), <1>7, <2>0 DEF WaitComp, slaves
  <2>4. PathsTyped' BY ZenonT(60), <2>1, <2>3 DEF PathsTyped
  <2>5. SwapOnlyWaited' BY ZenonT(60), <2>0, <2>3 DEF SwapOnlyWaited
  <2>6. InUpdate' BY ZenonT(60), <2>1, <2>3 DEF InUpdate
  <2>7. InForce(i) BY ZenonT(60), <2>0, <2>1, <2>3 DEF InUpdate
  <2>8. \A j \in Ids : comp[j].type # "none" /\ j \notin todo' => InForce(j)
    BY ZenonT(60), <2>1, <2>3, <2>7 DEF AllInForce, NotYet
  <2>9. AllInForce'
    BY ZenonT(60), <2>3, <2>8 DEF AllInForce, NotYet, InForce, Takes, KindOf
  <2> QED BY <1>0, <2>4, <2>5, <2>6, <2>9
<1>8. CASE FlushDone
  <2>1. PathsTyped' BY <1>8 DEF FlushDone, PathsTyped, slaves
  <2>2. SwapOnlyWaited' BY Zenon, <1>8 DEF FlushDone, SwapOnlyWaited
  <2>3. InUpdate' BY ZenonT(60), <1>8 DEF FlushDone, InUpdate
  <2>4. AllInForce'
    BY ZenonT(60), <1>8 DEF FlushDone, AllInForce, NotYet, InForce, Takes, KindOf
  <2> QED BY <1>0, <2>1, <2>2, <2>3, <2>4
<1> QED BY ZenonT(60), <1>3, <1>4, <1>5, <1>6, <1>7, <1>8

(* The rest of the master: it changes no path. *)
LEMMA MasterPaths ==
  ASSUME Inv, ListInv, PathInv, [Next]_vars, MayFail = {},
         \/ MainSteps \/ Signal \/ UpdatePorts \/ UpdatePortsFails
         \/ PublishCores \/ WaitCore
  PROVE  PathInv'
<1> USE DEF Updating, registry, buffers, master
<1>0. kind \in [Slaves -> Kinds] BY ZenonT(60), SMTT(30) DEF PathInv, PathsTyped
<1>1. ASSUME UNCHANGED <<comp, slaves>> PROVE KindRead' /\ kind' \in [Slaves -> Kinds]
  BY ZenonT(60), <1>0, <1>1, KindReadMaster DEF PathInv, Assigned, slaves
<1>2. CASE LaunchSlaves
  <2>1. KindRead' BY ZenonT(60), <1>2 DEF LaunchSlaves, KindRead, Inside
  <2> QED BY ZenonT(60), <1>0, <1>2, <2>1, PathsKept DEF LaunchSlaves
<1>3. CASE SetRunning
  <2>1. UNCHANGED change_comp
    BY ZenonT(60), <1>3 DEF SetRunning, ListInv, OneChange, InFlush
  <2> QED BY ZenonT(60), <1>1, <1>3, <2>1, PathsKept DEF SetRunning
<1>4. CASE MasterIdling BY ZenonT(60), <1>1, <1>4, PathsKept DEF MasterIdling
<1>5. CASE CheckIdling BY ZenonT(60), <1>1, <1>5, PathsKept DEF CheckIdling
<1>6. CASE QuitLoop BY ZenonT(60), <1>1, <1>6, PathsKept DEF QuitLoop
<1>7. CASE Finalize BY ZenonT(60), <1>1, <1>7, PathsKept DEF Finalize
<1>8. CASE Exit BY ZenonT(60), <1>1, <1>8, PathsKept DEF Exit
<1>9. CASE UpdatePorts BY ZenonT(60), <1>1, <1>9, PathsKept DEF UpdatePorts
<1>10. CASE UpdatePortsFails BY ZenonT(60), <1>10 DEF UpdatePortsFails
<1>11. CASE PublishCores BY ZenonT(60), <1>1, <1>11, PathsKept DEF PublishCores
<1>12. CASE WaitCore BY ZenonT(60), <1>1, <1>12, PathsKept DEF WaitCore
<1>13. CASE Signal
  <2>1. UNCHANGED <<comp, slaves, inforce, swap, change_comp, mpc, todo, newpath, kind>>
    BY ZenonT(60), <1>13 DEF Signal, slaves
  <2>2. KindRead' BY ZenonT(60), <1>1, <2>1
  <2> QED BY ZenonT(60), <2>1, <2>2 DEF PathInv, PathsTyped, SwapOnlyWaited, InUpdate,
             AllInForce, NotYet, InForce, Takes, KindOf
<1> QED BY ZenonT(60), <1>2, <1>3, <1>4, <1>5, <1>6, <1>7, <1>8, <1>9, <1>10, <1>11, <1>12,
           <1>13 DEF MainSteps

LEMMA SlaveKindRead ==
  ASSUME Inv, ListInv, PathInv, NEW l \in Slaves, SlaveMain(l)
  PROVE  KindRead' /\ kind' \in [Slaves -> Kinds]
<1>0. /\ pos \in [Slaves -> Nat \ {0}] /\ DOMAIN spc = Slaves
      /\ side \in [Slaves -> Sides] /\ kind \in [Slaves -> Kinds]
      /\ KindRead
  BY SMTT(30) DEF ListInv, InList, Inv, SidesTyped, PathInv, PathsTyped
<1>1. UNCHANGED <<core, comp>>
  BY ZenonT(60) DEF SlaveMain, Boot, Top, SlaveStop, Call, Enter, Leave, registry
<1>2. \A m \in Slaves : m # l => /\ spc'[m] = spc[m] /\ side'[m] = side[m]
                                 /\ pos'[m] = pos[m] /\ kind'[m] = kind[m]
  BY <1>0 DEF SlaveMain, Boot, Top, SlaveStop, Call, Enter, Leave
<1>3. \A m \in Slaves : m # l => /\ Inside(m)' <=> Inside(m)
                                 /\ CompId(m)' = CompId(m)
                                 /\ Assigned(m)' = Assigned(m)
                                 /\ KindOf(CompId(m))' = KindOf(CompId(m))
  BY ZenonT(60), <1>1, <1>2 DEF Inside, CompId, Assigned, KindOf
<1>4. /\ kind' \in [Slaves -> Kinds]
      /\ Inside(l)' /\ CompId(l)' \in Assigned(l)' => kind'[l] = KindOf(CompId(l))'
  <2>1. CASE Boot(l) \/ Top(l) \/ SlaveStop(l) \/ Leave(l)
    <3>1. ~Inside(l)' /\ kind' = kind
      BY ZenonT(60), <1>0, <2>1 DEF Boot, Top, SlaveStop, Leave, Inside
    <3> QED BY <1>0, <3>1
  <2>2. CASE Call(l)
    <3>1. kind' = [kind EXCEPT ![l] = KindOf(CompId(l))] /\ UNCHANGED <<side, pos>>
      BY ZenonT(60), <2>2 DEF Call
    <3>2. KindOf(CompId(l)) \in Kinds BY ZenonT(60) DEF KindOf, Kinds
    <3>3. KindOf(CompId(l))' = KindOf(CompId(l))
      BY ZenonT(60), <1>1, <3>1 DEF KindOf, CompId
    <3> QED BY ZenonT(60), <1>0, <3>1, <3>2, <3>3
  <2>3. CASE Enter(l)
    <3>1. UNCHANGED <<kind, side, pos>> /\ Inside(l) BY <2>3 DEF Enter, Inside
    <3>2. CompId(l)' = CompId(l) BY Zenon, <1>1, <3>1 DEF CompId
    <3>3. Assigned(l)' = Assigned(l) BY Zenon, <1>1 DEF Assigned
    <3> QED BY ZenonT(60), <1>0, <1>1, <3>1, <3>2, <3>3 DEF KindRead, KindOf
  <2> QED BY ZenonT(60), <2>1, <2>2, <2>3 DEF SlaveMain
<1>5. KindRead' BY ZenonT(60), <1>0, <1>2, <1>3, <1>4 DEF KindRead
<1> QED BY ZenonT(60), <1>4, <1>5

(* change_forward_index and change_classifier_index *)
LEMMA EnterPaths ==
  ASSUME Inv, ListInv, PathInv, NEW l \in Slaves, Enter(l), KindRead',
         kind' \in [Slaves -> Kinds]
  PROVE  PathInv'
<1> USE DEF PathInv
<1>0. PICK i, k, next :
        /\ i = CompId(l) /\ k = kind[l]
        /\ next = IF mpc = "wait" /\ i = First(todo) /\ k = KindOf(i)
                  THEN newpath ELSE ZeroPath
  BY ZenonT(60)
<1>1. /\ inforce' = IF i \in swap[k] THEN [inforce EXCEPT ![k][i] = next]
                                     ELSE inforce
      /\ swap' = [swap EXCEPT ![k] = @ \ {i}]
      /\ UNCHANGED <<comp, change_comp, mpc, todo, newpath>>
  BY ZenonT(60), <1>0 DEF Enter, registry, master
<1>2. /\ k \in Kinds /\ swap \in [Kinds -> SUBSET Ids]
      /\ inforce = [x \in Kinds |-> [j \in Ids |-> inforce[x][j]]]
  BY ZenonT(60), <1>0 DEF PathsTyped
<1>3. i \in Ids
  BY ZenonT(60), <1>0, InsideKnown DEF Enter, Inside, Assigned, Free
<1>4. /\ inforce' = [x \in Kinds |-> [j \in Ids |-> inforce'[x][j]]]
      /\ \A x \in Kinds, j \in Ids : ~(x = k /\ j = i) =>
           inforce'[x][j] = inforce[x][j]
      /\ inforce'[k][i] = IF i \in swap[k] THEN next ELSE inforce[k][i]
  <2>1. CASE i \in swap[k]
    <3>1. inforce' = [inforce EXCEPT ![k][i] = next] BY ZenonT(60), <1>1, <2>1
    <3> QED BY ZenonT(60), <1>2, <1>3, <2>1, <3>1
  <2>2. CASE i \notin swap[k] BY ZenonT(60), <1>1, <1>2, <2>2
  <2> QED BY <2>1, <2>2
<1>5. /\ swap' \in [Kinds -> SUBSET Ids]
      /\ \A x \in Kinds : swap'[x] = IF x = k THEN swap[x] \ {i} ELSE swap[x]
  BY ZenonT(60), <1>1, <1>2
<1>6. PathsTyped' BY ZenonT(60), <1>1, <1>4, <1>5 DEF PathsTyped
<1>7. \A j : KindOf(j)' = KindOf(j) BY ZenonT(60), <1>1 DEF KindOf
<1>8. SwapOnlyWaited'
  BY ZenonT(60), <1>1, <1>5, <1>7 DEF SwapOnlyWaited, Kinds
(* The component is given what was waited for, or an empty path. *)
<1>9. i \in swap[k] /\ k = KindOf(i) => Takes(i, next)
  <2> SUFFICES ASSUME i \in swap[k], k = KindOf(i) PROVE Takes(i, next) OBVIOUS
  <2>1. CASE mpc = "wait" /\ i = First(todo)
    BY ZenonT(60), <1>0, <2>1 DEF InUpdate
  <2>2. CASE ~(mpc = "wait" /\ i = First(todo))
    <3>1. k # "fwd" BY ZenonT(60), <2>2 DEF SwapOnlyWaited
    <3>2. comp[i].type = "cls" BY ZenonT(60), <1>2, <3>1 DEF KindOf, Kinds
    <3>3. next = ZeroPath BY ZenonT(60), <1>0, <2>2
    <3> QED BY ZenonT(60), <3>2, <3>3 DEF Takes
  <2> QED BY ZenonT(60), <2>1, <2>2
<1>10. \A j \in Ids : InForce(j) => InForce(j)'
  <2> SUFFICES ASSUME NEW j \in Ids, InForce(j) PROVE InForce(j)' BY ZenonT(60)
  <2>1. \A p : Takes(j, p)' <=> Takes(j, p) BY ZenonT(60), <1>1 DEF Takes
  <2>2. KindOf(j) \in Kinds BY ZenonT(60) DEF KindOf, Kinds
  <2>3. Takes(j, inforce'[KindOf(j)][j])
    BY ZenonT(60), <1>4, <1>9, <2>2 DEF InForce
  <2> QED BY ZenonT(60), <1>1, <2>3 DEF InForce, Takes, KindOf
<1>11. AllInForce' BY <1>1, <1>10 DEF AllInForce, NotYet
<1>12. InUpdate'
  <2>1. (Updating => \A j \in todo : comp[j].type # "none")'
    BY ZenonT(60), <1>1 DEF InUpdate, Updating
  <2>2. (mpc = "fill" => newpath = PathOf(comp[First(todo)]))'
    BY <1>1 DEF InUpdate
  <2>0. PICK j : j = First(todo) BY ZenonT(60)
  <2>3. ASSUME mpc = "wait"
        PROVE  IF j \in swap'[KindOf(j)] THEN Takes(j, newpath) ELSE InForce(j)'
    <3>1. j \in Ids
      BY ZenonT(60), <2>0, <2>3, FirstTodo DEF Updating, PathsTyped
    <3>2. KindOf(j) \in Kinds BY DEF KindOf, Kinds
    <3>3. CASE j \in swap'[KindOf(j)]
      <4>1. j \in swap[KindOf(j)] BY ZenonT(60), <1>5, <3>2, <3>3
      <4> QED BY ZenonT(60), <2>0, <2>3, <3>3, <4>1 DEF InUpdate
    <3>4. CASE j \notin swap'[KindOf(j)] /\ j \notin swap[KindOf(j)]
      BY ZenonT(60), <1>10, <2>0, <2>3, <3>1, <3>4 DEF InUpdate
    <3>5. CASE j \notin swap'[KindOf(j)] /\ j \in swap[KindOf(j)]
      <4>1. j = i /\ KindOf(j) = k BY ZenonT(60), <1>5, <3>2, <3>5
      <4>2. inforce'[k][i] = next BY ZenonT(60), <1>4, <3>5, <4>1
      <4>3. Takes(i, next) BY ZenonT(60), <1>9, <3>5, <4>1
      <4>4. InForce(i)' BY ZenonT(60), <1>1, <4>1, <4>2, <4>3 DEF InForce, Takes, KindOf
      <4> QED BY ZenonT(60), <3>5, <4>1, <4>4
    <3> QED BY ZenonT(60), <3>3, <3>4, <3>5
  <2>4. First(todo)' = j BY ZenonT(60), <1>1, <2>0
  <2>5. ASSUME mpc' = "wait"
        PROVE  IF j \in swap'[KindOf(j)'] THEN Takes(j, newpath)' ELSE InForce(j)'
    BY ZenonT(60), <1>1, <2>3, <2>5 DEF Takes, KindOf
  <2> QED BY ZenonT(60), <2>1, <2>2, <2>4, <2>5 DEF InUpdate, Updating
<1> QED BY ZenonT(60), <1>6, <1>8, <1>11, <1>12

LEMMA SlavePaths ==
  ASSUME Inv, ListInv, PathInv, NEW l \in Slaves, SlaveMain(l)
  PROVE  PathInv'
<1>1. KindRead' /\ kind' \in [Slaves -> Kinds] BY ZenonT(60), SlaveKindRead
<1>2. CASE Enter(l) BY ZenonT(60), <1>1, <1>2, EnterPaths
<1>3. CASE ~Enter(l)
  <2>1. UNCHANGED <<comp, inforce, swap, change_comp, mpc, todo, newpath>>
    BY Zenon, <1>3 DEF SlaveMain, Boot, Top, SlaveStop, Call, Leave, registry, buffers,
                master
  <2> QED BY ZenonT(60), <1>1, <2>1 DEF PathInv, PathsTyped, SwapOnlyWaited, InUpdate,
             AllInForce, NotYet, InForce, Takes, KindOf
<1> QED BY ZenonT(60), <1>2, <1>3

LEMMA StepPaths ==
  ASSUME MayFail = {}, Inv, ListInv, PathInv, [Next]_vars
  PROVE  PathInv'
<1>1. CASE UNCHANGED vars
  BY ZenonT(60), <1>1 DEF vars, PathInv, PathsTyped, SwapOnlyWaited, InUpdate, AllInForce,
              NotYet, InForce, Takes, KindOf, KindRead, Inside, CompId, Assigned
<1>2. CASE Next
  BY <1>2, CommandPaths, UpdatePaths, MasterPaths, SlavePaths DEF Next, Flush
<1> QED BY ZenonT(60), <1>1, <1>2

LEMMA SpecPaths ==
  ASSUME MayFail = {}
  PROVE  Spec => []PathInv
<1>1. Inv /\ ListInv /\ PathInv /\ [Next]_vars => PathInv' BY ZenonT(60), StepPaths
<1>2. Spec => []ListInv BY SpecLists
<1> QED BY <1>1, <1>2, InitPaths, SpecInv, PTL DEF Spec

(* When flush_cmd has gone through, the slaves walk the lists and forward   *)
(* along the paths that the commands built, for any number of lcores,       *)
(* components and ports, if nothing fails and there is no classifier (whose *)
(* first update can be lost).                                               *)
THEOREM FlushedInForceAlways ==
  ASSUME MayFail = {}, "cls" \notin Types
  PROVE  Spec => []FlushedInForce
<1>1. Inv /\ ListInv /\ PathInv => FlushedInForce
  <2> SUFFICES ASSUME Inv, ListInv, PathInv, mpc = "idle", change_comp = {}
               PROVE  /\ \A l \in Slaves : core[l][ref[l]] = core[l][upd[l]]
                      /\ \A i \in Ids : comp[i].type # "none" =>
                           /\ inforce[KindOf(i)][i].rx = comp[i].rx
                           /\ inforce[KindOf(i)][i].tx = comp[i].tx
    BY ZenonT(60) DEF FlushedInForce
  <2>1. \A l \in Slaves : core[l][ref[l]] = core[l][upd[l]]
    BY ZenonT(60) DEF Lcores, Inv, SidesTyped, Sides, ListInv, Lists, Edited
  <2>2. ASSUME NEW i \in Ids, comp[i].type # "none"
        PROVE  /\ inforce[KindOf(i)][i].rx = comp[i].rx
               /\ inforce[KindOf(i)][i].tx = comp[i].tx
    <3>1. InForce(i) BY ZenonT(60), <2>2 DEF PathInv, AllInForce, NotYet
    <3>2. comp[i].type # "cls"
      <4>1. comp[i].type \in Types \union {"none"}
        BY Zenon DEF ListInv, SlotsTyped, Component
      <4> QED BY <4>1
    <3> QED BY ZenonT(60), <3>1, <3>2, PathFields DEF InForce, Takes
  <2> QED BY ZenonT(60), <2>1, <2>2
<1>2. Spec => []ListInv BY ZenonT(60), SpecLists
<1>3. Spec => []PathInv BY ZenonT(60), SpecPaths
<1> QED BY <1>1, <1>2, <1>3, SpecInv, PTL

(* Without VLAN arguments no port is given to two components. *)
PortsApart == \A i, j \in Ids : i # j => /\ comp[i].rx \intersect comp[j].rx = {}
                                         /\ comp[i].tx \intersect comp[j].tx = {}

LEMMA InitApart == Init => PortsApart
<1>1. ZeroComp.rx = {} /\ ZeroComp.tx = {} BY SMTT(30) DEF ZeroComp
<1> QED BY <1>1 DEF Init, PortsApart

(* Only one component gets ports, and none that another one has. *)
LEMMA SetApart ==
  ASSUME SlotsTyped, PortsApart, NEW i \in Ids, NEW d \in Dirs, NEW P,
         SetsPorts(i, d, P), \A j \in Ids : j # i => P \intersect comp[j][d] = {}
  PROVE  PortsApart'
<1>1. comp \in [Ids -> Component] BY ZenonT(60), SMTT(30) DEF SlotsTyped
<1>2. CASE d = "rx"
  <2>1. /\ \A j \in Ids : j # i => comp'[j] = comp[j]
        /\ comp'[i].rx = P /\ comp'[i].tx = comp[i].tx
    BY Zenon, <1>1, <1>2 DEF SetsPorts, Component
  <2>2. \A j \in Ids : j # i => P \intersect comp[j].rx = {} BY <1>2
  <2> QED BY ZenonT(60), <2>1, <2>2 DEF PortsApart
<1>3. CASE d = "tx"
  <2>1. /\ \A j \in Ids : j # i => comp'[j] = comp[j]
        /\ comp'[i].tx = P /\ comp'[i].rx = comp[i].rx
    BY Zenon, <1>1, <1>3 DEF SetsPorts, Component
  <2>2. \A j \in Ids : j # i => P \intersect comp[j].tx = {} BY ZenonT(60), <1>3
  <2> QED BY ZenonT(60), <2>1, <2>2 DEF PortsApart
<1> QED BY SMTT(30), <1>2, <1>3 DEF Dirs

LEMMA StepApart ==
  ASSUME MayTag = FALSE, ListInv, PortsApart, [Next]_vars
  PROVE  PortsApart'
<1> USE DEF registry
<1>0. SlotsTyped /\ comp \in [Ids -> Component] BY ZenonT(60) DEF ListInv, SlotsTyped
<1>1. ASSUME comp' = comp PROVE PortsApart' BY ZenonT(60), <1>1 DEF PortsApart
<1>2. ASSUME NEW i, NEW c, c.rx = {}, c.tx = {}, comp' = [comp EXCEPT ![i] = c]
      PROVE  PortsApart'
  <2>1. \A j \in Ids : comp'[j] = IF j = i THEN c ELSE comp[j] BY ZenonT(60), <1>0, <1>2
  <2> QED BY <1>2, <2>1 DEF PortsApart
<1>3. ASSUME NEW n \in Names, NEW l \in Targets, NEW t \in Types, CompStart(n, l, t)
      PROVE  PortsApart'
  <2>1. PICK i, c : /\ i = get_free_lcore_id
                    /\ c = [name |-> n, type |-> t, lcore |-> l, rx |-> {}, tx |-> {}]
    BY ZenonT(60)
  <2>2. c.rx = {} /\ c.tx = {} BY ZenonT(60), <2>1
  <2>3. comp' = [comp EXCEPT ![i] = c] BY <1>3, <2>1 DEF CompStart
  <2> QED BY ZenonT(60), <1>2, <2>2, <2>3
<1>4. ASSUME NEW n \in Names, CompStop(n) PROVE PortsApart'
  <2>1. PICK i : i = First({j \in Ids : comp[j].name = n}) BY ZenonT(60)
  <2>2. ZeroComp.rx = {} /\ ZeroComp.tx = {} BY DEF ZeroComp
  <2>3. comp' = [comp EXCEPT ![i] = ZeroComp] BY ZenonT(60), <1>4, <2>1 DEF CompStop
  <2> QED BY ZenonT(60), <1>2, <2>2, <2>3
<1>5. ASSUME NEW n \in Names, NEW p \in Ports, NEW d \in Dirs,
             NEW tag \in {FALSE, MayTag}, PortAdd(n, p, d, tag)
      PROVE  PortsApart'
  <2>0. PICK i \in Ids : \E P : /\ comp[i].name = n /\ SetsPorts(i, d, P)
                               /\ P = comp[i][d] \union {p}
                               /\ change_comp' = change_comp \union {i}
    BY <1>0, <1>5, PortAddSets
  <2>1. PICK P : SetsPorts(i, d, P) /\ P = comp[i][d] \union {p} BY Zenon, <2>0
  <2>2. ~UsedPort(p, d) BY ZenonT(30), <1>5 DEF PortAdd
  <2>3. \A j \in Ids : p \notin comp[j][d]
    <3>1. ZeroComp.rx = {} /\ ZeroComp.tx = {} BY DEF ZeroComp
    <3>2. \A j \in Ids : comp[j].type = "none" => comp[j] = ZeroComp
      BY ZenonT(60), VfWorkerAssumption DEF ListInv, SlotsTyped
    <3> QED BY ZenonT(60), <2>2, <3>1, <3>2 DEF UsedPort, Dirs
  <2>4. \A j \in Ids : j # i => comp[i][d] \intersect comp[j][d] = {}
    BY ZenonT(60) DEF PortsApart, Dirs
  <2>5. \A j \in Ids : j # i => P \intersect comp[j][d] = {}
    BY ZenonT(60), <2>1, <2>3, <2>4
  <2> QED BY ZenonT(60), <1>0, <2>1, <2>5, SetApart
<1>6. ASSUME NEW n \in Names, NEW p \in Ports, NEW d \in Dirs, PortDel(n, p, d)
      PROVE  PortsApart'
  <2>0. PICK i \in Ids : \E P : /\ comp[i].name = n /\ SetsPorts(i, d, P)
                               /\ P = comp[i][d] \ {p}
                               /\ change_comp' = change_comp \union {i}
    BY ZenonT(60), <1>0, <1>6, PortDelSets
  <2>1. PICK P : SetsPorts(i, d, P) /\ P = comp[i][d] \ {p} BY ZenonT(60), <2>0
  <2>2. \A j \in Ids : j # i => comp[i][d] \intersect comp[j][d] = {}
    BY ZenonT(60) DEF PortsApart, Dirs
  <2>3. \A j \in Ids : j # i => P \intersect comp[j][d] = {}
    BY ZenonT(60), <2>1, <2>2
  <2> QED BY ZenonT(60), <1>0, <2>1, <2>3, SetApart
<1>7. ASSUME NEW n \in Names, CompStopUnknown(n) PROVE PortsApart'
  BY ZenonT(60), <1>1, <1>7 DEF CompStopUnknown
<1>8. CASE Command
  BY ZenonT(60), <1>1, <1>3, <1>4, <1>5, <1>6, <1>7, <1>8 DEF Command, ExitCommand
<1>9. CASE Flush
  BY ZenonT(60), <1>1, <1>9 DEF Flush, UpdatePorts, UpdatePortsFails, PublishCores, WaitCore,
     CoresDone, UpdateComp, UpdateCompFails, PublishComp, WaitComp, FlushDone
<1>10. CASE MainSteps \/ Signal
  BY ZenonT(60), <1>1, <1>10 DEF MainSteps, LaunchSlaves, MasterIdling, CheckIdling,
     SetRunning, QuitLoop, Finalize, Exit, Signal
<1>11. ASSUME NEW l \in Slaves, SlaveMain(l) PROVE PortsApart'
  BY ZenonT(60), <1>1, <1>11 DEF SlaveMain, Boot, Top, SlaveStop, Call, Enter, Leave
<1>12. CASE UNCHANGED vars BY <1>1, <1>12 DEF vars
<1> QED BY ZenonT(60), <1>8, <1>9, <1>10, <1>11, <1>12 DEF Next

LEMMA SpecApart ==
  ASSUME MayTag = FALSE, "attach" \notin MayFail
  PROVE  Spec => []PortsApart
<1>1. ListInv /\ PortsApart /\ [Next]_vars => PortsApart' BY ZenonT(60), StepApart
<1>2. Spec => []ListInv BY SpecLists
<1> QED BY <1>1, <1>2, InitApart, PTL DEF Spec

(* Two slaves never move packets through the same queue, each for a         *)
(* component of its lcore whose update is over, for any number of lcores,   *)
(* components of all types and ports, if nothing fails and no command       *)
(* carries VLAN arguments (with which the parser lets a port be shared).    *)
THEOREM SettledQueuesDisjointAlways ==
  ASSUME MayFail = {}, MayTag = FALSE
  PROVE  Spec => []SettledQueuesDisjoint
<1>1. Inv /\ ListInv /\ PathInv /\ PortsApart => SettledQueuesDisjoint
  <2> SUFFICES ASSUME Inv, ListInv, PathInv, PortsApart, NEW l \in Slaves,
                      NEW m \in Slaves, l # m, Forwarding(l), Forwarding(m),
                      Settled(l), Settled(m)
               PROVE  /\ Path(l).rx \intersect Path(m).rx = {}
                      /\ Path(l).tx \intersect Path(m).tx = {}
    BY DEF SettledQueuesDisjoint
  <2>1. \A k \in Slaves : Forwarding(k) /\ Settled(k) =>
          /\ CompId(k) \in Ids
          /\ Path(k).rx \subseteq comp[CompId(k)].rx
          /\ Path(k).tx \subseteq comp[CompId(k)].tx
    <3> SUFFICES ASSUME NEW k \in Slaves, Forwarding(k), Settled(k)
                 PROVE  /\ CompId(k) \in Ids
                        /\ Path(k).rx \subseteq comp[CompId(k)].rx
                        /\ Path(k).tx \subseteq comp[CompId(k)].tx
      BY ZenonT(60)
    <3>1. /\ CompId(k) \in Ids /\ comp[CompId(k)].type # "none"
          /\ CompId(k) \in Assigned(k) /\ CompId(k) \notin change_comp
      BY ZenonT(60), SMTT(30) DEF Settled, Assigned
    <3>2. kind[k] = KindOf(CompId(k))
      BY ZenonT(60), <3>1 DEF Forwarding, Inside, PathInv, KindRead
    <3>3. CompId(k) \notin NotYet
      BY ZenonT(60), <3>1 DEF NotYet, PathInv, PathsTyped
    <3>4. Takes(CompId(k), Path(k))
      BY ZenonT(60), <3>1, <3>2, <3>3 DEF PathInv, AllInForce, InForce, Path
    <3>5. ZeroPath.rx = {} /\ ZeroPath.tx = {} BY ZenonT(60) DEF ZeroPath
    <3>6. \A i : PathOf(comp[i]).rx = comp[i].rx /\ PathOf(comp[i]).tx = comp[i].tx
      BY DEF PathOf
    <3>7. CASE Path(k) = PathOf(comp[CompId(k)]) BY ZenonT(60), <3>1, <3>6, <3>7
    <3>8. CASE Path(k) = ZeroPath BY ZenonT(60), <3>1, <3>5, <3>8
    <3> QED BY ZenonT(60), <3>4, <3>7, <3>8 DEF Takes
  <2>2. CompId(l) # CompId(m)
    BY ZenonT(60), InvOneLcore DEF OneLcorePerComponent, Forwarding, Inside
  <2> QED BY ZenonT(60), <2>1, <2>2 DEF PortsApart
<1>2. Spec => []ListInv BY ZenonT(60), SpecLists
<1>3. Spec => []PathInv BY SpecPaths
<1>4. Spec => []PortsApart BY Zenon, SpecApart
<1> QED BY <1>1, <1>2, <1>3, <1>4, SpecInv, PTL
=============================================================================
