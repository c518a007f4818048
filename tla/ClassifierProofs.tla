-------------------------- MODULE ClassifierProofs --------------------------
(***************************************************************************)
(* For any ports, VLAN ids, addresses and packets, and any number of       *)
(* failing updates: the two sides of a classifier implement ConfigCell,    *)
(* although both indices start at 0 and the first update is made on the    *)
(* side in force; the tables of a side hold what its configuration says,   *)
(* so that packets are classified as the update that was accepted last;    *)
(* and every packet has as many references as there are places it is at.   *)
(***************************************************************************)
EXTENDS Classifier, TLAPS, FiniteSetTheorems, WellFoundedInduction

Cfgs == [rx : BOOLEAN, tx : Seq(Entries)]

IsSide(x) == x = [cfg |-> x.cfg, clf |-> x.clf, entry |-> x.entry, buf |-> x.buf]

CfgsTyped == /\ attr \in [Ports -> [vid : Vids, mac : Macs \union {"none"}]]
             /\ comp \in [rx : BOOLEAN, tx : Seq(Ports)]
             /\ ref \in Sides /\ upd \in Sides /\ cur \in Sides
             /\ list = [s \in Sides |-> list[s]]
             /\ \A s \in Sides : IsSide(list[s]) /\ list[s].cfg \in Cfgs
             /\ mpc \in {"idle", "update", "fill", "wait", "stop"}
             /\ spc \in {"out", "load", "in", "rx", "push"}

(* Before the first update is published nothing has been configured. *)
Fresh == /\ mpc \in {"idle", "update", "fill"}
         /\ mpc = "idle" => running = FALSE
         /\ comp = EmptyCfg
         /\ \A s \in Sides : list[s].cfg = EmptyCfg
         /\ mpc = "fill" => accepted = EmptyCfg

(* From then on the update side is not the reference side, except while     *)
(* update_classifier waits.                                                 *)
OwnSide == ref = upd => mpc = "wait" \/ Fresh

BurstSide == InCall => cur = ref

AcceptedAt == /\ mpc \in {"fill", "wait"} => accepted \in Cfgs
              /\ mpc = "fill" => list[upd].cfg = accepted
              /\ mpc = "wait" => list[1 - upd].cfg = accepted

Inv == CfgsTyped /\ OwnSide /\ BurstSide /\ AcceptedAt

(* Arithmetic that the proofs below use: a place below the last one, ...     *)
LEMMA NotLast ==
  ASSUME NEW l \in Nat, NEW n, n = l + 1, NEW m \in Nat \ {0}, m # n
  PROVE  /\ (m <= n) <=> (m <= l)
         /\ (m <= l) => m \in 1 .. n - 1
OBVIOUS

(* ... the size of an interval, ...                                         *)
LEMMA UpToFinite ==
  ASSUME NEW n \in Nat
  PROVE  IsFiniteSet(1 .. n) /\ Cardinality(1 .. n) = n
BY FS_Interval

(* ... and two differences that are the same.                               *)
LEMMA SameDifference ==
  ASSUME NEW r \in Int, NEW q \in Nat, NEW r2 \in Int, NEW q2 \in Nat, NEW c \in Nat,
         NEW h, r = q + h, h = c, r2 - q2 = r - q - c
  PROVE  r2 = q2
OBVIOUS

LEMMA OtherSide ==
  ASSUME NEW s \in Sides, NEW t \in Sides
  PROVE  1 - s \in Sides /\ 1 - s # s /\ (s # t => t = 1 - s)
BY DEF Sides

LEMMA EmptyTyped == EmptyCfg \in Cfgs
BY DEF EmptyCfg, Cfgs

LEMMA ZeroSideTyped == IsSide(ZeroSide) /\ ZeroSide.cfg = EmptyCfg
BY DEF IsSide, ZeroSide

(* What update_classifier is given is a configuration, without tx ports if  *)
(* the component has none.                                                  *)
LEMMA ConfigTyped ==
  ASSUME CfgsTyped
  PROVE  Config \in Cfgs /\ Len(Config.tx) = Len(comp.tx)
<1>1. comp.tx \in Seq(Ports) /\ comp.rx \in BOOLEAN BY DEF CfgsTyped
<1> DEFINE e(n) == [port |-> comp.tx[n], vid |-> attr[comp.tx[n]].vid,
                    mac |-> attr[comp.tx[n]].mac]
           f == [n \in 1 .. Len(comp.tx) |-> e(n)]
<1>2. \A n \in 1 .. Len(comp.tx) : e(n) \in Entries
  <2> SUFFICES ASSUME NEW n \in 1 .. Len(comp.tx) PROVE e(n) \in Entries
    OBVIOUS
  <2>1. comp.tx[n] \in Ports BY <1>1
  <2>2. attr[comp.tx[n]] \in [vid : Vids, mac : Macs \union {"none"}]
    BY <2>1 DEF CfgsTyped
  <2> QED BY <2>1, <2>2 DEF Entries
<1> HIDE DEF e
<1>3. Len(comp.tx) \in Nat BY <1>1
<1>4. f \in Seq(Entries) /\ Len(f) = Len(comp.tx) BY <1>2, <1>3
<1>5. Config = [rx |-> comp.rx, tx |-> f] BY DEF Config, e
<1> QED BY <1>1, <1>4, <1>5 DEF Cfgs

LEMMA EmptyConfig ==
  ASSUME CfgsTyped, comp = EmptyCfg
  PROVE  Config = EmptyCfg /\ Len(Config.tx) = 0
<1>1. Len(comp.tx) = 0 /\ comp.rx = FALSE BY DEF EmptyCfg
<1>2. Config.tx \in Seq(Entries) /\ Len(Config.tx) = 0 BY <1>1, ConfigTyped DEF Cfgs
<1>3. Config.tx = <<>> BY <1>2
<1>4. Config = [rx |-> comp.rx, tx |-> Config.tx] BY DEF Config
<1> QED BY <1>1, <1>2, <1>3, <1>4 DEF EmptyCfg

-----------------------------------------------------------------------------
(* Steps that leave the configurations and the tables of the sides alone   *)

SameCfgs == /\ list' = [s \in Sides |-> list'[s]]
            /\ \A s \in Sides : /\ IsSide(list'[s])
                                /\ list'[s].cfg = list[s].cfg /\ list'[s].clf = list[s].clf

LEMMA BufferOnly ==
  ASSUME NEW x, IsSide(x), NEW b
  PROVE  LET y == [x EXCEPT !.buf = b] IN IsSide(y) /\ y.cfg = x.cfg /\ y.clf = x.clf
BY DEF IsSide

Retabled(x, e, c) == [x EXCEPT !.entry = e, !.clf = c]

LEMMA TablesOnly ==
  ASSUME NEW x, IsSide(x), NEW e, NEW c
  PROVE  IsSide(Retabled(x, e, c)) /\ Retabled(x, e, c).cfg = x.cfg
<1> DEFINE z == [x EXCEPT !.entry = e]
           y == [z EXCEPT !.clf = c]
<1>1. IsSide(z) /\ z.cfg = x.cfg BY DEF IsSide
<1> HIDE DEF z
<1>2. IsSide(y) /\ y.cfg = z.cfg BY <1>1 DEF IsSide
<1>3. y = Retabled(x, e, c) BY Zenon DEF z, Retabled
<1> HIDE DEF y
<1> QED BY <1>1, <1>2, <1>3

LEMMA ReplaceSide ==
  ASSUME CfgsTyped, NEW t \in Sides, NEW x, IsSide(x),
         list' = [list EXCEPT ![t] = x]
  PROVE  /\ list' = [s \in Sides |-> list'[s]]
         /\ \A s \in Sides : IsSide(list'[s])
         /\ list'[t] = x
         /\ \A s \in Sides : s # t => list'[s] = list[s]
<1>1. list' = [s \in Sides |-> IF s = t THEN x ELSE list[s]] BY DEF CfgsTyped
<1> QED BY <1>1 DEF CfgsTyped

(* transmit_packets and push_packet change buffers only. *)
LEMMA EmptiedSame ==
  ASSUME CfgsTyped, NEW t \in Sides, NEW I,
         list' = [list EXCEPT ![t] = Emptied(list[t], I)]
  PROVE  SameCfgs
<1>1. IsSide(list[t]) BY DEF CfgsTyped
<1>2. /\ IsSide(Emptied(list[t], I)) /\ Emptied(list[t], I).cfg = list[t].cfg
      /\ Emptied(list[t], I).clf = list[t].clf
  BY ZenonT(60), <1>1, BufferOnly DEF Emptied
<1> QED BY Zenon, <1>2, ReplaceSide DEF SameCfgs

LEMMA PushSame ==
  ASSUME CfgsTyped, push_packet
  PROVE  SameCfgs
<1> DEFINE i == Head(push)
           x == [list[cur] EXCEPT !.buf[i] = Append(@, pkt)]
           full == IF Len(x.buf[i]) = MaxBurst THEN {i} ELSE {}
<1>1. list' = [list EXCEPT ![cur] = Emptied(x, full)] BY DEF push_packet
<1>2. cur \in Sides /\ IsSide(list[cur]) BY DEF CfgsTyped
<1>3. IsSide(x) /\ x.cfg = list[cur].cfg /\ x.clf = list[cur].clf BY Zenon, <1>2, BufferOnly
<1> HIDE DEF x, full
<1>4. /\ IsSide(Emptied(x, full)) /\ Emptied(x, full).cfg = x.cfg
      /\ Emptied(x, full).clf = x.clf
  BY <1>3, BufferOnly DEF Emptied
<1> QED BY Zenon, <1>1, <1>2, <1>3, <1>4, ReplaceSide DEF SameCfgs

LEMMA UnchangedSame ==
  ASSUME CfgsTyped, UNCHANGED list
  PROVE  SameCfgs
BY DEF CfgsTyped, SameCfgs

(* What a burst does with its packets *)
Packets == Drain \/ Receive \/ push_packet \/ \E b \in Pkts : Sent(b)

LEMMA PacketsKeep ==
  ASSUME CfgsTyped, Packets
  PROVE  /\ SameCfgs
         /\ UNCHANGED <<attr, comp, running, ref, upd, mpc, accepted, failures, cur>>
         /\ \/ UNCHANGED spc
            \/ InCall /\ spc' \in {"rx", "push"}
<1> USE DEF config, sides, worker, packets, InCall
<1>1. CASE Drain BY <1>1, EmptiedSame DEF Drain, CfgsTyped
<1>2. CASE Receive BY ZenonT(60), <1>2, UnchangedSame DEF Receive
<1>3. CASE push_packet BY <1>3, PushSame DEF push_packet
<1>4. CASE \E b \in Pkts : Sent(b) BY <1>4, UnchangedSame DEF Sent
<1> QED BY <1>1, <1>2, <1>3, <1>4 DEF Packets

(* init_component_info gives a side the configuration it is called with. *)
LEMMA InitSide ==
  ASSUME NEW x, NEW c, NEW n
  PROVE  IsSide(init_component_info(x, c, n)) /\ init_component_info(x, c, n).cfg = c
BY DEF IsSide, init_component_info

-----------------------------------------------------------------------------
(* The invariant                                                           *)

LEMMA InitInv == Init => Inv
<1> SUFFICES ASSUME Init PROVE Inv OBVIOUS
<1> USE DEF Init
<1>1. \A s \in Sides : list[s] = ZeroSide OBVIOUS
<1>2. attr \in [Ports -> [vid : Vids, mac : Macs \union {"none"}]]
  BY ClassifierAssumption DEF NoAttr
<1>3. comp \in [rx : BOOLEAN, tx : Seq(Ports)] /\ comp = EmptyCfg
  BY DEF EmptyCfg
<1>4. CfgsTyped BY <1>1, <1>2, <1>3, ZeroSideTyped, EmptyTyped DEF CfgsTyped, Sides
<1>5. OwnSide BY <1>1, <1>3, ZeroSideTyped DEF OwnSide, Fresh
<1>6. BurstSide /\ AcceptedAt BY DEF BurstSide, AcceptedAt, InCall
<1> QED BY <1>4, <1>5, <1>6 DEF Inv

(* A component that is started has been updated, except by the command that *)
(* starts it.                                                               *)
LEMMA RunningUpdated ==
  ASSUME Inv, mpc = "idle", running
  PROVE  ref # upd
BY ZenonT(60) DEF Inv, OwnSide, Fresh

LEMMA CommandInv ==
  ASSUME Inv, Command
  PROVE  Inv'
<1> USE DEF Inv, CfgsTyped, OwnSide, BurstSide, AcceptedAt, InCall, Store,
            sides, worker, packets
<1>1. CASE CompStart BY <1>1 DEF CompStart, Fresh
<1>2. CASE CompStop
  <2>1. comp' \in [rx : BOOLEAN, tx : Seq(Ports)] BY <1>2 DEF CompStop
  <2> QED BY <1>2, <2>1, RunningUpdated DEF CompStop
<1>3. ASSUME NEW on \in BOOLEAN, RxPort(on) PROVE Inv'
  <2>1. comp' \in [rx : BOOLEAN, tx : Seq(Ports)] BY <1>3 DEF RxPort
  <2> QED BY <1>3, <2>1, RunningUpdated DEF RxPort
<1>4. ASSUME NEW p \in Ports, TxAdd(p) PROVE Inv'
  <2>1. Append(comp.tx, p) \in Seq(Ports) OBVIOUS
  <2>2. comp' \in [rx : BOOLEAN, tx : Seq(Ports)] BY Zenon, <1>4, <2>1 DEF TxAdd
  <2> QED BY <1>4, <2>2, RunningUpdated DEF TxAdd
<1>5. ASSUME NEW p \in Ports, TxDel(p) PROVE Inv'
  <2>1. PICK i \in DOMAIN comp.tx : comp' = [comp EXCEPT !.tx = Without(@, i)]
    BY Zenon, <1>5 DEF TxDel
  <2>2. comp.tx \in Seq(Ports) /\ i \in 1 .. Len(comp.tx) OBVIOUS
  <2>3. Without(comp.tx, i) \in Seq(Ports)
    <3>1. SubSeq(comp.tx, 1, i - 1) \in Seq(Ports) BY <2>2
    <3>2. SubSeq(comp.tx, i + 1, Len(comp.tx)) \in Seq(Ports) BY <2>2
    <3> QED BY <3>1, <3>2 DEF Without
  <2>4. comp' \in [rx : BOOLEAN, tx : Seq(Ports)] BY Zenon, <2>1, <2>3
  <2> QED BY <1>5, <2>4, RunningUpdated DEF TxDel
<1>6. ASSUME NEW p \in Ports, NEW a \in Attrs \union {NoAttr},
             attr' = [attr EXCEPT ![p] = a],
             mpc' = IF Has(p) THEN "update" ELSE "idle",
             Store, UNCHANGED <<comp, running>>
      PROVE  Inv'
  <2>1. a \in [vid : Vids, mac : Macs \union {"none"}]
    BY ClassifierAssumption DEF NoAttr
  <2>2. attr' \in [Ports -> [vid : Vids, mac : Macs \union {"none"}]]
    BY <1>6, <2>1
  <2>3. comp = EmptyCfg => ~Has(p) BY DEF Has, EmptyCfg
  <2> QED BY <1>6, <2>2, <2>3 DEF Fresh
<1>7. ASSUME NEW p \in Ports, NEW a \in Attrs, TableAdd(p, a) PROVE Inv'
  BY Zenon, <1>6, <1>7 DEF TableAdd
<1>8. ASSUME NEW p \in Ports, TableDel(p) PROVE Inv'
  BY ZenonT(60), <1>6, <1>8 DEF TableDel
<1> QED BY ZenonT(60), <1>1, <1>2, <1>3, <1>4, <1>5, <1>7, <1>8 DEF Command

LEMMA FlushInv ==
  ASSUME Inv, Flush
  PROVE  Inv'
<1> USE DEF Inv, CfgsTyped, OwnSide, BurstSide, AcceptedAt, InCall,
            config, sides, worker, packets
<1>1. CASE StopDone BY <1>1 DEF StopDone, Fresh
<1>2. CASE UpdateFill
  <2> DEFINE x == init_component_info(list[upd], Config, Len(Config.tx))
  <2>1. IsSide(x) /\ x.cfg = Config BY InitSide
  <2> HIDE DEF x
  <2>2. list' = [list EXCEPT ![upd] = x] BY <1>2 DEF UpdateFill, x
  <2>3. /\ list' = [s \in Sides |-> list'[s]]
        /\ \A s \in Sides : IsSide(list'[s])
        /\ list'[upd].cfg = Config
        /\ \A s \in Sides : s # upd => list'[s] = list[s]
    BY Zenon, <2>1, <2>2, ReplaceSide
  <2>4. ref = upd => Fresh /\ Config = EmptyCfg
    BY ZenonT(60), <1>2, EmptyConfig DEF UpdateFill, Fresh
  <2> QED BY <1>2, <2>3, <2>4, ConfigTyped DEF UpdateFill, Fresh
<1>3. CASE UpdateFails
  <2>1. PICK x :
          IsSide(x) /\ x.cfg = Config /\ list' = [list EXCEPT ![upd] = x]
    <3>1. PICK n \in 0 .. Len(Config.tx) - 1 :
            LET e == Config.tx[n + 1]
                y == init_component_info(list[upd], Config, n)
            IN \/ list' = [list EXCEPT ![upd] = y]
               \/ list' = [list EXCEPT ![upd] =
                     [y EXCEPT !.entry = TRUE,
                               !.clf[e.vid] = [ClfOf(y, e.vid) EXCEPT
                                                 !.ports = Append(@, n + 1)]]]
      BY Zenon, <1>3 DEF UpdateFails
    <3> DEFINE e == Config.tx[n + 1]
               y == init_component_info(list[upd], Config, n)
               c == [y.clf EXCEPT ![e.vid] = [ClfOf(y, e.vid) EXCEPT
                                                !.ports = Append(@, n + 1)]]
               z == Retabled(y, TRUE, c)
    <3>2. IsSide(y) /\ y.cfg = Config BY InitSide
    <3>3. \/ list' = [list EXCEPT ![upd] = y]
          \/ list' = [list EXCEPT ![upd] = z]
      BY <3>1 DEF Retabled
    <3> HIDE DEF y, c
    <3>4. IsSide(z) /\ z.cfg = y.cfg BY ZenonT(60), <3>2, TablesOnly
    <3> HIDE DEF z
    <3> QED BY <3>2, <3>3, <3>4
  <2>2. ref # upd
    BY <1>3, <2>1, EmptyConfig DEF UpdateFails, Fresh
  <2>3. /\ list' = [s \in Sides |-> list'[s]]
        /\ \A s \in Sides : IsSide(list'[s])
        /\ list'[upd].cfg = Config
        /\ \A s \in Sides : s # upd => list'[s] = list[s]
    BY Zenon, <2>1, ReplaceSide
  <2> QED BY <1>3, <2>2, <2>3, ConfigTyped DEF UpdateFails
<1>4. CASE UpdatePublish
  <2>1. ref # upd => upd = 1 - ref BY OtherSide
  <2>2. 1 - ref \in Sides BY OtherSide
  <2> QED BY <1>4, <2>1, <2>2 DEF UpdatePublish, Fresh
<1>5. CASE UpdateClean
  <2>1. list' = [list EXCEPT ![upd] = ZeroSide] BY <1>5 DEF UpdateClean
  <2>2. /\ list' = [s \in Sides |-> list'[s]]
        /\ \A s \in Sides : IsSide(list'[s])
        /\ list'[upd].cfg = EmptyCfg
        /\ \A s \in Sides : s # upd => list'[s] = list[s]
    BY Zenon, <2>1, ReplaceSide, ZeroSideTyped
  <2> QED BY <1>5, <2>2, EmptyTyped DEF UpdateClean
<1> QED BY <1>1, <1>2, <1>3, <1>4, <1>5 DEF Flush

LEMMA WorkerInv ==
  ASSUME Inv, change_classifier_index \/ LoadSide \/ NotReady \/ Leave \/ Packets
  PROVE  Inv'
<1> USE DEF Inv, OwnSide, BurstSide, AcceptedAt, InCall,
            config, sides, worker, packets
<1>1. CASE change_classifier_index
  <2>1. SameCfgs
    BY <1>1, EmptiedSame, UnchangedSame DEF change_classifier_index, CfgsTyped
  <2>2. 1 - upd \in Sides /\ 1 - upd # upd BY OtherSide DEF CfgsTyped
  <2> QED BY <1>1, <2>1, <2>2
          DEF change_classifier_index, SameCfgs, CfgsTyped, Fresh
<1>2. CASE LoadSide BY <1>2 DEF LoadSide, CfgsTyped, Fresh
<1>3. CASE NotReady BY ZenonT(60), <1>3 DEF NotReady, CfgsTyped, Fresh
<1>4. CASE Leave BY <1>4 DEF Leave, CfgsTyped, Fresh
<1>5. CASE Packets
  <2>1. /\ SameCfgs
        /\ UNCHANGED <<attr, comp, running, ref, upd, mpc, accepted, failures, cur>>
        /\ \/ UNCHANGED spc
           \/ InCall /\ spc' \in {"rx", "push"}
    BY <1>5, PacketsKeep
  <2>2. 1 - upd \in Sides BY OtherSide DEF CfgsTyped
  <2> QED BY <2>1, <2>2 DEF SameCfgs, CfgsTyped, Fresh
<1> QED BY <1>1, <1>2, <1>3, <1>4, <1>5

LEMMA StepCases ==
  ASSUME [Next]_vars
  PROVE  \/ Command \/ Flush
         \/ change_classifier_index \/ LoadSide \/ NotReady \/ Leave \/ Packets
         \/ UNCHANGED vars
BY DEF Next, classify_packets, Packets

LEMMA StepInv == Inv /\ [Next]_vars => Inv'
<1> SUFFICES ASSUME Inv, [Next]_vars PROVE Inv' OBVIOUS
<1>1. CASE UNCHANGED vars
  BY <1>1 DEF vars, Inv, CfgsTyped, OwnSide, Fresh, BurstSide, AcceptedAt, InCall
<1> QED BY <1>1, StepCases, CommandInv, FlushInv, WorkerInv

LEMMA SpecInv == Spec => []Inv
BY InitInv, StepInv, PTL DEF Spec

-----------------------------------------------------------------------------
(* Refinement of ConfigCell                                                *)

LEMMA NoCfgNotCfg == NoCfg \notin Cfgs
BY DEF NoCfg, Cfgs

LEMMA CellInit == Init => Cell!Init
<1> SUFFICES ASSUME Init PROVE Cell!Init OBVIOUS
<1>1. list[ref].cfg = EmptyCfg BY ZeroSideTyped DEF Init, Sides
<1> QED BY <1>1, EmptyTyped DEF Init, Cell!Init, InCall, Cfgs

(* A command only stores; what it stored is requested by its flush. *)
LEMMA CommandCell ==
  ASSUME Inv, Command
  PROVE  UNCHANGED Cell!vars
BY DEF Command, CompStart, CompStop, RxPort, TxAdd, TxDel, TableAdd, TableDel,
       Store, Cell!vars, InCall, sides, worker, packets

LEMMA FlushCell ==
  ASSUME Inv, Flush
  PROVE  Cell!Next \/ UNCHANGED Cell!vars
<1> USE DEF Inv, CfgsTyped, OwnSide, BurstSide, InCall, Cell!vars,
            config, sides, worker, packets
<1>1. CASE StopDone BY <1>1 DEF StopDone
<1>2. CASE UpdateFill
  <2> DEFINE x == init_component_info(list[upd], Config, Len(Config.tx))
  <2>1. IsSide(x) /\ x.cfg = Config BY InitSide
  <2> HIDE DEF x
  <2>2. list' = [list EXCEPT ![upd] = x] BY <1>2 DEF UpdateFill, x
  <2>3. list'[upd].cfg = Config /\ \A s \in Sides : s # upd => list'[s] = list[s]
    BY <2>1, <2>2, ReplaceSide
  <2>4. list'[ref].cfg = list[ref].cfg
    BY <1>2, <2>3, EmptyConfig DEF UpdateFill, Fresh
  <2>5. Cell!Request
    BY <1>2, <2>4, ConfigTyped DEF UpdateFill, Cell!Request, Cfgs
  <2> QED BY <2>5 DEF Cell!Next
<1>3. CASE UpdateFails
  <2>1. ref # upd BY <1>3, EmptyConfig DEF UpdateFails, Fresh
  <2>2. list'[ref] = list[ref] BY <1>3, <2>1 DEF UpdateFails
  <2> QED BY <1>3, <2>2 DEF UpdateFails
<1>4. CASE UpdatePublish BY <1>4 DEF UpdatePublish
<1>5. CASE UpdateClean
  <2>1. list'[ref] = list[ref] BY <1>5 DEF UpdateClean
  <2>2. Cell!Return BY ZenonT(60), <1>5, <2>1 DEF UpdateClean, Cell!Return
  <2> QED BY <2>2 DEF Cell!Next
<1> QED BY ZenonT(60), <1>1, <1>2, <1>3, <1>4, <1>5 DEF Flush

LEMMA WorkerCell ==
  ASSUME Inv, change_classifier_index \/ LoadSide \/ NotReady \/ Leave \/ Packets
  PROVE  Cell!Next \/ UNCHANGED Cell!vars
<1> USE DEF Inv, CfgsTyped, OwnSide, BurstSide, AcceptedAt, InCall, Cell!vars,
            config, sides, worker, packets
<1>1. CASE change_classifier_index
  <2>1. \A s \in Sides : list'[s].cfg = list[s].cfg
    BY ZenonT(60), <1>1, EmptiedSame, UnchangedSame DEF change_classifier_index, SameCfgs
  <2>2. 1 - upd \in Sides /\ 1 - upd # upd BY OtherSide
  <2>3. CASE ref = upd /\ mpc = "wait"
    <3>1. Cell!Apply
      BY ZenonT(60), <1>1, <2>1, <2>2, <2>3 DEF change_classifier_index, Cell!Apply
    <3> QED BY <3>1 DEF Cell!Next
  <2>4. CASE ref = upd /\ mpc # "wait"
    BY ZenonT(60), <1>1, <2>1, <2>2, <2>4 DEF change_classifier_index, Fresh
  <2>5. CASE ref # upd BY <1>1, <2>5 DEF change_classifier_index
  <2> QED BY ZenonT(60), <2>3, <2>4, <2>5
<1>2. CASE LoadSide
  <2>1. Cell!BeginBurst BY <1>2 DEF LoadSide, Cell!BeginBurst
  <2> QED BY <2>1 DEF Cell!Next
<1>3. CASE NotReady
  <2>1. Cell!EndBurst BY <1>3, NoCfgNotCfg DEF NotReady, Cell!EndBurst
  <2> QED BY <2>1 DEF Cell!Next
<1>4. CASE Leave
  <2>1. Cell!EndBurst BY <1>4, NoCfgNotCfg DEF Leave, Cell!EndBurst
  <2> QED BY <2>1 DEF Cell!Next
<1>5. CASE Packets
  <2>1. /\ SameCfgs
        /\ UNCHANGED <<attr, comp, running, ref, upd, mpc, accepted, failures, cur>>
        /\ \/ UNCHANGED spc
           \/ InCall /\ spc' \in {"rx", "push"}
    BY <1>5, PacketsKeep
  <2> QED BY <2>1 DEF SameCfgs
<1> QED BY ZenonT(60), <1>1, <1>2, <1>3, <1>4, <1>5

LEMMA CellStep == Inv /\ [Next]_vars => [Cell!Next]_(Cell!vars)
<1> SUFFICES ASSUME Inv, [Next]_vars
             PROVE  Cell!Next \/ UNCHANGED Cell!vars
  OBVIOUS
<1>1. CASE UNCHANGED vars BY <1>1 DEF vars, Cell!vars, InCall
<1> QED BY <1>1, StepCases, CommandCell, FlushCell, WorkerCell

(* Whatever commands and failures come first, no burst of packets is        *)
(* classified under two configurations, and update_classifier returns with  *)
(* its argument in force.                                                   *)
THEOREM ClassifierImplementsCell == Spec => ImplementsCell
BY SpecInv, CellInit, CellStep, PTL DEF Spec, ImplementsCell, Cell!Spec

-----------------------------------------------------------------------------
(* The loop of init_component_info                                         *)

LEMMA LeastNat ==
  ASSUME NEW S, S \subseteq Nat, S # {}
  PROVE  \E m \in S : \A k \in S : m <= k
<1>1. PICK m \in S : \A k \in S : ~(<<k, m>> \in OpToRel(<, Nat))
  BY Zenon, NatLessThanWellFounded, WFMin
<1>2. \A k \in S : ~(k < m) BY Zenon, <1>1 DEF OpToRel
<1> QED BY <1>2

(* The sides after each of the n turns *)
Turns(f, b, c, n) == f = [k \in 0 .. n |-> IF k = 0 THEN b
                                           ELSE AddEntry(f[k - 1], k, c.tx[k])]

LEMMA TurnsExist ==
  ASSUME NEW b, NEW c, NEW n \in Nat
  PROVE  \E f : Turns(f, b, c, n)
<1> DEFINE S == {m \in Nat : ~\E f : Turns(f, b, c, m)}
<1> SUFFICES ASSUME S # {} PROVE FALSE OBVIOUS
<1>1. PICK m \in S : \A k \in S : m <= k BY Zenon, LeastNat
<1>2. m # 0
  <2>1. Turns([k \in 0 .. 0 |-> b], b, c, 0) BY DEF Turns
  <2> QED BY <2>1
<1>3. m - 1 \in Nat /\ m - 1 \notin S BY <1>1, <1>2
<1>4. PICK f : Turns(f, b, c, m - 1) BY <1>3
<1>5. PICK g : g = [k \in 0 .. m |-> IF k = m THEN AddEntry(f[m - 1], m, c.tx[m]) ELSE f[k]]
  BY Zenon
<1>6. \A k \in 0 .. m - 1 : f[k] = IF k = 0 THEN b ELSE AddEntry(f[k - 1], k, c.tx[k])
  BY <1>4 DEF Turns
<1>7. ASSUME NEW k \in 0 .. m
      PROVE  g[k] = IF k = 0 THEN b ELSE AddEntry(g[k - 1], k, c.tx[k])
  <2>1. CASE k = m BY <1>2, <1>5, <2>1
  <2>2. CASE k # m
    <3>1. k \in 0 .. m - 1 BY <2>2
    <3>2. g[k] = f[k] BY <1>5, <2>2
    <3>3. k # 0 => k - 1 \in 0 .. m /\ k - 1 # m BY <3>1
    <3>4. k # 0 => g[k - 1] = f[k - 1] BY <1>5, <3>3
    <3> QED BY ZenonT(60), <1>6, <3>1, <3>2, <3>4
  <2> QED BY <2>1, <2>2
<1>8. g = [k \in 0 .. m |-> g[k]] BY Zenon, <1>5
<1>9. Turns(g, b, c, m) BY Zenon, <1>7, <1>8 DEF Turns
<1> QED BY <1>9

LEMMA InitTurns ==
  ASSUME NEW x, NEW c, NEW n \in Nat
  PROVE  \E f : /\ Turns(f, [clf |-> x.clf, entry |-> FALSE], c, n)
                /\ init_component_info(x, c, n).clf = f[n].clf
<1> DEFINE b == [clf |-> x.clf, entry |-> FALSE]
           f == CHOOSE g : Turns(g, b, c, n)
<1>1. Turns(f, b, c, n) BY Zenon, TurnsExist
<1>2. init_component_info(x, c, n).clf = f[n].clf
  BY DEF init_component_info, Turns
<1> QED BY Zenon, <1>1, <1>2

-----------------------------------------------------------------------------
(* What the tables hold                                                    *)

(* k is the largest element of S, NoIndex if there is none. *)
IsLast(k, S) == (S = {} /\ k = NoIndex) \/ (k \in S /\ \A j \in S : j <= k)

Rising(s, S) == /\ s \in Seq(S)
                /\ \A i, j \in DOMAIN s : i < j => s[i] < s[j]
                /\ \A k \in S : \E i \in DOMAIN s : s[i] = k

(* The first n entries of c for VLAN v, and those of an address *)
OfVid(c, n, v) == {i \in 1 .. n : c.tx[i].vid = v /\ c.tx[i].mac # "none"}
OfMac(c, n, v, m) == {i \in OfVid(c, n, v) : c.tx[i].mac = m}

ClfHolds(clf, c, n, v) ==
  /\ clf = [ports |-> clf.ports, default |-> clf.default, tbl |-> clf.tbl]
  /\ Rising(clf.ports, OfVid(c, n, v))
  /\ IsLast(clf.default, OfMac(c, n, v, Dummy))
  /\ clf.tbl = [m \in Macs |-> clf.tbl[m]]
  /\ \A m \in Macs : IsLast(clf.tbl[m], IF m = Dummy THEN {} ELSE OfMac(c, n, v, m))

TablesHold(tables, c, n) ==
  /\ tables = [v \in Vids |-> tables[v]]
  /\ \A v \in Vids : IF OfVid(c, n, v) = {} THEN tables[v] = NoClf
                                            ELSE ClfHolds(tables[v], c, n, v)

LEMMA NoTables ==
  ASSUME NEW c
  PROVE  TablesHold([v \in Vids |-> NoClf], c, 0)
BY DEF TablesHold, OfVid

(* A new table holds nothing. *)
LEMMA NewHolds ==
  ASSUME NEW c, NEW n \in Nat, NEW v, OfVid(c, n, v) = {}
  PROVE  ClfHolds(NewClf, c, n, v)
<1>1. /\ NewClf.ports = <<>> /\ NewClf.default = NoIndex
      /\ NewClf.tbl = [m \in Macs |-> NoIndex]
      /\ NewClf = [ports |-> NewClf.ports, default |-> NewClf.default,
                   tbl |-> NewClf.tbl]
  BY DEF NewClf
<1>2. Rising(<<>>, {}) BY DEF Rising
<1>3. \A m : OfMac(c, n, v, m) = {} BY DEF OfMac
<1>4. IsLast(NoIndex, {}) BY DEF IsLast
<1>5. \A m \in Macs : NewClf.tbl[m] = NoIndex BY <1>1
<1>6. NewClf.tbl = [m \in Macs |-> NewClf.tbl[m]] BY <1>1, <1>5
<1> QED BY ZenonT(60), <1>1, <1>2, <1>3, <1>4, <1>5, <1>6 DEF ClfHolds

LEMMA RisingAppend ==
  ASSUME NEW n \in Nat, NEW S \in SUBSET (1 .. n), NEW s, Rising(s, S)
  PROVE  Rising(Append(s, n + 1), S \union {n + 1})
<1> DEFINE t == Append(s, n + 1)
<1>1. /\ s \in Seq(S) /\ Len(s) \in Nat
      /\ \A i, j \in 1 .. Len(s) : i < j => s[i] < s[j]
      /\ \A k \in S : \E i \in 1 .. Len(s) : s[i] = k
      /\ \A i \in 1 .. Len(s) : s[i] \in S
  BY DEF Rising
<1>2. /\ t \in Seq(S \union {n + 1}) /\ DOMAIN t = 1 .. Len(s) + 1
      /\ \A i \in 1 .. Len(s) : t[i] = s[i]
      /\ t[Len(s) + 1] = n + 1
  BY <1>1
<1> HIDE DEF t
<1>3. \A i \in 1 .. Len(s) : s[i] \in Nat /\ s[i] < n + 1
  <2>1. \A k \in S : k \in Nat /\ k < n + 1 OBVIOUS
  <2> QED BY Zenon, <1>1, <2>1
<1>4. \A i, j \in DOMAIN t : i < j => t[i] < t[j]
  <2> SUFFICES ASSUME NEW i \in DOMAIN t, NEW j \in DOMAIN t, i < j PROVE t[i] < t[j]
    BY Zenon
  <2>1. i \in 1 .. Len(s) BY <1>1, <1>2
  <2>2. CASE j = Len(s) + 1 BY ZenonT(60), <1>2, <1>3, <2>1, <2>2
  <2>3. CASE j \in 1 .. Len(s) BY <1>1, <1>2, <2>1, <2>3
  <2> QED BY <1>1, <1>2, <2>2, <2>3
<1>5. \A k \in S \union {n + 1} : \E i \in DOMAIN t : t[i] = k
  <2>1. Len(s) + 1 \in DOMAIN t BY <1>1, <1>2
  <2>2. \A i \in 1 .. Len(s) : i \in DOMAIN t BY <1>1, <1>2
  <2> QED BY ZenonT(60), <1>1, <1>2, <2>1, <2>2
<1> QED BY ZenonT(60), <1>2, <1>4, <1>5 DEF Rising, t

LEMMA LastMore ==
  ASSUME NEW n \in Nat, NEW S \in SUBSET (1 .. n)
  PROVE  IsLast(n + 1, S \union {n + 1})
BY DEF IsLast

(* The entries of an address or a VLAN with one more turn *)
LEMMA OneMoreEntry ==
  ASSUME NEW c, NEW n \in Nat, NEW v
  PROVE  /\ OfVid(c, n, v) \subseteq 1 .. n
         /\ c.tx[n + 1].vid = v /\ c.tx[n + 1].mac # "none"
              => OfVid(c, n + 1, v) = OfVid(c, n, v) \union {n + 1}
         /\ ~(c.tx[n + 1].vid = v /\ c.tx[n + 1].mac # "none")
              => OfVid(c, n + 1, v) = OfVid(c, n, v)
         /\ \A m : /\ OfMac(c, n, v, m) \subseteq 1 .. n
                   /\ c.tx[n + 1].vid = v /\ c.tx[n + 1].mac # "none" /\ c.tx[n + 1].mac = m
                        => OfMac(c, n + 1, v, m) = OfMac(c, n, v, m) \union {n + 1}
                   /\ ~(c.tx[n + 1].vid = v /\ c.tx[n + 1].mac # "none" /\ c.tx[n + 1].mac = m)
                        => OfMac(c, n + 1, v, m) = OfMac(c, n, v, m)
<1>1. \A i : i \in 1 .. n + 1 <=> i \in 1 .. n \/ i = n + 1 OBVIOUS
<1>2. n + 1 \notin 1 .. n OBVIOUS
<1> QED BY <1>1, <1>2 DEF OfVid, OfMac

(* The table of the VLAN that the turn is for: ports, then the default or   *)
(* the address.                                                             *)
Entered(old, i, m) ==
  LET clf == [old EXCEPT !.ports = Append(@, i)]
  IN IF m = Dummy THEN [clf EXCEPT !.default = i] ELSE [clf EXCEPT !.tbl[m] = i]

LEMMA EntryHolds ==
  ASSUME NEW c, NEW n \in Nat, NEW v \in Vids, NEW e, e = c.tx[n + 1], e.vid = v,
         e.mac \in Macs, e.mac # "none", NEW old, ClfHolds(old, c, n, v)
  PROVE  ClfHolds(Entered(old, n + 1, e.mac), c, n + 1, v)
<1>1. PICK clf : clf = [old EXCEPT !.ports = Append(@, n + 1)] BY Zenon
<1>2. PICK new : new = Entered(old, n + 1, e.mac) BY Zenon
<1>3. new = IF e.mac = Dummy THEN [clf EXCEPT !.default = n + 1]
                              ELSE [clf EXCEPT !.tbl[e.mac] = n + 1]
  BY <1>1, <1>2 DEF Entered
<1> SUFFICES ClfHolds(new, c, n + 1, v) BY Zenon, <1>2
<1>4. /\ old = [ports |-> old.ports, default |-> old.default, tbl |-> old.tbl]
      /\ Rising(old.ports, OfVid(c, n, v))
      /\ IsLast(old.default, OfMac(c, n, v, Dummy))
      /\ old.tbl = [m \in Macs |-> old.tbl[m]]
      /\ \A m \in Macs : IsLast(old.tbl[m], IF m = Dummy THEN {} ELSE OfMac(c, n, v, m))
  BY Zenon DEF ClfHolds
<1>5. /\ OfVid(c, n, v) \subseteq 1 .. n
      /\ OfVid(c, n + 1, v) = OfVid(c, n, v) \union {n + 1}
      /\ OfMac(c, n, v, e.mac) \subseteq 1 .. n
      /\ OfMac(c, n + 1, v, e.mac) = OfMac(c, n, v, e.mac) \union {n + 1}
      /\ \A m : e.mac # m => OfMac(c, n + 1, v, m) = OfMac(c, n, v, m)
  <2>1. /\ OfVid(c, n, v) \subseteq 1 .. n
        /\ e.vid = v /\ e.mac # "none" => OfVid(c, n + 1, v) = OfVid(c, n, v) \union {n + 1}
        /\ \A m : /\ OfMac(c, n, v, m) \subseteq 1 .. n
                  /\ e.vid = v /\ e.mac # "none" /\ e.mac = m
                       => OfMac(c, n + 1, v, m) = OfMac(c, n, v, m) \union {n + 1}
                  /\ ~(e.vid = v /\ e.mac # "none" /\ e.mac = m)
                       => OfMac(c, n + 1, v, m) = OfMac(c, n, v, m)
    BY OneMoreEntry
  <2> QED BY ZenonT(60), <2>1
<1>6. /\ clf = [ports |-> clf.ports, default |-> clf.default, tbl |-> clf.tbl]
      /\ clf.ports = Append(old.ports, n + 1)
      /\ clf.default = old.default /\ clf.tbl = old.tbl
  BY ZenonT(60), <1>1, <1>4
<1>7. Rising(clf.ports, OfVid(c, n + 1, v)) BY <1>4, <1>5, <1>6, RisingAppend
<1>8. \A m : e.mac # m => OfMac(c, n + 1, v, m) = OfMac(c, n, v, m) BY Zenon, <1>5
<1>9. IsLast(n + 1, OfMac(c, n + 1, v, e.mac))
  <2>1. OfMac(c, n, v, e.mac) \in SUBSET (1 .. n) BY Zenon, <1>5
  <2>2. IsLast(n + 1, OfMac(c, n, v, e.mac) \union {n + 1}) BY Zenon, <2>1, LastMore
  <2> QED BY Zenon, <1>5, <2>2
<1>10. CASE e.mac = Dummy
  <2>1. /\ new = [ports |-> new.ports, default |-> new.default, tbl |-> new.tbl]
        /\ new.ports = clf.ports /\ new.default = n + 1 /\ new.tbl = old.tbl
    BY ZenonT(60), <1>6, <1>10, <1>3
  <2>2. \A m \in Macs : IsLast(new.tbl[m], IF m = Dummy THEN {} ELSE OfMac(c, n + 1, v, m))
    BY ZenonT(60), <1>4, <1>8, <1>10, <2>1
  <2> QED BY ZenonT(60), <1>4, <1>7, <1>9, <1>10, <2>1, <2>2 DEF ClfHolds
<1>11. CASE e.mac # Dummy
  <2>1. /\ new = [ports |-> new.ports, default |-> new.default, tbl |-> new.tbl]
        /\ new.ports = clf.ports /\ new.default = old.default
        /\ new.tbl = [old.tbl EXCEPT ![e.mac] = n + 1]
    BY ZenonT(60), <1>6, <1>11, <1>3
  <2>2. /\ new.tbl = [m \in Macs |-> new.tbl[m]]
        /\ new.tbl[e.mac] = n + 1
        /\ \A m \in Macs : m # e.mac => new.tbl[m] = old.tbl[m]
    BY <1>4, <2>1
  <2>3. \A m \in Macs : IsLast(new.tbl[m], IF m = Dummy THEN {} ELSE OfMac(c, n + 1, v, m))
    BY ZenonT(60), <1>4, <1>8, <1>9, <1>11, <2>2
  <2>4. IsLast(new.default, OfMac(c, n + 1, v, Dummy)) BY Zenon, <1>4, <1>8, <1>11, <2>1
  <2> QED BY ZenonT(60), <1>7, <2>1, <2>2, <2>3, <2>4 DEF ClfHolds
<1> QED BY <1>10, <1>11

LEMMA HoldsNotNull ==
  ASSUME NEW clf, NEW c, NEW n, NEW v, ClfHolds(clf, c, n, v)
  PROVE  clf # NoClf
<1>1. clf = [ports |-> clf.ports, default |-> clf.default, tbl |-> clf.tbl]
  BY Zenon DEF ClfHolds
<1>2. DOMAIN clf = {"ports", "default", "tbl"} BY <1>1
<1>3. DOMAIN NoClf = {"null"} BY ZenonT(60) DEF NoClf
<1> QED BY <1>2, <1>3

(* One turn of the loop *)
LEMMA TurnHolds ==
  ASSUME NEW c, NEW n \in Nat, c.tx[n + 1] \in Entries,
         NEW x, x = [clf |-> x.clf, entry |-> x.entry], TablesHold(x.clf, c, n),
         NEW y, y = AddEntry(x, n + 1, c.tx[n + 1])
  PROVE  y = [clf |-> y.clf, entry |-> y.entry] /\ TablesHold(y.clf, c, n + 1)
<1>1. PICK e : e = c.tx[n + 1] BY Zenon
<1>2. e.vid \in Vids /\ e.mac \in Macs \union {"none"} BY <1>1 DEF Entries
<1>3. /\ x.clf = [v \in Vids |-> x.clf[v]]
      /\ \A v \in Vids : /\ OfVid(c, n, v) = {} => x.clf[v] = NoClf
                         /\ OfVid(c, n, v) # {} => ClfHolds(x.clf[v], c, n, v)
  BY ZenonT(60) DEF TablesHold
<1>4. /\ \A v : ~(e.vid = v /\ e.mac # "none") => OfVid(c, n + 1, v) = OfVid(c, n, v)
      /\ \A v, m : ~(e.vid = v /\ e.mac # "none" /\ e.mac = m)
                     => OfMac(c, n + 1, v, m) = OfMac(c, n, v, m)
      /\ e.mac # "none" => OfVid(c, n + 1, e.vid) = OfVid(c, n, e.vid) \union {n + 1}
  BY <1>1, OneMoreEntry
<1>5. ASSUME NEW v \in Vids, ~(e.vid = v /\ e.mac # "none"), NEW t,
             IF OfVid(c, n, v) = {} THEN t = NoClf ELSE ClfHolds(t, c, n, v)
      PROVE  IF OfVid(c, n + 1, v) = {} THEN t = NoClf ELSE ClfHolds(t, c, n + 1, v)
  <2>1. OfVid(c, n + 1, v) = OfVid(c, n, v) BY ZenonT(60), <1>4, <1>5
  <2>2. \A m : OfMac(c, n + 1, v, m) = OfMac(c, n, v, m) BY Zenon, <1>4, <1>5
  <2>3. ClfHolds(t, c, n, v) => ClfHolds(t, c, n + 1, v) BY ZenonT(60), <2>1, <2>2 DEF ClfHolds
  <2> QED BY ZenonT(60), <1>5, <2>1, <2>3
<1>6. CASE e.mac = "none"
  <2>1. y = x BY ZenonT(60), <1>1, <1>6 DEF AddEntry
  <2>2. \A v \in Vids : IF OfVid(c, n + 1, v) = {} THEN x.clf[v] = NoClf
                                                   ELSE ClfHolds(x.clf[v], c, n + 1, v)
    BY ZenonT(60), <1>3, <1>5, <1>6
  <2> QED BY ZenonT(60), <1>3, <2>1, <2>2 DEF TablesHold
<1>7. CASE e.mac # "none"
  <2>1. PICK old : old = ClfOf(x, e.vid) BY Zenon
  <2>2. PICK new : new = Entered(old, n + 1, e.mac) BY ZenonT(60)
  <2>4. y = [x EXCEPT !.entry = TRUE, !.clf[e.vid] = new]
    BY ZenonT(60), <1>1, <1>7, <2>1, <2>2 DEF AddEntry, Entered
  <2>5. y = [clf |-> y.clf, entry |-> y.entry] /\ y.clf = [x.clf EXCEPT ![e.vid] = new]
    BY ZenonT(60), <2>4
  <2>6. /\ y.clf = [v \in Vids |-> y.clf[v]]
        /\ y.clf[e.vid] = new
        /\ \A v \in Vids : v # e.vid => y.clf[v] = x.clf[v]
    BY ZenonT(60), <1>2, <1>3, <2>5
  <2>7. ClfHolds(old, c, n, e.vid)
    <3>1. CASE OfVid(c, n, e.vid) = {}
      <4>1. old = NewClf BY ZenonT(60), <1>2, <1>3, <2>1, <3>1 DEF ClfOf
      <4> QED BY ZenonT(60), <3>1, <4>1, NewHolds
    <3>2. CASE OfVid(c, n, e.vid) # {}
      <4>1. ClfHolds(x.clf[e.vid], c, n, e.vid) BY ZenonT(60), <1>2, <1>3, <3>2
      <4>2. x.clf[e.vid] # NoClf BY ZenonT(60), <4>1, HoldsNotNull
      <4> QED BY ZenonT(60), <2>1, <4>1, <4>2 DEF ClfOf
    <3> QED BY <3>1, <3>2
  <2>8. ClfHolds(new, c, n + 1, e.vid)
    <3>1. e.mac \in Macs BY ZenonT(60), <1>2, <1>7
    <3> QED BY ZenonT(60), <1>1, <1>2, <1>7, <2>2, <2>7, <3>1, EntryHolds
  <2>9. OfVid(c, n + 1, e.vid) # {} BY Zenon, <1>4, <1>7
  <2>10. \A v \in Vids : IF OfVid(c, n + 1, v) = {} THEN y.clf[v] = NoClf
                                                    ELSE ClfHolds(y.clf[v], c, n + 1, v)
    <3>1. \A v \in Vids : v # e.vid =>
            IF OfVid(c, n + 1, v) = {} THEN x.clf[v] = NoClf
                                       ELSE ClfHolds(x.clf[v], c, n + 1, v)
      BY ZenonT(60), <1>3, <1>5
    <3> QED BY ZenonT(60), <2>6, <2>8, <2>9, <3>1
  <2> QED BY ZenonT(60), <2>5, <2>6, <2>10 DEF TablesHold
<1> QED BY <1>6, <1>7

(* An update without tx ports leaves the tables as they are; one on a side  *)
(* without tables gives it those of its configuration.                      *)
LEMMA NoTurn ==
  ASSUME NEW x, NEW c
  PROVE  init_component_info(x, c, 0).clf = x.clf
<1>1. PICK f : /\ Turns(f, [clf |-> x.clf, entry |-> FALSE], c, 0)
               /\ init_component_info(x, c, 0).clf = f[0].clf
  BY ZenonT(60), InitTurns
<1>2. f[0] = [clf |-> x.clf, entry |-> FALSE] BY <1>1 DEF Turns
<1> QED BY <1>1, <1>2

LEMMA LoopHolds ==
  ASSUME NEW x, x.clf = [v \in Vids |-> NoClf], NEW c, NEW n \in Nat,
         \A i \in 1 .. n : c.tx[i] \in Entries
  PROVE  TablesHold(init_component_info(x, c, n).clf, c, n)
<1>1. PICK f : /\ Turns(f, [clf |-> x.clf, entry |-> FALSE], c, n)
               /\ init_component_info(x, c, n).clf = f[n].clf
  BY InitTurns
<1> DEFINE Good(k) == /\ f[k] = [clf |-> f[k].clf, entry |-> f[k].entry]
                      /\ TablesHold(f[k].clf, c, k)
           S == {k \in 0 .. n : ~Good(k)}
<1>2. /\ f[0] = [clf |-> x.clf, entry |-> FALSE]
      /\ \A k \in 1 .. n : f[k] = AddEntry(f[k - 1], k, c.tx[k])
  <2>1. \A k \in 0 .. n : f[k] = IF k = 0 THEN [clf |-> x.clf, entry |-> FALSE]
                                         ELSE AddEntry(f[k - 1], k, c.tx[k])
    BY Zenon, <1>1 DEF Turns
  <2>2. 0 \in 0 .. n /\ \A k \in 1 .. n : k \in 0 .. n /\ k # 0 OBVIOUS
  <2> QED BY Zenon, <2>1, <2>2
<1>3. Good(0)
  <2>1. f[0].clf = [v \in Vids |-> NoClf] /\ f[0] = [clf |-> f[0].clf, entry |-> f[0].entry]
    BY <1>2
  <2> QED BY ZenonT(60), <2>1, NoTables
<1>4. S = {}
  <2> SUFFICES ASSUME S # {} PROVE FALSE BY ZenonT(60)
  <2>0. S \subseteq Nat OBVIOUS
  <2>1. PICK m \in S : \A k \in S : m <= k
    <3> HIDE DEF S
    <3> QED BY Zenon, <2>0, LeastNat
  <2>2. m \in 0 .. n /\ ~Good(m) BY Zenon, <2>1
  <2>3. m # 0 BY Zenon, <1>3, <2>2
  <2>4. PICK j \in Nat : m = j + 1 /\ j \in 0 .. n /\ j + 1 \in 1 .. n
    <3>1. m - 1 \in Nat /\ m = (m - 1) + 1 /\ m - 1 \in 0 .. n /\ (m - 1) + 1 \in 1 .. n
      BY <2>2, <2>3
    <3> QED BY ZenonT(60), <3>1
  <2>5. Good(j)
    <3>1. ~(m <= j) BY <2>4
    <3>2. j \notin S BY ZenonT(60), <2>1, <3>1
    <3> QED BY ZenonT(60), <2>4, <3>2
  <2>6. f[j + 1] = AddEntry(f[j], j + 1, c.tx[j + 1])
    <3>1. (j + 1) - 1 = j BY <2>4
    <3> QED BY ZenonT(60), <1>2, <2>4, <3>1
  <2>7. c.tx[j + 1] \in Entries BY Zenon, <2>4
  <2>8. Good(j + 1) BY ZenonT(60), <2>5, <2>6, <2>7, TurnHolds
  <2> QED BY ZenonT(60), <2>2, <2>4, <2>8
<1>5. n \in 0 .. n OBVIOUS
<1> QED BY ZenonT(60), <1>1, <1>4, <1>5

-----------------------------------------------------------------------------
(* The tables of the sides                                                 *)

(* Before the first update nobody has filled a table. *)
FreshTables == ref = upd /\ mpc # "wait" =>
                 \A s \in Sides, v \in Vids : list[s].clf[v] = NoClf

(* While no update has failed the side to be filled has no table, every     *)
(* side has the tables of its configuration, and the one in force has those *)
(* of the component's ports and their attributes.                           *)
TablesInv ==
  /\ failures \in Nat
  /\ mpc = "stop" => ~running
  /\ failures = 0 =>
       /\ \A s \in Sides : TablesHold(list[s].clf, list[s].cfg, Len(list[s].cfg.tx))
       /\ mpc \in {"idle", "update", "stop"} => list[upd].clf = [v \in Vids |-> NoClf]
       /\ mpc \in {"fill", "wait"} => accepted = Config
       /\ mpc = "idle" /\ running => list[ref].cfg = Config

LEMMA ZeroTables == ZeroSide.clf = [v \in Vids |-> NoClf]
BY ZenonT(60) DEF ZeroSide

(* A worker's step leaves configurations and tables alone, and the          *)
(* reference side changes only if it was the update side.                   *)
LEMMA WorkerSame ==
  ASSUME Inv, change_classifier_index \/ LoadSide \/ NotReady \/ Leave \/ Packets
  PROVE  /\ SameCfgs
         /\ UNCHANGED <<attr, comp, running, upd, mpc, accepted, failures>>
         /\ ref' = ref \/ (ref = upd /\ ref' # upd /\ ref' \in Sides)
<1> USE DEF config, sides, worker, packets
<1>0. CfgsTyped BY ZenonT(60) DEF Inv
<1>1. CASE change_classifier_index
  <2>1. SameCfgs
    BY ZenonT(60), <1>0, <1>1, EmptiedSame, UnchangedSame DEF change_classifier_index, CfgsTyped
  <2>2. 1 - upd \in Sides /\ 1 - upd # upd BY ZenonT(60), <1>0, OtherSide DEF CfgsTyped
  <2> QED BY ZenonT(60), <1>1, <2>1, <2>2 DEF change_classifier_index
<1>2. CASE LoadSide BY ZenonT(60), <1>0, <1>2, UnchangedSame DEF LoadSide
<1>3. CASE NotReady BY ZenonT(60), <1>0, <1>3, UnchangedSame DEF NotReady
<1>4. CASE Leave BY ZenonT(60), <1>0, <1>4, UnchangedSame DEF Leave
<1>5. CASE Packets BY ZenonT(60), <1>0, <1>5, PacketsKeep
<1> QED BY ZenonT(60), <1>1, <1>2, <1>3, <1>4, <1>5

LEMMA CommandSame ==
  ASSUME Command
  PROVE  /\ UNCHANGED <<ref, upd, list, accepted, failures, spc, cur>>
         /\ mpc = "idle" /\ mpc' \in {"idle", "update", "stop"}
BY ZenonT(60) DEF Command, CompStart, CompStop, RxPort, TxAdd, TxDel, TableAdd, TableDel,
       Store, sides, worker, packets

(* An update changes the update side alone, which is the reference side     *)
(* only as long as there is no tx port.                                     *)
LEMMA FlushSame ==
  ASSUME Inv, Flush
  PROVE  /\ UNCHANGED <<ref, cur, spc>>
         /\ \/ UNCHANGED list
            \/ /\ mpc' # "wait" /\ UNCHANGED upd
               /\ \A s \in Sides : s # upd => list'[s] = list[s]
               /\ \/ ref # upd
                  \/ \A s \in Sides : list'[s].clf = list[s].clf
         /\ UNCHANGED upd \/ mpc' = "wait"
         /\ mpc = "wait" /\ mpc' # "wait" => ref # upd
<1> USE DEF config, sides, worker, packets
<1>0. CfgsTyped BY DEF Inv
<1>1. CASE StopDone BY ZenonT(60), <1>1 DEF StopDone
<1>2. CASE UpdateFill
  <2>1. PICK x : x = init_component_info(list[upd], Config, Len(Config.tx)) BY Zenon
  <2>2. list' = [list EXCEPT ![upd] = x] BY ZenonT(60), <1>2, <2>1 DEF UpdateFill
  <2>3. IsSide(x) BY ZenonT(60), <2>1, InitSide
  <2>4. list'[upd] = x /\ \A s \in Sides : s # upd => list'[s] = list[s]
    BY ZenonT(60), <1>0, <2>2, <2>3, ReplaceSide DEF CfgsTyped
  <2>5. ASSUME ref = upd PROVE \A s \in Sides : list'[s].clf = list[s].clf
    <3>1. Len(Config.tx) = 0
      BY ZenonT(60), <1>0, <1>2, <2>5, EmptyConfig DEF UpdateFill, Fresh, Inv, OwnSide
    <3>2. x.clf = list[upd].clf BY ZenonT(60), <2>1, <3>1, NoTurn
    <3> QED BY ZenonT(60), <2>4, <3>2
  <2> QED BY ZenonT(60), <1>2, <2>4, <2>5 DEF UpdateFill
<1>3. CASE UpdateFails
  <2>1. ref # upd
    BY <1>0, <1>3, EmptyConfig DEF UpdateFails, Fresh, Inv, OwnSide
  <2>2. \A s \in Sides : s # upd => list'[s] = list[s]
    BY ZenonT(60), <1>0, <1>3 DEF UpdateFails, CfgsTyped
  <2> QED BY ZenonT(60), <1>3, <2>1, <2>2 DEF UpdateFails
<1>4. CASE UpdatePublish BY ZenonT(60), <1>4 DEF UpdatePublish
<1>5. CASE UpdateClean
  <2>1. \A s \in Sides : s # upd => list'[s] = list[s]
    BY ZenonT(60), <1>0, <1>5 DEF UpdateClean, CfgsTyped
  <2> QED BY ZenonT(60), <1>5, <2>1 DEF UpdateClean
<1> QED BY ZenonT(60), <1>1, <1>2, <1>3, <1>4, <1>5 DEF Flush

LEMMA StepFresh ==
  ASSUME Inv, FreshTables, [Next]_vars
  PROVE  FreshTables'
<1>1. CASE Command BY ZenonT(60), <1>1, CommandSame DEF FreshTables
<1>2. CASE Flush BY ZenonT(60), <1>2, FlushSame DEF FreshTables
<1>3. CASE change_classifier_index \/ LoadSide \/ NotReady \/ Leave \/ Packets
  BY ZenonT(60), <1>3, WorkerSame DEF FreshTables, SameCfgs
<1>4. CASE UNCHANGED vars BY <1>4 DEF vars, FreshTables
<1> QED BY ZenonT(60), <1>1, <1>2, <1>3, <1>4, StepCases

(* Whatever is configured and fails, update_classifier never changes or     *)
(* frees a table of the side that the worker is looking packets up in:      *)
(* update_classifier's wait for ref_index is enough, also for the first     *)
(* update, which is made on that side but has no tx port to enter.          *)
THEOREM FreedSideUnusedAlways == Spec => FreedSideUnused
<1>1. Init => FreshTables
  BY ZenonT(60), ZeroTables DEF Init, FreshTables, Sides
<1>2. ASSUME Inv, FreshTables, Next, NEW s \in Sides, InCall, s = cur,
             NEW v \in Vids, list[s].clf[v] # NoClf
      PROVE  list'[s].clf = list[s].clf
  <2>0. cur = ref BY <1>2 DEF Inv, BurstSide
  <2>1. CASE Command BY ZenonT(60), <2>1, CommandSame
  <2>2. CASE Flush BY ZenonT(60), <1>2, <2>0, <2>2, FlushSame DEF FreshTables
  <2>3. CASE change_classifier_index \/ LoadSide \/ NotReady \/ Leave \/ Packets
    BY ZenonT(60), <1>2, <2>3, WorkerSame DEF SameCfgs
  <2>4. CASE UNCHANGED vars BY ZenonT(60), <2>4 DEF vars
  <2> QED BY ZenonT(60), <1>2, <2>1, <2>2, <2>3, <2>4, StepCases
<1>3. Inv /\ FreshTables /\ [Next]_vars =>
        [\A s \in Sides :
           InCall /\ s = cur /\ (\E v \in Vids : list[s].clf[v] # NoClf)
             => list'[s].clf = list[s].clf]_vars
  BY ZenonT(60), <1>2
<1> QED BY <1>1, <1>3, SpecInv, StepFresh, PTL DEF Spec, FreedSideUnused

LEMMA SameConfig ==
  ASSUME UNCHANGED <<attr, comp>>
  PROVE  UNCHANGED Config
BY DEF Config

(* A command that needs no update leaves what a component is given alone.   *)
LEMMA IdleCommand ==
  ASSUME CfgsTyped, Command, mpc' = "idle"
  PROVE  UNCHANGED running /\ UNCHANGED Config
<1>1. ASSUME NEW p \in Ports, NEW a, attr' = [attr EXCEPT ![p] = a], ~Has(p),
             UNCHANGED <<comp, running>>
      PROVE  UNCHANGED Config
  <2>1. \A n \in 1 .. Len(comp.tx) : comp.tx[n] \in Ports /\ comp.tx[n] # p
    BY <1>1 DEF Has, CfgsTyped
  <2>2. \A n \in 1 .. Len(comp.tx) : attr'[comp.tx[n]] = attr[comp.tx[n]]
    BY <1>1, <2>1 DEF CfgsTyped
  <2> QED BY ZenonT(60), <1>1, <2>2 DEF Config
<1>2. \/ \E p \in Ports, a \in Attrs : TableAdd(p, a)
      \/ \E p \in Ports : TableDel(p)
  BY DEF Command, CompStart, CompStop, RxPort, TxAdd, TxDel, TableAdd, TableDel
<1>3. ASSUME NEW p \in Ports, NEW a \in Attrs, TableAdd(p, a)
      PROVE  UNCHANGED running /\ UNCHANGED Config
  BY Zenon, <1>1, <1>3 DEF TableAdd
<1>4. ASSUME NEW p \in Ports, TableDel(p)
      PROVE  UNCHANGED running /\ UNCHANGED Config
  BY Zenon, <1>1, <1>4 DEF TableDel
<1> QED BY ZenonT(60), <1>2, <1>3, <1>4

SideHolds(x) == TablesHold(x.clf, x.cfg, Len(x.cfg.tx))

LEMMA ZeroHolds == SideHolds(ZeroSide)
<1>1. Len(EmptyCfg.tx) = 0 BY DEF EmptyCfg
<1> QED BY ZenonT(60), <1>1, ZeroSideTyped, ZeroTables, NoTables DEF SideHolds

(* update_classifier's update gives the side the tables of its argument. *)
LEMMA FillHolds ==
  ASSUME CfgsTyped, list[upd].clf = [v \in Vids |-> NoClf],
         NEW x, x = init_component_info(list[upd], Config, Len(Config.tx))
  PROVE  SideHolds(x)
<1>1. PICK c : c = Config BY Zenon
<1>2. PICK y : y = list[upd] BY Zenon
<1>3. /\ Len(c.tx) \in Nat
      /\ \A i \in 1 .. Len(c.tx) : c.tx[i] \in Entries
  BY <1>1, ConfigTyped DEF Cfgs
<1>4. y.clf = [v \in Vids |-> NoClf] BY Zenon, <1>2
<1>5. TablesHold(init_component_info(y, c, Len(c.tx)).clf, c, Len(c.tx))
  BY ZenonT(60), <1>3, <1>4, LoopHolds
<1>6. x = init_component_info(y, c, Len(c.tx)) BY ZenonT(60), <1>1, <1>2
<1>7. x.cfg = c BY <1>6, InitSide
<1> QED BY Zenon, <1>5, <1>6, <1>7 DEF SideHolds

LEMMA FlushTables ==
  ASSUME Inv, TablesInv, Flush
  PROVE  TablesInv'
<1> USE DEF config, sides, worker, packets
<1>0. CfgsTyped BY ZenonT(60) DEF Inv
<1>1. CASE StopDone
  <2>1. UNCHANGED Config BY ZenonT(60), <1>1, SameConfig DEF StopDone
  <2> QED BY <1>1, <2>1 DEF StopDone, TablesInv
<1>2. CASE UpdateFill
  <2>1. UNCHANGED Config BY <1>2, SameConfig DEF UpdateFill
  <2>2. PICK x : x = init_component_info(list[upd], Config, Len(Config.tx)) BY Zenon
  <2>3. list' = [list EXCEPT ![upd] = x] BY ZenonT(60), <1>2, <2>2 DEF UpdateFill
  <2>4. IsSide(x) BY ZenonT(60), <2>2, InitSide
  <2>5. list'[upd] = x /\ \A s \in Sides : s # upd => list'[s] = list[s]
    BY ZenonT(60), <1>0, <2>3, <2>4, ReplaceSide DEF CfgsTyped
  <2>6. failures = 0 => SideHolds(x)
    <3>1. failures = 0 => list[upd].clf = [v \in Vids |-> NoClf]
      BY <1>2 DEF UpdateFill, TablesInv
    <3> QED BY ZenonT(60), <1>0, <2>2, <3>1, FillHolds
  <2>7. failures = 0 => \A s \in Sides :
          TablesHold(list'[s].clf, list'[s].cfg, Len(list'[s].cfg.tx))
    BY ZenonT(60), <2>5, <2>6 DEF SideHolds, TablesInv
  <2> QED BY ZenonT(60), <1>2, <2>1, <2>7 DEF UpdateFill, TablesInv
<1>3. CASE UpdateFails
  <2>1. failures' \in Nat /\ failures' # 0 BY <1>3 DEF UpdateFails, TablesInv
  <2> QED BY ZenonT(60), <1>3, <2>1 DEF UpdateFails, TablesInv
<1>4. CASE UpdatePublish
  <2>1. UNCHANGED Config BY ZenonT(60), <1>4, SameConfig DEF UpdatePublish
  <2> QED BY ZenonT(60), <1>4, <2>1 DEF UpdatePublish, TablesInv
<1>5. CASE UpdateClean
  <2>1. UNCHANGED Config BY ZenonT(60), <1>5, SameConfig DEF UpdateClean
  <2>2. list' = [list EXCEPT ![upd] = ZeroSide] BY ZenonT(60), <1>5 DEF UpdateClean
  <2>3. list'[upd] = ZeroSide /\ \A s \in Sides : s # upd => list'[s] = list[s]
    BY ZenonT(60), <1>0, <2>2, ReplaceSide, ZeroSideTyped DEF CfgsTyped
  <2>4. failures = 0 => \A s \in Sides :
          TablesHold(list'[s].clf, list'[s].cfg, Len(list'[s].cfg.tx))
    BY ZenonT(60), <2>3, ZeroHolds DEF SideHolds, TablesInv
  <2>5. failures = 0 => list'[ref].cfg = Config
    <3>1. ref = 1 - upd /\ ref \in Sides /\ ref # upd
      BY ZenonT(60), <1>0, <1>5, OtherSide DEF UpdateClean, CfgsTyped
    <3>2. list[ref].cfg = accepted BY ZenonT(60), <1>5, <3>1 DEF UpdateClean, Inv, AcceptedAt
    <3> QED BY ZenonT(60), <1>5, <2>3, <3>1, <3>2 DEF UpdateClean, TablesInv
  <2> QED BY ZenonT(60), <1>5, <2>1, <2>3, <2>4, <2>5, ZeroTables DEF UpdateClean, TablesInv
<1> QED BY ZenonT(60), <1>1, <1>2, <1>3, <1>4, <1>5 DEF Flush

LEMMA StepTables ==
  ASSUME Inv, TablesInv, [Next]_vars
  PROVE  TablesInv'
<1>0. CfgsTyped BY ZenonT(60) DEF Inv
<1>1. CASE Command
  <2>1. mpc' = "stop" => ~running'
    BY <1>1 DEF Command, CompStart, CompStop, RxPort, TxAdd, TxDel, TableAdd, TableDel
  <2> QED BY <1>0, <1>1, <2>1, CommandSame, IdleCommand DEF TablesInv
<1>2. CASE Flush BY ZenonT(60), <1>2, FlushTables
<1>3. CASE change_classifier_index \/ LoadSide \/ NotReady \/ Leave \/ Packets
  <2>1. /\ SameCfgs
        /\ UNCHANGED <<attr, comp, running, upd, mpc, accepted, failures>>
        /\ ref' = ref \/ (ref = upd /\ ref' # upd /\ ref' \in Sides)
    BY <1>3, WorkerSame
  <2>2. UNCHANGED Config BY <2>1, SameConfig
  <2>3. failures = 0 => \A s \in Sides :
          TablesHold(list'[s].clf, list'[s].cfg, Len(list'[s].cfg.tx))
    BY Zenon, <2>1 DEF SameCfgs, TablesInv
  <2>4. mpc = "idle" /\ running => ref' = ref BY ZenonT(60), <2>1, RunningUpdated
  <2>5. list'[upd].clf = list[upd].clf /\ list'[ref].cfg = list[ref].cfg
    BY ZenonT(60), <1>0, <2>1 DEF SameCfgs, CfgsTyped
  <2> QED BY ZenonT(60), <2>1, <2>2, <2>3, <2>4, <2>5 DEF TablesInv
<1>4. CASE UNCHANGED vars
  <2>1. UNCHANGED Config BY ZenonT(60), <1>4, SameConfig DEF vars
  <2> QED BY <1>4, <2>1 DEF vars, TablesInv
<1> QED BY <1>1, <1>2, <1>3, <1>4, StepCases

LEMMA InitTables == Init => TablesInv
<1> SUFFICES ASSUME Init PROVE TablesInv OBVIOUS
<1>1. \A s \in Sides : list[s] = ZeroSide BY DEF Init
<1>2. \A s \in Sides : TablesHold(list[s].clf, list[s].cfg, Len(list[s].cfg.tx))
  BY ZenonT(60), <1>1, ZeroHolds DEF SideHolds
<1>3. list[upd].clf = [v \in Vids |-> NoClf] BY <1>1, ZeroTables DEF Init, Sides
<1> QED BY <1>2, <1>3 DEF Init, TablesInv

-----------------------------------------------------------------------------
(* Where the tables send a packet                                          *)

(* s lists the elements of D, each once. *)
OnceEach(s, D) == /\ s \in Seq(D)
                  /\ \A i, j \in 1 .. Len(s) : s[i] = s[j] => i = j
                  /\ \A d \in D : \E i \in 1 .. Len(s) : s[i] = d

LEMMA OnceCounted ==
  ASSUME NEW D, NEW s, OnceEach(s, D)
  PROVE  /\ {s[n] : n \in 1 .. Len(s)} = D
         /\ Len(s) = Cardinality(D)
<1>1. Len(s) \in Nat /\ s \in [1 .. Len(s) -> D] BY DEF OnceEach
<1>2. s \in Bijection(1 .. Len(s), D)
  <2>1. DOMAIN s = 1 .. Len(s) BY <1>1
  <2>2. \A i, j \in DOMAIN s : s[i] = s[j] => i = j BY Zenon, <2>1 DEF OnceEach
  <2> QED BY Zenon, <1>1, <2>2 DEF OnceEach, Bijection, Injection, Surjection, IsInjective
<1>3. ExistsBijection(1 .. Len(s), D) BY <1>2 DEF ExistsBijection
<1>4. Cardinality(D) = Len(s) BY <1>1, <1>3, FS_CountingElements
<1>5. {s[n] : n \in 1 .. Len(s)} = D BY <1>1 DEF OnceEach
<1> QED BY <1>4, <1>5

LEMMA RisingOnce ==
  ASSUME NEW n \in Nat, NEW S \in SUBSET (1 .. n), NEW s, Rising(s, S)
  PROVE  OnceEach(s, S)
<1>1. /\ s \in Seq(S) /\ Len(s) \in Nat /\ DOMAIN s = 1 .. Len(s)
      /\ \A i, j \in 1 .. Len(s) : i < j => s[i] < s[j]
      /\ \A k \in S : \E i \in 1 .. Len(s) : s[i] = k
  BY DEF Rising
<1>2. \A i \in 1 .. Len(s) : s[i] \in Nat
  <2>1. \A i \in 1 .. Len(s) : s[i] \in S BY <1>1
  <2>2. \A k \in S : k \in Nat OBVIOUS
  <2> QED BY Zenon, <2>1, <2>2
<1>3. ASSUME NEW i \in 1 .. Len(s), NEW j \in 1 .. Len(s), s[i] = s[j]
      PROVE  i = j
  <2>1. ~(i < j) BY <1>1, <1>2, <1>3
  <2>2. ~(j < i) BY <1>1, <1>2, <1>3
  <2> QED BY <2>1, <2>2
<1> QED BY <1>1, <1>3 DEF OnceEach

LEMMA OnceOne ==
  ASSUME NEW n \in Nat, NEW S \in SUBSET (1 .. n), NEW k, IsLast(k, S)
  PROVE  /\ k \in Nat
         /\ k = NoIndex <=> S = {}
         /\ k = NoIndex => Latest(S) = {}
         /\ k # NoIndex => k \in S /\ Latest(S) = {k}
         /\ OnceEach(One(k), Latest(S))
<1>1. CASE S = {}
  <2>1. k = NoIndex /\ Latest(S) = {} BY <1>1 DEF IsLast, Latest
  <2>2. One(k) = <<>> BY <2>1 DEF One
  <2>3. OnceEach(<<>>, {}) BY DEF OnceEach
  <2> QED BY ZenonT(60), <1>1, <2>1, <2>2, <2>3 DEF NoIndex
<1>2. CASE S # {}
  <2>0. \A j \in S : j \in Nat /\ j # NoIndex BY DEF NoIndex
  <2>1. k \in S /\ k \in Nat /\ k # NoIndex BY Zenon, <1>2, <2>0 DEF IsLast
  <2>2. Latest(S) = {k}
    <3>1. \A j \in S : j <= k BY Zenon, <1>2 DEF IsLast
    <3>2. \A i \in S : (\A j \in S : j <= i) => i = k BY <2>0, <2>1, <3>1
    <3> QED BY Zenon, <2>1, <3>1, <3>2 DEF Latest
  <2>3. One(k) = <<k>> BY <2>1 DEF One
  <2>4. OnceEach(<<k>>, {k}) BY DEF OnceEach
  <2> QED BY ZenonT(60), <1>2, <2>1, <2>2, <2>3, <2>4
<1> QED BY <1>1, <1>2

LEMMA OnceMore ==
  ASSUME NEW D, NEW s, OnceEach(s, D), NEW k, k \notin D
  PROVE  OnceEach(s \o <<k>>, D \union {k})
<1> DEFINE t == s \o <<k>>
<1>1. /\ s \in Seq(D) /\ Len(s) \in Nat
      /\ \A i, j \in 1 .. Len(s) : s[i] = s[j] => i = j
      /\ \A d \in D : \E i \in 1 .. Len(s) : s[i] = d
      /\ \A i \in 1 .. Len(s) : s[i] \in D
  BY DEF OnceEach
<1>2. /\ t \in Seq(D \union {k}) /\ Len(t) = Len(s) + 1
      /\ \A i \in 1 .. Len(s) : t[i] = s[i]
      /\ t[Len(s) + 1] = k
  BY <1>1
<1> HIDE DEF t
<1>3. \A i \in 1 .. Len(t) : i \in 1 .. Len(s) \/ i = Len(s) + 1 BY <1>1, <1>2
<1>4. /\ \A i \in 1 .. Len(s) : i \in 1 .. Len(t)
      /\ Len(s) + 1 \in 1 .. Len(t)
  BY <1>1, <1>2
<1>5. \A i, j \in 1 .. Len(t) : t[i] = t[j] => i = j BY Zenon, <1>1, <1>2, <1>3
<1>6. \A d \in D \union {k} : \E i \in 1 .. Len(t) : t[i] = d BY ZenonT(60), <1>1, <1>2, <1>4
<1> QED BY ZenonT(60), <1>2, <1>5, <1>6 DEF OnceEach, t

(* The tables of a configuration send every packet to its destinations,     *)
(* once each.                                                               *)
LEMMA PushesOnce ==
  ASSUME NEW x, NEW c, Len(c.tx) \in Nat, TablesHold(x.clf, c, Len(c.tx)),
         NEW v \in Vids, NEW m \in Macs
  PROVE  OnceEach(Pushes(x, v, m), Destinations(c, v, m))
<1>1. PICK n \in Nat : n = Len(c.tx) BY Zenon
<1>2. \A u : Listed(c, u) = OfVid(c, n, u) BY Zenon, <1>1 DEF Listed, OfVid
<1>3. \A u : Default(c, u) = Latest(OfMac(c, n, u, Dummy))
  BY Zenon, <1>2 DEF Default, OfMac
<1>4. PICK E : E = IF m = Dummy THEN {} ELSE OfMac(c, n, v, m) BY Zenon
<1>5. Exact(c, v, m) = Latest(E)
  <2>1. {i \in Listed(c, v) : c.tx[i].mac = m /\ m # Dummy} = E
    BY <1>2, <1>4 DEF OfMac
  <2> QED BY ZenonT(60), <2>1 DEF Exact
<1>6. \A u, a : OfMac(c, n, u, a) \in SUBSET (1 .. n) /\ OfVid(c, n, u) \in SUBSET (1 .. n)
  BY DEF OfMac, OfVid
<1>7. \A u \in Vids : /\ OfVid(c, n, u) = {} => x.clf[u] = NoClf
                      /\ OfVid(c, n, u) # {} => ClfHolds(x.clf[u], c, n, u) /\ x.clf[u] # NoClf
  <2>1. \A u \in Vids : IF OfVid(c, n, u) = {} THEN x.clf[u] = NoClf
                                               ELSE ClfHolds(x.clf[u], c, n, u)
    BY Zenon, <1>1 DEF TablesHold
  <2>2. \A t, u : ClfHolds(t, c, n, u) => t # NoClf BY Zenon, HoldsNotNull
  <2> QED BY Zenon, <2>1, <2>2
<1>8. PICK g : g = GeneralDefault(x) BY Zenon
<1>9. IsLast(g, OfMac(c, n, Untagged, Dummy))
  <2>0. Untagged \in Vids BY Zenon, ClassifierAssumption
  <2>1. CASE OfVid(c, n, Untagged) = {}
    <3>1. g = NoIndex BY ZenonT(60), <1>7, <1>8, <2>0, <2>1 DEF GeneralDefault
    <3>2. OfMac(c, n, Untagged, Dummy) = {} BY <2>1 DEF OfMac
    <3> QED BY Zenon, <3>1, <3>2 DEF IsLast
  <2>2. CASE OfVid(c, n, Untagged) # {}
    <3>1. g = x.clf[Untagged].default BY ZenonT(60), <1>7, <1>8, <2>0, <2>2 DEF GeneralDefault
    <3>2. ClfHolds(x.clf[Untagged], c, n, Untagged) BY Zenon, <1>7, <2>0, <2>2
    <3> QED BY Zenon, <3>1, <3>2 DEF ClfHolds
  <2> QED BY <2>1, <2>2
<1>10. /\ g = NoIndex => Default(c, Untagged) = {}
       /\ g # NoIndex => g \in OfMac(c, n, Untagged, Dummy) /\ Default(c, Untagged) = {g}
       /\ OnceEach(One(g), Default(c, Untagged))
  <2>1. PICK S : S = OfMac(c, n, Untagged, Dummy) BY Zenon
  <2>2. S \in SUBSET (1 .. n) /\ IsLast(g, S) BY Zenon, <1>6, <1>9, <2>1
  <2>3. /\ g = NoIndex => Latest(S) = {}
        /\ g # NoIndex => g \in S /\ Latest(S) = {g}
        /\ OnceEach(One(g), Latest(S))
    BY Zenon, <2>2, OnceOne
  <2> QED BY Zenon, <1>3, <2>1, <2>3
<1>11. CASE OfVid(c, n, v) = {}
  <2>1. x.clf[v] = NoClf BY Zenon, <1>7, <1>11
  <2>2. Pushes(x, v, m) = One(g)
    BY Zenon, <1>8, <2>1 DEF Pushes, IsMulticast, select_classified_index
  <2>3. \A a : OfMac(c, n, v, a) = {} BY <1>11 DEF OfMac
  <2>4. Latest({}) = {} BY DEF Latest
  <2>5. E = {} BY Zenon, <1>4, <2>3
  <2>6. Exact(c, v, m) = {} /\ Default(c, v) = {} /\ Listed(c, v) = {}
    BY ZenonT(60), <1>2, <1>3, <1>5, <1>11, <2>3, <2>4, <2>5
  <2>7. Destinations(c, v, m) = Default(c, Untagged) BY Zenon, <2>6 DEF Destinations
  <2> QED BY Zenon, <1>10, <2>2, <2>7
<1>12. CASE OfVid(c, n, v) # {}
  <2>1. PICK t : t = x.clf[v] BY Zenon
  <2>2. t # NoClf /\ ClfHolds(t, c, n, v) BY Zenon, <1>7, <1>12, <2>1
  <2>3. /\ Rising(t.ports, OfVid(c, n, v))
        /\ IsLast(t.default, OfMac(c, n, v, Dummy))
        /\ IsLast(t.tbl[m], E)
    BY Zenon, <1>4, <2>2 DEF ClfHolds
  <2>4. E \in SUBSET (1 .. n) BY Zenon, <1>4, <1>6
  <2>5. /\ t.tbl[m] = NoIndex => Exact(c, v, m) = {}
        /\ t.tbl[m] # NoIndex => Exact(c, v, m) # {}
        /\ OnceEach(One(t.tbl[m]), Exact(c, v, m))
    <3>1. PICK k : k = t.tbl[m] BY Zenon
    <3>2. /\ k = NoIndex => Latest(E) = {}
          /\ k # NoIndex => k \in E /\ Latest(E) = {k}
          /\ OnceEach(One(k), Latest(E))
      BY ZenonT(60), <2>3, <2>4, <3>1, OnceOne
    <3> QED BY ZenonT(60), <1>5, <3>1, <3>2
  <2>6. /\ t.default = NoIndex => Default(c, v) = {}
        /\ t.default # NoIndex => Default(c, v) # {}
        /\ OnceEach(One(t.default), Default(c, v))
    <3>1. PICK k : k = t.default BY Zenon
    <3>2. PICK S : S = OfMac(c, n, v, Dummy) BY Zenon
    <3>3. /\ k = NoIndex => Latest(S) = {}
          /\ k # NoIndex => k \in S /\ Latest(S) = {k}
          /\ OnceEach(One(k), Latest(S))
      BY ZenonT(60), <1>6, <2>3, <3>1, <3>2, OnceOne
    <3> QED BY ZenonT(60), <1>3, <3>1, <3>2, <3>3
  <2>7. Listed(c, v) # {} BY Zenon, <1>2, <1>12
  <2>8. CASE t.tbl[m] # NoIndex
    <3>1. Pushes(x, v, m) = One(t.tbl[m])
      BY Zenon, <2>1, <2>2, <2>8 DEF Pushes, IsMulticast, select_classified_index
    <3>2. Destinations(c, v, m) = Exact(c, v, m) BY Zenon, <2>5, <2>8 DEF Destinations
    <3> QED BY ZenonT(60), <2>5, <3>1, <3>2
  <2>9. CASE t.tbl[m] = NoIndex /\ m \in Multicast
    <3>1. Pushes(x, v, m) = t.ports \o (IF v = Untagged THEN <<>> ELSE One(g))
      BY ZenonT(60), <1>8, <2>1, <2>2, <2>9 DEF Pushes, IsMulticast, handle_l2multicast_packet
    <3>2. Destinations(c, v, m) = Listed(c, v) \union Default(c, Untagged)
      BY ZenonT(60), <2>5, <2>7, <2>9 DEF Destinations
    <3>3. OnceEach(t.ports, Listed(c, v)) BY ZenonT(60), <1>2, <1>6, <2>3, RisingOnce
    <3>4. t.ports \o <<>> = t.ports BY <3>3 DEF OnceEach
    <3>5. CASE v # Untagged /\ g # NoIndex
      <4>1. One(g) = <<g>> BY Zenon, <3>5 DEF One
      <4>2. g \notin Listed(c, v) BY ZenonT(60), <1>2, <1>10, <3>5 DEF OfMac, OfVid
      <4>3. OnceEach(t.ports \o <<g>>, Listed(c, v) \union {g}) BY Zenon, <3>3, <4>2, OnceMore
      <4> QED BY ZenonT(60), <1>10, <3>1, <3>2, <3>5, <4>1, <4>3
    <3>6. CASE v = Untagged \/ g = NoIndex
      <4>1. Pushes(x, v, m) = t.ports BY ZenonT(60), <3>1, <3>4, <3>6 DEF One
      <4>2. Default(c, Untagged) \subseteq Listed(c, v)
        BY <1>2, <1>10, <3>6 DEF OfMac
      <4>3. Listed(c, v) \union Default(c, Untagged) = Listed(c, v) BY Zenon, <4>2
      <4> QED BY ZenonT(60), <3>2, <3>3, <4>1, <4>3
    <3> QED BY Zenon, <3>5, <3>6
  <2>10. CASE t.tbl[m] = NoIndex /\ m \notin Multicast
    <3>1. Pushes(x, v, m) = One(IF t.default = NoIndex /\ v # Untagged THEN g ELSE t.default)
      BY ZenonT(60), <1>8, <2>1, <2>2, <2>10 DEF Pushes, IsMulticast, select_classified_index
    <3>2. Destinations(c, v, m) =
            IF Default(c, v) # {} THEN Default(c, v) ELSE Default(c, Untagged)
      BY Zenon, <2>5, <2>10 DEF Destinations
    <3>3. CASE t.default = NoIndex /\ v # Untagged BY ZenonT(60), <1>10, <2>6, <3>1, <3>2, <3>3
    <3>4. CASE t.default = NoIndex /\ v = Untagged BY ZenonT(60), <2>6, <3>1, <3>2, <3>4
    <3>5. CASE t.default # NoIndex BY ZenonT(60), <2>6, <3>1, <3>2, <3>5
    <3> QED BY ZenonT(60), <3>3, <3>4, <3>5
  <2> QED BY Zenon, <2>8, <2>9, <2>10
<1> QED BY <1>11, <1>12

(* For any ports, VLAN ids, addresses and attributes, and any commands: as  *)
(* long as no update has failed, between commands the tables in force send  *)
(* every packet, once each, to the ports that update_port and               *)
(* update_cls_table gave it (select_classified_index and                    *)
(* handle_l2multicast_packet on what init_component_info has made).         *)
THEOREM ClassifiesAsAcceptedAlways == Spec => []ClassifiesAsAccepted
<1>1. Inv /\ TablesInv /\ [Next]_vars => TablesInv' BY StepTables
<1>2. Inv /\ TablesInv => ClassifiesAsAccepted
  <2> SUFFICES ASSUME Inv, TablesInv, mpc = "idle", running, failures = 0,
                      NEW v \in Vids, NEW m \in Macs
               PROVE  LET to == Pushes(list[ref], v, m)
                      IN /\ {to[n] : n \in 1 .. Len(to)} = Destinations(Config, v, m)
                         /\ Len(to) = Cardinality(Destinations(Config, v, m))
    BY Zenon DEF ClassifiesAsAccepted
  <2>1. PICK c : c = Config BY Zenon
  <2>2. PICK x : x = list[ref] BY Zenon
  <2>3. ref \in Sides /\ Len(c.tx) \in Nat BY <2>1, ConfigTyped DEF Inv, CfgsTyped, Cfgs
  <2>4. x.cfg = c /\ TablesHold(x.clf, x.cfg, Len(x.cfg.tx))
    BY Zenon, <2>1, <2>2, <2>3 DEF TablesInv
  <2>5. OnceEach(Pushes(x, v, m), Destinations(c, v, m))
    BY ZenonT(60), <2>3, <2>4, PushesOnce
  <2>6. PICK to : to = Pushes(x, v, m) BY Zenon
  <2>7. PICK D : D = Destinations(c, v, m) BY Zenon
  <2>8. OnceEach(to, D) BY ZenonT(60), <2>5, <2>6, <2>7
  <2>9. /\ {to[n] : n \in 1 .. Len(to)} = D
        /\ Len(to) = Cardinality(D)
    BY ZenonT(60), <2>8, OnceCounted
  <2> QED BY ZenonT(60), <2>1, <2>2, <2>6, <2>7, <2>9
<1> QED BY <1>1, <1>2, SpecInv, InitTables, PTL DEF Spec

-----------------------------------------------------------------------------
(* References of the packet buffers                                        *)

(* A port is added to a component once. *)
Unique == \A i, j \in 1 .. Len(comp.tx) : comp.tx[i] = comp.tx[j] => i = j

(* Only the side in force has packets, in the buffers of its tx ports. *)
Buffered ==
  \A s \in Sides :
    /\ Len(list[s].cfg.tx) <= MaxTx
    /\ list[s].buf \in [TxIndex -> Seq(Pkts)]
    /\ \A i \in TxIndex :
         /\ Len(list[s].buf[i]) < MaxBurst
         /\ s # ref \/ i > Len(list[s].cfg.tx) => list[s].buf[i] = <<>>

Pushing ==
  /\ spc = "push" => /\ pkt \in Pkts /\ push # <<>>
                     /\ push \in Seq(1 .. Len(list[cur].cfg.tx))
  /\ spc # "push" => push = <<>>

Places(x, b) == Cardinality(Held(x, TxIndex, b))

Counted ==
  /\ txq \in [Pkts -> Nat] /\ refcnt \in [Pkts -> Int]
  /\ \A b \in Pkts : refcnt[b] = txq[b] + (IF pkt = b THEN Len(push) ELSE 0)
                                 + Places(list[ref], b)

BufInv == failures = 0 => Buffered /\ Pushing /\ Counted

LEMMA IndexFinite == MaxTx \in Nat /\ IsFiniteSet(TxIndex) /\ MaxBurst \in Nat \ {0}
<1>1. MaxTx \in Nat BY ZenonT(60), ClassifierAssumption, FS_CardinalityType DEF MaxTx
<1> QED BY <1>1, ClassifierAssumption, FS_Interval DEF TxIndex

LEMMA HeldFinite ==
  ASSUME NEW x, NEW I \in SUBSET TxIndex, NEW b
  PROVE  IsFiniteSet(Held(x, I, b)) /\ Cardinality(Held(x, I, b)) \in Nat
<1>1. IsFiniteSet(I) BY IndexFinite, FS_Subset
<1>2. IsFiniteSet(1 .. MaxBurst) BY IndexFinite, FS_Interval
<1>3. IsFiniteSet(I \X (1 .. MaxBurst)) BY Zenon, <1>1, <1>2, FS_Product
<1>4. Held(x, I, b) \subseteq I \X (1 .. MaxBurst) BY Zenon DEF Held
<1>5. IsFiniteSet(Held(x, I, b)) BY ZenonT(60), <1>3, <1>4, FS_Subset
<1> QED BY <1>5, FS_CardinalityType

(* Two parts of a finite set, as they are counted *)
LEMMA SplitCounted ==
  ASSUME NEW A, NEW B, IsFiniteSet(A \union B), A \cap B = {}
  PROVE  /\ Cardinality(A) \in Nat /\ Cardinality(B) \in Nat
         /\ Cardinality(A \union B) = Cardinality(A) + Cardinality(B)
<1>1. IsFiniteSet(A) /\ IsFiniteSet(B) BY FS_Subset
<1>2. Cardinality(A \union B) = Cardinality(A) + Cardinality(B) - Cardinality(A \cap B)
  BY <1>1, FS_Union
<1>3. Cardinality(A \cap B) = 0 BY FS_EmptySet
<1>4. Cardinality(A) \in Nat /\ Cardinality(B) \in Nat BY <1>1, FS_CardinalityType
<1> QED BY <1>2, <1>3, <1>4

(* transmit_packets takes one reference for every place that is not handed  *)
(* to the driver.                                                           *)
LEMMA TransmitCounts ==
  ASSUME NEW x, NEW I \in SUBSET TxIndex, Transmit(x, I),
         txq \in [Pkts -> Nat], refcnt \in [Pkts -> Int]
  PROVE  /\ txq' \in [Pkts -> Nat] /\ refcnt' \in [Pkts -> Int]
         /\ \A b \in Pkts :
              refcnt'[b] - txq'[b] = refcnt[b] - txq[b] - Cardinality(Held(x, I, b))
<1>1. PICK k \in [I -> 0 .. MaxBurst] :
        /\ txq' = [b \in Pkts |->
             txq[b] + Cardinality({y \in Held(x, I, b) : y[2] <= k[y[1]]})]
        /\ refcnt' = [b \in Pkts |->
             refcnt[b] - Cardinality({y \in Held(x, I, b) : y[2] > k[y[1]]})]
  BY Zenon DEF Transmit
<1> DEFINE Taken(b) == {y \in Held(x, I, b) : y[2] <= k[y[1]]}
           Freed(b) == {y \in Held(x, I, b) : y[2] > k[y[1]]}
<1>2. ASSUME NEW b \in Pkts
      PROVE  /\ Cardinality(Taken(b)) \in Nat /\ Cardinality(Freed(b)) \in Nat
             /\ Cardinality(Held(x, I, b)) = Cardinality(Taken(b)) + Cardinality(Freed(b))
  <2>1. \A y \in Held(x, I, b) : y[2] \in Int /\ k[y[1]] \in Int
    <3>1. \A y \in Held(x, I, b) : y[1] \in I /\ y[2] \in 1 .. MaxBurst BY DEF Held
    <3>2. \A i \in I : k[i] \in Int BY IndexFinite
    <3> QED BY <3>1, <3>2
  <2>2. \A y \in Held(x, I, b) : (y[2] <= k[y[1]]) <=> ~(y[2] > k[y[1]])
    <3>1. \A p, q \in Int : (p <= q) <=> ~(p > q) OBVIOUS
    <3> QED BY ZenonT(60), <2>1, <3>1
  <2>3. Held(x, I, b) = Taken(b) \union Freed(b) /\ Taken(b) \cap Freed(b) = {}
    BY ZenonT(60), <2>2
  <2>4. IsFiniteSet(Held(x, I, b)) BY HeldFinite
  <2> HIDE DEF Taken, Freed
  <2>5. IsFiniteSet(Taken(b) \union Freed(b)) BY ZenonT(60), <2>3, <2>4
  <2>6. /\ Cardinality(Taken(b)) \in Nat /\ Cardinality(Freed(b)) \in Nat
        /\ Cardinality(Taken(b) \union Freed(b)) = Cardinality(Taken(b)) + Cardinality(Freed(b))
    BY ZenonT(60), <2>3, <2>5, SplitCounted
  <2> QED BY ZenonT(60), <2>3, <2>6
<1>3. \A b \in Pkts : /\ txq'[b] = txq[b] + Cardinality(Taken(b))
                      /\ refcnt'[b] = refcnt[b] - Cardinality(Freed(b))
  BY Zenon, <1>1
<1>4. txq' = [b \in Pkts |-> txq'[b]] /\ refcnt' = [b \in Pkts |-> refcnt'[b]]
  BY ZenonT(60), <1>1
<1> HIDE DEF Taken, Freed
<1>5. \A b \in Pkts : txq[b] \in Nat /\ refcnt[b] \in Int BY ZenonT(60)
<1>6. ASSUME NEW b \in Pkts
      PROVE  /\ txq'[b] \in Nat /\ refcnt'[b] \in Int
             /\ refcnt'[b] - txq'[b] = refcnt[b] - txq[b] - Cardinality(Held(x, I, b))
  BY <1>2, <1>3, <1>5
<1>7. txq' \in [Pkts -> Nat] BY ZenonT(60), <1>4, <1>6
<1>8. refcnt' \in [Pkts -> Int] BY ZenonT(60), <1>4, <1>6
<1> QED BY ZenonT(60), <1>6, <1>7, <1>8

(* A side whose buffers in I are emptied, or that gets one more packet *)
LEMMA EmptiedCounts ==
  ASSUME NEW x, IsSide(x), x.buf \in [TxIndex -> Seq(Pkts)], NEW I \in SUBSET TxIndex
  PROVE  /\ Emptied(x, I).buf \in [TxIndex -> Seq(Pkts)]
         /\ \A i \in TxIndex : Emptied(x, I).buf[i] = IF i \in I THEN <<>> ELSE x.buf[i]
         /\ \A b : Places(x, b) = Places(Emptied(x, I), b) + Cardinality(Held(x, I, b))
<1>1. PICK y : y = Emptied(x, I) BY Zenon
<1>2. y.buf = [i \in TxIndex |-> IF i \in I THEN <<>> ELSE x.buf[i]]
  BY <1>1 DEF Emptied, IsSide
<1>3. \A i \in TxIndex : y.buf[i] = IF i \in I THEN <<>> ELSE x.buf[i] BY Zenon, <1>2
<1>4. \A i \in TxIndex : y.buf[i] \in Seq(Pkts)
  <2>1. <<>> \in Seq(Pkts) /\ \A i \in TxIndex : x.buf[i] \in Seq(Pkts) OBVIOUS
  <2> QED BY ZenonT(60), <1>3, <2>1
<1>5. y.buf \in [TxIndex -> Seq(Pkts)] BY ZenonT(60), <1>2, <1>4
<1>6. ASSUME NEW b
      PROVE  Places(x, b) = Places(y, b) + Cardinality(Held(x, I, b))
  <2>1. ASSUME NEW p \in TxIndex \X (1 .. MaxBurst)
        PROVE  /\ p \in Held(x, TxIndex, b) <=> p \in Held(y, TxIndex, b) \/ p \in Held(x, I, b)
               /\ ~(p \in Held(y, TxIndex, b) /\ p \in Held(x, I, b))
    <3>1. p = <<p[1], p[2]>> /\ p[1] \in TxIndex /\ p[2] \in 1 .. MaxBurst /\ p[2] \in Nat \ {0}
      BY IndexFinite
    <3>2. CASE p[1] \in I
      <4>1. Len(y.buf[p[1]]) = 0 BY <1>3, <3>1, <3>2
      <4>2. p \notin Held(y, TxIndex, b) BY <3>1, <4>1 DEF Held
      <4>3. p \in Held(x, TxIndex, b) <=> p \in Held(x, I, b) BY ZenonT(60), <3>1, <3>2 DEF Held
      <4> QED BY ZenonT(60), <4>2, <4>3
    <3>3. CASE p[1] \notin I
      <4>1. y.buf[p[1]] = x.buf[p[1]] BY ZenonT(60), <1>3, <3>1, <3>3
      <4>2. p \in Held(x, TxIndex, b) <=> p \in Held(y, TxIndex, b) BY ZenonT(60), <4>1 DEF Held
      <4>3. p \notin Held(x, I, b) BY ZenonT(60), <3>3 DEF Held
      <4> QED BY <4>2, <4>3
    <3> QED BY ZenonT(60), <3>2, <3>3
  <2>2. /\ Held(x, TxIndex, b) \subseteq TxIndex \X (1 .. MaxBurst)
        /\ Held(y, TxIndex, b) \subseteq TxIndex \X (1 .. MaxBurst)
        /\ Held(x, I, b) \subseteq TxIndex \X (1 .. MaxBurst)
    BY DEF Held
  <2>3. /\ Held(x, TxIndex, b) = Held(y, TxIndex, b) \union Held(x, I, b)
        /\ Held(y, TxIndex, b) \cap Held(x, I, b) = {}
    BY ZenonT(60), <2>1, <2>2
  <2>4. IsFiniteSet(Held(x, TxIndex, b)) BY HeldFinite
  <2>5. IsFiniteSet(Held(y, TxIndex, b) \union Held(x, I, b)) BY Zenon, <2>3, <2>4
  <2>6. Cardinality(Held(y, TxIndex, b) \union Held(x, I, b)) =
          Cardinality(Held(y, TxIndex, b)) + Cardinality(Held(x, I, b))
    BY ZenonT(60), <2>3, <2>5, SplitCounted
  <2> QED BY ZenonT(60), <2>3, <2>6 DEF Places
<1> QED BY ZenonT(60), <1>1, <1>3, <1>5, <1>6

Pushed(x, i, p) == [x EXCEPT !.buf[i] = Append(@, p)]

LEMMA PushedCounts ==
  ASSUME NEW x, IsSide(x), x.buf \in [TxIndex -> Seq(Pkts)],
         NEW i \in TxIndex, Len(x.buf[i]) < MaxBurst, NEW p \in Pkts
  PROVE  /\ IsSide(Pushed(x, i, p)) /\ Pushed(x, i, p).cfg = x.cfg
         /\ Pushed(x, i, p).buf \in [TxIndex -> Seq(Pkts)]
         /\ \A j \in TxIndex :
              Len(Pushed(x, i, p).buf[j]) = Len(x.buf[j]) + (IF j = i THEN 1 ELSE 0)
         /\ \A j \in TxIndex : j # i => Pushed(x, i, p).buf[j] = x.buf[j]
         /\ \A b : Places(Pushed(x, i, p), b) = Places(x, b) + (IF b = p THEN 1 ELSE 0)
<1>0. PICK y : y = Pushed(x, i, p) BY Zenon
<1>1. IsSide(y) /\ y.cfg = x.cfg /\ y.buf = [x.buf EXCEPT ![i] = Append(@, p)]
  BY ZenonT(60), <1>0 DEF IsSide, Pushed
<1>2. PICK n \in Nat : n = Len(x.buf[i]) + 1 OBVIOUS
<1>3. n \in 1 .. MaxBurst BY <1>2, IndexFinite
<1>4. /\ Append(x.buf[i], p) \in Seq(Pkts) /\ Len(Append(x.buf[i], p)) = n
      /\ Append(x.buf[i], p)[n] = p
      /\ \A k \in 1 .. n - 1 : Append(x.buf[i], p)[k] = x.buf[i][k]
  BY <1>2
<1>5. /\ y.buf[i] = Append(x.buf[i], p)
      /\ \A j \in TxIndex : j # i => y.buf[j] = x.buf[j]
      /\ y.buf \in [TxIndex -> Seq(Pkts)]
  BY ZenonT(60), <1>1, <1>4
<1>6. \A j \in TxIndex : Len(x.buf[j]) \in Nat OBVIOUS
<1>7. ASSUME NEW j \in TxIndex
      PROVE  Len(y.buf[j]) = Len(x.buf[j]) + (IF j = i THEN 1 ELSE 0)
  <2>1. CASE j = i
    <3>1. Len(y.buf[j]) = n BY ZenonT(60), <1>4, <1>5, <2>1
    <3> QED BY ZenonT(60), <1>2, <2>1, <3>1
  <2>2. CASE j # i
    <3>1. Len(y.buf[j]) = Len(x.buf[j]) BY ZenonT(60), <1>5, <2>2
    <3> QED BY <1>6, <2>2, <3>1
  <2> QED BY ZenonT(60), <2>1, <2>2
<1>8. ASSUME NEW b
      PROVE  Places(y, b) = Places(x, b) + (IF b = p THEN 1 ELSE 0)
  <2>0. PICK H : H = Held(x, TxIndex, b) BY ZenonT(60)
  <2>1. ASSUME NEW q \in TxIndex \X (1 .. MaxBurst)
        PROVE  /\ q # <<i, n>> => (q \in Held(y, TxIndex, b) <=> q \in H)
               /\ q = <<i, n>> => (q \in Held(y, TxIndex, b) <=> b = p) /\ q \notin H
    <3>1. q = <<q[1], q[2]>> /\ q[1] \in TxIndex /\ q[2] \in Nat \ {0}
      BY IndexFinite
    <3>2. CASE q[1] # i
      <4>1. y.buf[q[1]] = x.buf[q[1]] BY ZenonT(60), <1>5, <3>1, <3>2
      <4>2. q \in Held(y, TxIndex, b) <=> q \in H BY ZenonT(60), <2>0, <4>1 DEF Held
      <4> QED BY <3>2, <4>2
    <3>3. CASE q[1] = i /\ q[2] # n
      <4>1. (q[2] <= Len(y.buf[i])) <=> (q[2] <= Len(x.buf[i]))
        <5>1. Len(y.buf[i]) = n BY ZenonT(60), <1>4, <1>5
        <5>2. PICK l, m : l = Len(x.buf[i]) /\ m = q[2] BY ZenonT(60)
        <5>3. l \in Nat /\ n = l + 1 BY ZenonT(60), <1>2, <1>6, <5>2
        <5>4. m \in Nat \ {0} /\ m # n BY ZenonT(60), <3>1, <3>3, <5>2
        <5>5. (m <= n) <=> (m <= l) BY ZenonT(60), <5>3, <5>4, NotLast
        <5> QED BY ZenonT(60), <5>1, <5>2, <5>5
      <4>2. q[2] <= Len(x.buf[i]) => y.buf[i][q[2]] = x.buf[i][q[2]]
        <5>1. PICK l, m : l = Len(x.buf[i]) /\ m = q[2] BY ZenonT(60)
        <5>2. l \in Nat /\ n = l + 1 BY ZenonT(60), <1>2, <1>6, <5>1
        <5>3. m \in Nat \ {0} /\ m # n BY ZenonT(60), <3>1, <3>3, <5>1
        <5>4. (m <= l) => (m \in 1 .. n - 1) BY ZenonT(60), <5>2, <5>3, NotLast
        <5>5. m \in 1 .. n - 1 => y.buf[i][m] = x.buf[i][m] BY ZenonT(60), <1>4, <1>5
        <5> QED BY ZenonT(60), <5>1, <5>4, <5>5
      <4>3. q \in Held(y, TxIndex, b) <=> q \in H BY ZenonT(60), <2>0, <3>3, <4>1, <4>2 DEF Held
      <4>4. q # <<i, n>> BY <3>3
      <4> QED BY ZenonT(60), <4>3, <4>4
    <3>4. CASE q[1] = i /\ q[2] = n
      <4>1. n <= Len(y.buf[i]) /\ ~(n <= Len(x.buf[i])) BY <1>2, <1>4, <1>5, <1>6
      <4>2. q = <<i, n>> BY ZenonT(60), <3>1, <3>4
      <4>3. q \in Held(y, TxIndex, b) <=> b = p BY ZenonT(60), <1>4, <1>5, <3>4, <4>1 DEF Held
      <4>4. q \notin H BY ZenonT(60), <2>0, <3>4, <4>1 DEF Held
      <4> QED BY ZenonT(60), <4>2, <4>3, <4>4
    <3> QED BY ZenonT(60), <3>2, <3>3, <3>4
  <2>2. H \subseteq TxIndex \X (1 .. MaxBurst) /\ Held(y, TxIndex, b) \subseteq TxIndex \X (1 .. MaxBurst)
    BY ZenonT(60), <2>0 DEF Held
  <2>3. <<i, n>> \in TxIndex \X (1 .. MaxBurst) BY ZenonT(60), <1>3
  <2>4. IsFiniteSet(H) /\ <<i, n>> \notin H /\ Cardinality(H) \in Nat
    BY ZenonT(60), <2>0, <2>1, <2>3, HeldFinite
  <2>5. CASE b = p
    <3>1. Held(y, TxIndex, b) = H \union {<<i, n>>} BY ZenonT(60), <2>1, <2>2, <2>3, <2>5
    <3>2. Cardinality(H \union {<<i, n>>}) = Cardinality(H) + 1 BY ZenonT(60), <2>4, FS_AddElement
    <3> QED BY ZenonT(60), <2>0, <2>5, <3>1, <3>2 DEF Places
  <2>6. CASE b # p
    <3>1. Held(y, TxIndex, b) = H BY ZenonT(60), <2>1, <2>2, <2>3, <2>6
    <3> QED BY <2>0, <2>4, <2>6, <3>1 DEF Places
  <2> QED BY <2>5, <2>6
<1> QED BY ZenonT(60), <1>0, <1>1, <1>5, <1>7, <1>8

-----------------------------------------------------------------------------

(* A component has no more tx ports than there are ports. *)
LEMMA ConfigFits ==
  ASSUME CfgsTyped, Unique
  PROVE  Len(Config.tx) <= MaxTx
<1>1. PICK t : t = comp.tx BY ZenonT(60)
<1>2. t \in Seq(Ports) /\ Len(t) \in Nat /\ t \in [1 .. Len(t) -> Ports]
  BY <1>1 DEF CfgsTyped
<1>3. DOMAIN t = 1 .. Len(t) BY <1>2
<1>4. IsInjective(t) BY ZenonT(60), <1>1, <1>3 DEF Unique, IsInjective
<1>5. t \in Injection(1 .. Len(t), Ports) BY ZenonT(60), <1>2, <1>4 DEF Injection
<1>6. IsFiniteSet(1 .. Len(t)) /\ Cardinality(1 .. Len(t)) = Len(t)
  BY ZenonT(60), <1>2, UpToFinite
<1>7. Cardinality(1 .. Len(t)) <= Cardinality(Ports)
  BY Zenon, <1>5, FS_Injection, ClassifierAssumption
<1> QED BY ZenonT(60), <1>1, <1>6, <1>7, ConfigTyped DEF MaxTx

LEMMA StepUnique ==
  ASSUME Inv, Unique, [Next]_vars
  PROVE  Unique'
<1> USE DEF config, sides, worker, packets
<1>0. comp \in [rx : BOOLEAN, tx : Seq(Ports)] BY ZenonT(60) DEF Inv, CfgsTyped
<1>1. CASE comp'.tx = comp.tx BY ZenonT(60), <1>1 DEF Unique
<1>2. ASSUME NEW p \in Ports, TxAdd(p) PROVE Unique'
  <2>1. PICK t : t = comp.tx BY Zenon
  <2>2. PICK u : u = Append(t, p) BY Zenon
  <2>3. t \in Seq(Ports) /\ Len(t) \in Nat BY <1>0, <2>1
  <2>4. comp'.tx = u BY ZenonT(60), <1>0, <1>2, <2>1, <2>2 DEF TxAdd
  <2>5. /\ Len(u) = Len(t) + 1 /\ u[Len(t) + 1] = p
        /\ \A i \in 1 .. Len(t) : u[i] = t[i]
    BY <2>2, <2>3
  <2>6. \A i \in 1 .. Len(u) : i \in 1 .. Len(t) \/ i = Len(t) + 1 BY <2>3, <2>5
  <2>7. \A i \in 1 .. Len(t) : t[i] # p BY ZenonT(60), <1>2, <2>1 DEF TxAdd, Has
  <2>8. \A i, j \in 1 .. Len(t) : t[i] = t[j] => i = j BY Zenon, <2>1 DEF Unique
  <2>9. \A i, j \in 1 .. Len(u) : u[i] = u[j] => i = j BY ZenonT(60), <2>5, <2>6, <2>7, <2>8
  <2> QED BY ZenonT(60), <2>4, <2>9 DEF Unique
<1>3. ASSUME NEW p \in Ports, TxDel(p) PROVE Unique'
  <2>1. PICK t : t = comp.tx BY Zenon
  <2>2. t \in Seq(Ports) /\ Len(t) \in Nat BY <1>0, <2>1
  <2>3. PICK k \in 1 .. Len(t) : comp'.tx = Without(t, k)
    BY <1>0, <1>3, <2>1, <2>2 DEF TxDel
  <2>4. PICK u : u = Without(t, k) BY ZenonT(60)
  <2>5. /\ Len(u) = Len(t) - 1
        /\ \A i \in 1 .. Len(u) : u[i] = t[IF i < k THEN i ELSE i + 1]
    <3>1. PICK a : a = SubSeq(t, 1, k - 1) BY Zenon
    <3>2. PICK z : z = SubSeq(t, k + 1, Len(t)) BY ZenonT(60)
    <3>3. a \in Seq(Ports) /\ Len(a) = k - 1 /\ \A i \in 1 .. k - 1 : a[i] = t[i]
      BY <2>2, <3>1
    <3>4. /\ z \in Seq(Ports) /\ Len(z) = Len(t) - k
          /\ \A i \in 1 .. Len(t) - k : z[i] = t[i + k]
      BY <2>2, <3>2
    <3>5. u = a \o z BY ZenonT(60), <2>4, <3>1, <3>2 DEF Without
    <3>6. Len(u) = Len(t) - 1
      <4>1. Len(u) = Len(a) + Len(z)
        <5>1. a \in Seq(Ports) /\ z \in Seq(Ports) BY ZenonT(60), <3>3, <3>4
        <5> QED BY <3>5, <5>1
      <4>2. k \in Int OBVIOUS
      <4> QED BY <2>2, <3>3, <3>4, <4>1, <4>2
    <3>7. ASSUME NEW i \in 1 .. Len(u) PROVE u[i] = t[IF i < k THEN i ELSE i + 1]
      <4>1. CASE i < k BY SMTT(30), <2>2, <3>3, <3>4, <3>5, <3>6, <4>1
      <4>2. CASE ~(i < k)
        <5>1. i - (k - 1) \in 1 .. Len(t) - k BY <2>2, <3>6, <4>2
        <5>2. u[i] = z[i - (k - 1)] BY <2>2, <3>3, <3>4, <3>5, <3>6, <4>2
        <5>3. i - (k - 1) + k = i + 1 BY <2>2, <3>6
        <5> QED BY ZenonT(60), <3>4, <4>2, <5>1, <5>2, <5>3
      <4> QED BY ZenonT(60), <4>1, <4>2
    <3> QED BY ZenonT(60), <3>6, <3>7
  <2>6. \A i, j \in 1 .. Len(t) : t[i] = t[j] => i = j BY ZenonT(60), <2>1 DEF Unique
  <2>7. ASSUME NEW i \in 1 .. Len(u), NEW j \in 1 .. Len(u), u[i] = u[j] PROVE i = j
    <3>1. /\ (IF i < k THEN i ELSE i + 1) \in 1 .. Len(t)
          /\ (IF j < k THEN j ELSE j + 1) \in 1 .. Len(t)
      BY <2>2, <2>5
    <3>2. (IF i < k THEN i ELSE i + 1) = (IF j < k THEN j ELSE j + 1)
      BY ZenonT(60), <2>5, <2>6, <2>7, <3>1
    <3> QED BY <2>2, <2>5, <3>2
  <2> QED BY ZenonT(60), <2>3, <2>4, <2>7 DEF Unique
<1>4. CASE CompStop
  <2>1. Len(comp'.tx) = 0 BY ZenonT(60), <1>4 DEF CompStop
  <2> QED BY <2>1 DEF Unique
<1>5. CASE Command
  <2>1. ASSUME NEW on \in BOOLEAN, RxPort(on) PROVE comp'.tx = comp.tx
    BY ZenonT(60), <1>0, <2>1 DEF RxPort
  <2>2. \/ comp'.tx = comp.tx \/ CompStop
        \/ \E p \in Ports : TxAdd(p) \/ TxDel(p)
    BY ZenonT(60), <1>5, <2>1 DEF Command, CompStart, TableAdd, TableDel
  <2> QED BY ZenonT(60), <1>1, <1>2, <1>3, <1>4, <2>2
<1>6. CASE Flush
  BY ZenonT(60), <1>1, <1>6 DEF Flush, StopDone, UpdateFill, UpdateFails, UpdatePublish, UpdateClean
<1>7. CASE change_classifier_index \/ LoadSide \/ NotReady \/ Leave \/ Packets
  BY ZenonT(60), <1>1, <1>7, WorkerSame
<1>8. CASE UNCHANGED vars BY ZenonT(60), <1>1, <1>8 DEF vars
<1> QED BY <1>5, <1>6, <1>7, <1>8, StepCases

(* An update changes neither what is in the buffers nor the configuration   *)
(* in force: the side it fills or frees is empty.                           *)
LEMMA FlushBuffers ==
  ASSUME Inv, TablesInv, Unique, BufInv, Flush, failures' = 0
  PROVE  /\ failures = 0
         /\ UNCHANGED <<ref, cur, spc, pkt, push, refcnt, txq>>
         /\ list'[ref].cfg = list[ref].cfg
         /\ \A s \in Sides : /\ list'[s].buf = list[s].buf
                             /\ Len(list'[s].cfg.tx) <= MaxTx
<1> USE DEF config, sides, worker, packets
<1>0. CfgsTyped BY ZenonT(60) DEF Inv
<1>6. failures \in Nat BY ZenonT(60) DEF TablesInv
<1>1. CASE StopDone BY ZenonT(60), <1>1 DEF StopDone, BufInv, Buffered, Inv, CfgsTyped
<1>2. CASE UpdateFill
  <2>0. failures = 0 /\ Buffered BY <1>2 DEF UpdateFill, BufInv
  <2>1. PICK y : y = list[upd] BY Zenon
  <2>2. PICK c : c = Config BY Zenon
  <2>3. PICK x : x = init_component_info(y, c, Len(c.tx)) BY ZenonT(60)
  <2>4. list' = [list EXCEPT ![upd] = x] BY ZenonT(60), <1>2, <2>1, <2>2, <2>3 DEF UpdateFill
  <2>5. IsSide(x) /\ x.cfg = c BY ZenonT(60), <2>3, InitSide
  <2>6. list'[upd] = x /\ \A s \in Sides : s # upd => list'[s] = list[s]
    BY ZenonT(60), <1>0, <2>4, <2>5, ReplaceSide DEF CfgsTyped
  <2>7. x.buf = [i \in TxIndex |-> IF i <= Len(c.tx) THEN <<>> ELSE y.buf[i]]
    BY ZenonT(60), <2>3 DEF init_component_info
  <2>8. upd = ref => c = EmptyCfg /\ y.cfg = EmptyCfg
    BY ZenonT(60), <1>0, <1>2, <2>1, <2>2, EmptyConfig DEF UpdateFill, Fresh, Inv, OwnSide, CfgsTyped
  <2>9. \A i \in TxIndex : y.buf[i] = <<>>
    <3>1. Len(EmptyCfg.tx) = 0 BY DEF EmptyCfg
    <3>2. \A i \in TxIndex : i > 0 BY IndexFinite DEF TxIndex
    <3>3. upd \in Sides BY <1>0 DEF CfgsTyped
    <3>4. \A i \in TxIndex : upd # ref \/ i > Len(y.cfg.tx) => y.buf[i] = <<>>
      BY ZenonT(60), <2>0, <2>1, <3>3 DEF Buffered
    <3> QED BY ZenonT(60), <2>8, <3>1, <3>2, <3>4
  <2>10. y.buf = [i \in TxIndex |-> y.buf[i]] BY ZenonT(60), <1>0, <2>0, <2>1 DEF Buffered, CfgsTyped
  <2>11. x.buf = y.buf
    <3>1. \A i \in TxIndex : (IF i <= Len(c.tx) THEN <<>> ELSE y.buf[i]) = y.buf[i]
      BY Zenon, <2>9
    <3> QED BY ZenonT(60), <2>7, <2>10, <3>1
  <2>12. Len(c.tx) <= MaxTx BY ZenonT(60), <1>0, <2>2, ConfigFits
  <2>13. \A s \in Sides : /\ list'[s].buf = list[s].buf
                          /\ Len(list'[s].cfg.tx) <= MaxTx
    BY ZenonT(60), <2>0, <2>1, <2>5, <2>6, <2>11, <2>12 DEF Buffered
  <2>14. list'[ref].cfg = list[ref].cfg
    BY ZenonT(60), <1>0, <2>1, <2>5, <2>6, <2>8 DEF CfgsTyped
  <2> QED BY ZenonT(60), <1>2, <2>0, <2>13, <2>14 DEF UpdateFill
<1>3. CASE UpdateFails BY <1>6, <1>3 DEF UpdateFails
<1>4. CASE UpdatePublish BY ZenonT(60), <1>4 DEF UpdatePublish, BufInv, Buffered, Inv, CfgsTyped
<1>5. CASE UpdateClean
  <2>0. failures = 0 /\ Buffered BY ZenonT(60), <1>5 DEF UpdateClean, BufInv
  <2>1. list' = [list EXCEPT ![upd] = ZeroSide] /\ ref # upd BY ZenonT(60), <1>5 DEF UpdateClean
  <2>2. list'[upd] = ZeroSide /\ \A s \in Sides : s # upd => list'[s] = list[s]
    BY ZenonT(60), <1>0, <2>1, ReplaceSide, ZeroSideTyped DEF CfgsTyped
  <2>3. ZeroSide.buf = [i \in TxIndex |-> <<>>] BY DEF ZeroSide
  <2>4. list[upd].buf = [i \in TxIndex |-> <<>>]
    <3>1. /\ list[upd].buf = [i \in TxIndex |-> list[upd].buf[i]]
          /\ \A i \in TxIndex : list[upd].buf[i] = <<>>
      BY ZenonT(60), <1>0, <2>0, <2>1 DEF Buffered, CfgsTyped
    <3> QED BY ZenonT(60), <3>1
  <2>5. Len(ZeroSide.cfg.tx) <= MaxTx
    <3>1. Len(EmptyCfg.tx) = 0 BY DEF EmptyCfg
    <3> QED BY <3>1, IndexFinite, ZeroSideTyped
  <2>6. \A s \in Sides : /\ list'[s].buf = list[s].buf
                         /\ Len(list'[s].cfg.tx) <= MaxTx
    BY ZenonT(60), <2>0, <2>2, <2>3, <2>4, <2>5 DEF Buffered
  <2>7. list'[ref] = list[ref] BY ZenonT(60), <1>0, <2>1, <2>2 DEF CfgsTyped
  <2> QED BY ZenonT(60), <1>5, <2>0, <2>6, <2>7 DEF UpdateClean
<1> QED BY ZenonT(60), <1>1, <1>2, <1>3, <1>4, <1>5 DEF Flush

LEMMA SamePlaces ==
  ASSUME NEW x, NEW y, x.buf = y.buf
  PROVE  \A b : Places(x, b) = Places(y, b)
BY Zenon DEF Places, Held

LEMMA FlushBuf ==
  ASSUME Inv, TablesInv, Unique, BufInv, Flush
  PROVE  BufInv'
<1> SUFFICES ASSUME failures' = 0 PROVE Buffered' /\ Pushing' /\ Counted'
  BY ZenonT(60) DEF BufInv
<1>1. /\ failures = 0
      /\ UNCHANGED <<ref, cur, spc, pkt, push, refcnt, txq>>
      /\ list'[ref].cfg = list[ref].cfg
      /\ \A s \in Sides : /\ list'[s].buf = list[s].buf
                          /\ Len(list'[s].cfg.tx) <= MaxTx
  BY ZenonT(60), FlushBuffers
<1>2. Buffered /\ Pushing /\ Counted BY ZenonT(60), <1>1 DEF BufInv
<1>3. ref \in Sides /\ (spc = "push" => cur = ref)
  BY DEF Inv, CfgsTyped, BurstSide, InCall
<1>4. Buffered' BY ZenonT(60), <1>1, <1>2 DEF Buffered
<1>5. Pushing' BY ZenonT(60), <1>1, <1>2, <1>3 DEF Pushing
<1>6. \A b : Places(list'[ref], b) = Places(list[ref], b) BY ZenonT(60), <1>1, <1>3, SamePlaces
<1>7. Counted'
  <2>1. ref' = ref /\ pkt' = pkt /\ push' = push /\ refcnt' = refcnt /\ txq' = txq
    BY ZenonT(60), <1>1
  <2> QED BY ZenonT(60), <1>2, <1>6, <2>1 DEF Counted
<1> QED BY ZenonT(60), <1>4, <1>5, <1>7

LEMMA NoPlaces ==
  ASSUME NEW x, \A i \in TxIndex : x.buf[i] = <<>>
  PROVE  \A b : Places(x, b) = 0
<1>1. \A n \in 1 .. MaxBurst : ~(n <= 0) BY IndexFinite
<1>2. Len(<<>>) = 0 OBVIOUS
<1>3. \A b : Held(x, TxIndex, b) = {}
  <2> SUFFICES ASSUME NEW b, NEW p \in Held(x, TxIndex, b) PROVE FALSE BY Zenon
  <2>1. p[1] \in TxIndex /\ p[2] \in 1 .. MaxBurst /\ p[2] <= Len(x.buf[p[1]]) BY DEF Held
  <2> QED BY ZenonT(60), <1>1, <1>2, <2>1
<1> QED BY ZenonT(60), <1>3, FS_EmptySet DEF Places

-----------------------------------------------------------------------------

(* The side in force is transmitted and emptied: change_classifier_index    *)
(* and the drain of classify_packets.                                       *)
LEMMA DrainCounts ==
  ASSUME CfgsTyped, Buffered, Counted, push = <<>>, NEW x, x = list[ref],
         NEW y, y = Emptied(x, TxPorts(x)), Transmit(x, TxPorts(x))
  PROVE  /\ IsSide(y) /\ y.cfg = x.cfg /\ y.buf \in [TxIndex -> Seq(Pkts)]
         /\ \A i \in TxIndex : y.buf[i] = <<>>
         /\ txq' \in [Pkts -> Nat] /\ refcnt' \in [Pkts -> Int]
         /\ \A b \in Pkts : refcnt'[b] = txq'[b] /\ Places(y, b) = 0
<1>1. /\ ref \in Sides /\ IsSide(x) /\ x.cfg \in Cfgs
      /\ x.buf \in [TxIndex -> Seq(Pkts)]
      /\ Len(x.cfg.tx) <= MaxTx
      /\ \A i \in TxIndex : i > Len(x.cfg.tx) => x.buf[i] = <<>>
  BY ZenonT(60) DEF CfgsTyped, Buffered
<1>2. Len(x.cfg.tx) \in Nat BY <1>1 DEF Cfgs
<1>3. PICK I : I = TxPorts(x) BY ZenonT(60)
<1>4. I \in SUBSET TxIndex BY <1>1, <1>2, <1>3, IndexFinite DEF TxPorts, TxIndex
<1>5. \A i \in TxIndex : i \notin I => i > Len(x.cfg.tx)
  BY <1>2, <1>3, IndexFinite DEF TxPorts, TxIndex
<1>6. IsSide(y) /\ y.cfg = x.cfg BY ZenonT(60), <1>1, BufferOnly DEF Emptied
<1>7. /\ y.buf \in [TxIndex -> Seq(Pkts)]
      /\ \A i \in TxIndex : y.buf[i] = IF i \in I THEN <<>> ELSE x.buf[i]
      /\ \A b : Places(x, b) = Places(y, b) + Cardinality(Held(x, I, b))
  <2>1. y = Emptied(x, I) BY ZenonT(60), <1>3
  <2>2. /\ Emptied(x, I).buf \in [TxIndex -> Seq(Pkts)]
        /\ \A i \in TxIndex : Emptied(x, I).buf[i] = IF i \in I THEN <<>> ELSE x.buf[i]
        /\ \A b : Places(x, b) = Places(Emptied(x, I), b) + Cardinality(Held(x, I, b))
    BY <1>1, <1>4, EmptiedCounts
  <2> QED BY Zenon, <2>1, <2>2
<1>8. \A i \in TxIndex : y.buf[i] = <<>> BY ZenonT(60), <1>1, <1>5, <1>7
<1>9. Transmit(x, I) /\ txq \in [Pkts -> Nat] /\ refcnt \in [Pkts -> Int]
  BY Zenon, <1>3 DEF Counted
<1>10. /\ txq' \in [Pkts -> Nat] /\ refcnt' \in [Pkts -> Int]
       /\ \A b \in Pkts :
            refcnt'[b] - txq'[b] = refcnt[b] - txq[b] - Cardinality(Held(x, I, b))
  BY ZenonT(60), <1>4, <1>9, TransmitCounts
<1>11. \A b : Places(y, b) = 0 BY ZenonT(60), <1>8, NoPlaces
<1>12. ASSUME NEW b \in Pkts PROVE refcnt'[b] = txq'[b]
  <2>1. refcnt[b] = txq[b] + Places(x, b)
    <3>1. Places(x, b) \in Nat BY HeldFinite DEF Places
    <3>2. txq[b] \in Nat /\ Len(push) = 0 BY ZenonT(60), <1>9
    <3> QED BY <3>1, <3>2 DEF Counted
  <2>2. Cardinality(Held(x, I, b)) \in Nat BY ZenonT(60), <1>4, HeldFinite
  <2>3. Places(x, b) = Cardinality(Held(x, I, b)) BY <1>7, <1>11, <2>2
  <2>4. refcnt'[b] \in Int /\ txq'[b] \in Nat /\ refcnt[b] \in Int /\ txq[b] \in Nat
    BY ZenonT(60), <1>9, <1>10
  <2>5. refcnt'[b] - txq'[b] = refcnt[b] - txq[b] - Cardinality(Held(x, I, b))
    BY ZenonT(60), <1>10
  <2>6. PICK r, q, s, t, c, h :
          /\ r = refcnt[b] /\ q = txq[b] /\ s = refcnt'[b] /\ t = txq'[b]
          /\ c = Cardinality(Held(x, I, b)) /\ h = Places(x, b)
    BY ZenonT(60)
  <2>7. r \in Int /\ q \in Nat /\ s \in Int /\ t \in Nat /\ c \in Nat
    BY ZenonT(60), <2>2, <2>4, <2>6
  <2>8. r = q + h /\ h = c /\ s - t = r - q - c BY ZenonT(60), <2>1, <2>3, <2>5, <2>6
  <2>9. s = t BY <2>7, <2>8, SameDifference
  <2> QED BY ZenonT(60), <2>6, <2>9
<1> QED BY ZenonT(60), <1>6, <1>7, <1>8, <1>10, <1>11, <1>12

(* A packet is counted once for every buffer it is to be pushed to. *)
LEMMA ReceiveBuf ==
  ASSUME Inv, TablesInv, failures = 0, Buffered, Pushing, Counted, Receive
  PROVE  Buffered' /\ Pushing' /\ Counted'
<1> USE DEF config, sides, worker, packets
<1>0. /\ ref \in Sides /\ cur = ref /\ push = <<>> /\ list[ref].cfg \in Cfgs
  BY ZenonT(60) DEF Inv, CfgsTyped, BurstSide, InCall, Receive, Pushing
<1>1. UNCHANGED <<ref, list, cur, txq>> BY ZenonT(60) DEF Receive
<1>2. Buffered' BY ZenonT(60), <1>1 DEF Buffered
<1>3. PICK b \in Pkts, v \in Vids, m \in Macs :
        /\ refcnt[b] = 0
        /\ \/ UNCHANGED <<spc, pkt, push, refcnt>>
           \/ /\ Pushes(list[cur], v, m) # <<>>
              /\ spc' = "push" /\ pkt' = b /\ push' = Pushes(list[cur], v, m)
              /\ refcnt' = [refcnt EXCEPT ![b] = IF IsMulticast(list[cur], v, m)
                                                 THEN NofActClsd(list[cur], v) ELSE 1]
  BY ZenonT(60) DEF Receive
<1>4. CASE UNCHANGED <<spc, pkt, push, refcnt>>
  BY ZenonT(60), <1>1, <1>2, <1>4 DEF Pushing, Counted
<1>5. CASE ~UNCHANGED <<spc, pkt, push, refcnt>>
  <2>1. PICK x : x = list[ref] BY Zenon
  <2>2. PICK to : to = Pushes(x, v, m) BY Zenon
  <2>3. PICK c : c = x.cfg BY Zenon
  <2>4. PICK k : k = IF IsMulticast(x, v, m) THEN NofActClsd(x, v) ELSE 1 BY Zenon
  <2>5. /\ to # <<>> /\ spc' = "push" /\ pkt' = b /\ push' = to
        /\ refcnt' = [refcnt EXCEPT ![b] = k]
    BY ZenonT(60), <1>0, <1>3, <1>5, <2>1, <2>2, <2>4
  <2>6. Len(c.tx) \in Nat /\ TablesHold(x.clf, c, Len(c.tx))
    <3>1. Len(c.tx) \in Nat BY <1>0, <2>1, <2>3 DEF Cfgs
    <3> QED BY ZenonT(60), <1>0, <2>1, <2>3, <3>1 DEF TablesInv
  <2>7. OnceEach(to, Destinations(c, v, m)) BY ZenonT(60), <2>2, <2>6, PushesOnce
  <2>8. Destinations(c, v, m) \subseteq 1 .. Len(c.tx)
    <3>1. \A u : Listed(c, u) \subseteq 1 .. Len(c.tx) BY DEF Listed
    <3>2. \A u : Default(c, u) \subseteq 1 .. Len(c.tx) BY ZenonT(60), <3>1 DEF Default, Latest
    <3>3. Exact(c, v, m) \subseteq 1 .. Len(c.tx) BY ZenonT(60), <3>1 DEF Exact, Latest
    <3> QED BY ZenonT(60), <3>1, <3>2, <3>3 DEF Destinations
  <2>9. to \in Seq(1 .. Len(c.tx))
    <3>1. to \in Seq(Destinations(c, v, m)) BY ZenonT(60), <2>7 DEF OnceEach
    <3> QED BY <2>8, <3>1
  <2>10. Pushing' BY ZenonT(60), <1>0, <1>1, <2>1, <2>3, <2>5, <2>9 DEF Pushing
  <2>11. Len(to) = k
    <3>1. CASE IsMulticast(x, v, m)
      <4>1. to = x.clf[v].ports \o (IF v = Untagged THEN <<>> ELSE One(GeneralDefault(x)))
        BY ZenonT(60), <2>2, <3>1 DEF Pushes, handle_l2multicast_packet
      <4>2. k = Len(x.clf[v].ports) +
                  (IF GeneralDefault(x) # NoIndex /\ v # Untagged THEN 1 ELSE 0)
        BY ZenonT(60), <2>4, <3>1 DEF NofActClsd
      <4>3. x.clf[v].ports \in Seq(Nat)
        <5>1. OfVid(c, Len(c.tx), v) # {} BY ZenonT(60), <2>6, <3>1 DEF TablesHold, IsMulticast
        <5>2. ClfHolds(x.clf[v], c, Len(c.tx), v) BY ZenonT(60), <2>6, <5>1 DEF TablesHold
        <5>3. x.clf[v].ports \in Seq(OfVid(c, Len(c.tx), v)) BY ZenonT(60), <5>2 DEF ClfHolds, Rising
        <5>4. OfVid(c, Len(c.tx), v) \subseteq Nat BY <2>6 DEF OfVid
        <5> QED BY <5>3, <5>4
      <4>4. PICK g : g = GeneralDefault(x) BY Zenon
      <4>5. PICK s \in Seq(Nat) : s = x.clf[v].ports BY ZenonT(60), <4>3
      <4>6. CASE g # NoIndex /\ v # Untagged
        <5>1. to = s \o <<g>> BY ZenonT(60), <4>1, <4>4, <4>5, <4>6 DEF One
        <5>2. Len(s \o <<g>>) = Len(s) + 1 OBVIOUS
        <5> QED BY ZenonT(60), <4>2, <4>4, <4>5, <4>6, <5>1, <5>2
      <4>7. CASE ~(g # NoIndex /\ v # Untagged)
        <5>1. to = s \o <<>> BY ZenonT(60), <4>1, <4>4, <4>5, <4>7 DEF One
        <5>2. Len(s \o <<>>) = Len(s) + 0 OBVIOUS
        <5> QED BY ZenonT(60), <4>2, <4>4, <4>5, <4>7, <5>1, <5>2
      <4> QED BY ZenonT(60), <4>6, <4>7
    <3>2. CASE ~IsMulticast(x, v, m)
      <4>1. to = One(select_classified_index(x, v, m)) BY ZenonT(60), <2>2, <3>2 DEF Pushes
      <4>2. PICK d : d = select_classified_index(x, v, m) BY Zenon
      <4>3. to = <<d>> BY ZenonT(60), <2>5, <4>1, <4>2 DEF One
      <4>4. Len(<<d>>) = 1 OBVIOUS
      <4> QED BY ZenonT(60), <2>4, <3>2, <4>3, <4>4
    <3> QED BY ZenonT(60), <3>1, <3>2
  <2>12. k \in Nat BY <2>9, <2>11
  <2>13. Len(push) = 0 BY ZenonT(60), <1>0
  <2>14. \A p \in Pkts : /\ refcnt[p] \in Int /\ txq[p] \in Nat /\ Places(x, p) \in Nat
                         /\ refcnt[p] = txq[p] + Places(x, p)
    <3>1. \A p \in Pkts : refcnt[p] \in Int /\ txq[p] \in Nat BY ZenonT(60) DEF Counted
    <3>2. \A p \in Pkts : Places(x, p) \in Nat BY ZenonT(60), HeldFinite DEF Places
    <3> QED BY <2>1, <2>13, <3>1, <3>2 DEF Counted
  <2>15. /\ refcnt' \in [Pkts -> Int] /\ refcnt'[b] = k
         /\ \A p \in Pkts : p # b => refcnt'[p] = refcnt[p]
    BY <2>5, <2>12 DEF Counted
  <2>16. ASSUME NEW p \in Pkts
         PROVE  refcnt'[p] = txq'[p] + (IF pkt' = p THEN Len(push') ELSE 0)
                             + Places(list'[ref'], p)
    <3>1. list'[ref'] = x /\ txq'[p] = txq[p] BY ZenonT(60), <1>1, <2>1
    <3>2. CASE p = b
      <4>1. refcnt'[p] = k /\ Len(push') = k /\ pkt' = p BY ZenonT(60), <2>5, <2>11, <2>15, <3>2
      <4>2. txq[p] = 0 /\ Places(x, p) = 0 BY SMTT(30), <1>3, <2>14, <3>2
      <4> QED BY <2>12, <3>1, <4>1, <4>2
    <3>3. CASE p # b
      <4>1. refcnt'[p] = refcnt[p] /\ pkt' # p BY ZenonT(60), <2>5, <2>15, <3>3
      <4> QED BY <2>14, <3>1, <4>1
    <3> QED BY ZenonT(60), <3>2, <3>3
  <2>17. txq' \in [Pkts -> Nat] BY ZenonT(60), <1>1 DEF Counted
  <2>18. Counted' BY ZenonT(60), <2>15, <2>16, <2>17 DEF Counted
  <2> QED BY ZenonT(60), <1>2, <2>10, <2>18
<1> QED BY ZenonT(60), <1>4, <1>5

(* push_packet puts one of the references in a buffer. *)
LEMMA PushBuf ==
  ASSUME Inv, Buffered, Pushing, Counted, push_packet
  PROVE  Buffered' /\ Pushing' /\ Counted'
<1> USE DEF config, sides, worker, packets
<1>0. CfgsTyped /\ spc = "push" /\ cur = ref /\ ref \in Sides
  BY DEF Inv, CfgsTyped, BurstSide, InCall, push_packet
<1>1. PICK x : x = list[ref] BY ZenonT(60)
<1>2. /\ IsSide(x) /\ x.cfg \in Cfgs /\ Len(x.cfg.tx) <= MaxTx
      /\ x.buf \in [TxIndex -> Seq(Pkts)]
      /\ \A i \in TxIndex : /\ Len(x.buf[i]) < MaxBurst
                            /\ i > Len(x.cfg.tx) => x.buf[i] = <<>>
  BY ZenonT(60), <1>0, <1>1 DEF Buffered, CfgsTyped
<1>3. Len(x.cfg.tx) \in Nat BY <1>2 DEF Cfgs
<1>4. pkt \in Pkts /\ push # <<>> /\ push \in Seq(1 .. Len(x.cfg.tx))
  BY ZenonT(60), <1>0, <1>1 DEF Pushing
<1>5. PICK i : i = Head(push) BY Zenon
<1>6. /\ i \in 1 .. Len(x.cfg.tx) /\ Tail(push) \in Seq(1 .. Len(x.cfg.tx))
      /\ Len(push) \in Nat \ {0} /\ Len(Tail(push)) = Len(push) - 1
  BY <1>4, <1>5
<1>7. i \in TxIndex BY <1>2, <1>3, <1>6, IndexFinite DEF TxIndex
<1>8. PICK y : y = [x EXCEPT !.buf[i] = Append(@, pkt)] BY Zenon
<1>9. PICK full : full = IF Len(y.buf[i]) = MaxBurst THEN {i} ELSE {} BY Zenon
<1>10. PICK z : z = Emptied(y, full) BY ZenonT(60)
<1>11. /\ Transmit(y, full)
       /\ list' = [list EXCEPT ![ref] = z]
       /\ push' = Tail(push)
       /\ IF Len(push) = 1 THEN spc' = "rx" /\ pkt' = NoPkt ELSE UNCHANGED <<spc, pkt>>
       /\ UNCHANGED <<ref, cur>>
  BY ZenonT(60), <1>0, <1>1, <1>5, <1>8, <1>9, <1>10 DEF push_packet
<1>12. PICK p \in Pkts : p = pkt BY Zenon, <1>4
<1>13. /\ IsSide(y) /\ y.cfg = x.cfg
       /\ y.buf \in [TxIndex -> Seq(Pkts)]
       /\ \A j \in TxIndex : Len(y.buf[j]) = Len(x.buf[j]) + (IF j = i THEN 1 ELSE 0)
       /\ \A j \in TxIndex : j # i => y.buf[j] = x.buf[j]
       /\ \A b : Places(y, b) = Places(x, b) + (IF b = p THEN 1 ELSE 0)
  <2>1. y = Pushed(x, i, p) BY ZenonT(60), <1>8, <1>12 DEF Pushed
  <2>2. Len(x.buf[i]) < MaxBurst BY ZenonT(60), <1>2, <1>7
  <2>3. /\ IsSide(Pushed(x, i, p)) /\ Pushed(x, i, p).cfg = x.cfg
        /\ Pushed(x, i, p).buf \in [TxIndex -> Seq(Pkts)]
        /\ \A j \in TxIndex :
             Len(Pushed(x, i, p).buf[j]) = Len(x.buf[j]) + (IF j = i THEN 1 ELSE 0)
        /\ \A j \in TxIndex : j # i => Pushed(x, i, p).buf[j] = x.buf[j]
        /\ \A b : Places(Pushed(x, i, p), b) = Places(x, b) + (IF b = p THEN 1 ELSE 0)
    BY ZenonT(60), <1>2, <1>7, <2>2, PushedCounts
  <2> QED BY ZenonT(60), <2>1, <2>3
<1>14. full \in SUBSET TxIndex /\ (\A j \in full : j = i) BY Zenon, <1>7, <1>9
<1>15. /\ z.buf \in [TxIndex -> Seq(Pkts)]
       /\ \A j \in TxIndex : z.buf[j] = IF j \in full THEN <<>> ELSE y.buf[j]
       /\ \A b : Places(y, b) = Places(z, b) + Cardinality(Held(y, full, b))
  <2>1. IsSide(y) /\ y.buf \in [TxIndex -> Seq(Pkts)] BY ZenonT(60), <1>13
  <2>2. /\ Emptied(y, full).buf \in [TxIndex -> Seq(Pkts)]
        /\ \A j \in TxIndex :
             Emptied(y, full).buf[j] = IF j \in full THEN <<>> ELSE y.buf[j]
        /\ \A b : Places(y, b) = Places(Emptied(y, full), b) + Cardinality(Held(y, full, b))
    BY ZenonT(60), <1>14, <2>1, EmptiedCounts
  <2> QED BY ZenonT(60), <1>10, <2>2
<1>16. IsSide(z) /\ z.cfg = x.cfg BY ZenonT(60), <1>10, <1>13, BufferOnly DEF Emptied
<1>17. list'[ref] = z /\ \A s \in Sides : s # ref => list'[s] = list[s]
  BY ZenonT(60), <1>0, <1>11, <1>16, ReplaceSide
<1>18. ASSUME NEW j \in TxIndex
       PROVE  /\ Len(z.buf[j]) < MaxBurst
              /\ j > Len(x.cfg.tx) => z.buf[j] = <<>>
  <2>1. Len(x.buf[j]) \in Nat /\ Len(x.buf[j]) < MaxBurst /\ Len(<<>>) = 0 /\ 0 < MaxBurst
    BY <1>2, IndexFinite
  <2>2. CASE j # i
    <3>1. z.buf[j] = x.buf[j] BY ZenonT(60), <1>13, <1>14, <1>15, <2>2
    <3> QED BY ZenonT(60), <1>2, <2>1, <3>1
  <2>3. CASE j = i
    <3>1. ~(j > Len(x.cfg.tx)) BY <1>3, <1>6, <2>3
    <3>2. CASE Len(y.buf[i]) = MaxBurst
      <4>1. j \in full BY ZenonT(60), <1>9, <2>3, <3>2
      <4>2. z.buf[j] = <<>> BY ZenonT(60), <1>15, <4>1
      <4> QED BY ZenonT(60), <2>1, <4>2
    <3>3. CASE Len(y.buf[i]) # MaxBurst
      <4>1. j \notin full BY ZenonT(60), <1>9, <3>3
      <4>2. z.buf[j] = y.buf[j] BY ZenonT(60), <1>15, <4>1
      <4>3. Len(y.buf[i]) = Len(x.buf[i]) + 1 BY ZenonT(60), <1>7, <1>13
      <4>4. Len(y.buf[i]) < MaxBurst BY <2>1, <2>3, <3>3, <4>3, IndexFinite
      <4> QED BY ZenonT(60), <2>3, <3>1, <4>2, <4>4
    <3> QED BY ZenonT(60), <3>2, <3>3
  <2> QED BY ZenonT(60), <2>2, <2>3
<1>19. Buffered'
  <2>1. ref' = ref BY <1>11
  <2>2. /\ Len(z.cfg.tx) <= MaxTx
        /\ z.buf \in [TxIndex -> Seq(Pkts)]
        /\ \A j \in TxIndex : /\ Len(z.buf[j]) < MaxBurst
                              /\ j > Len(z.cfg.tx) => z.buf[j] = <<>>
    BY ZenonT(60), <1>2, <1>15, <1>16, <1>18
  <2>3. ASSUME NEW s \in Sides
        PROVE  /\ Len(list'[s].cfg.tx) <= MaxTx
               /\ list'[s].buf \in [TxIndex -> Seq(Pkts)]
               /\ \A j \in TxIndex :
                    /\ Len(list'[s].buf[j]) < MaxBurst
                    /\ s # ref \/ j > Len(list'[s].cfg.tx) => list'[s].buf[j] = <<>>
    <3>1. CASE s = ref BY ZenonT(60), <1>17, <2>2, <3>1
    <3>2. CASE s # ref BY ZenonT(60), <1>17, <3>2 DEF Buffered
    <3> QED BY ZenonT(60), <3>1, <3>2
  <2> QED BY ZenonT(60), <2>1, <2>3 DEF Buffered
<1>20. Pushing'
  <2>1. list'[cur'].cfg = x.cfg BY ZenonT(60), <1>0, <1>11, <1>16, <1>17
  <2>2. CASE Len(push) = 1
    <3>1. spc' = "rx" BY ZenonT(60), <1>11, <2>2
    <3>2. push' = <<>> BY <1>6, <1>11, <2>2
    <3> QED BY ZenonT(60), <3>1, <3>2 DEF Pushing
  <2>3. CASE Len(push) # 1
    <3>1. spc' = "push" /\ pkt' = pkt BY ZenonT(60), <1>0, <1>11, <2>3
    <3>2. push' # <<>>
      <4>1. Len(push') = Len(push) - 1 BY ZenonT(60), <1>6, <1>11
      <4>2. Len(push) - 1 # 0 BY <1>6, <2>3
      <4>3. Len(<<>>) = 0 OBVIOUS
      <4> QED BY ZenonT(60), <4>1, <4>2, <4>3
    <3> QED BY ZenonT(60), <1>4, <1>6, <1>11, <2>1, <3>1, <3>2 DEF Pushing
  <2> QED BY ZenonT(60), <2>2, <2>3
<1>21. /\ txq' \in [Pkts -> Nat] /\ refcnt' \in [Pkts -> Int]
       /\ \A b \in Pkts :
            refcnt'[b] - txq'[b] = refcnt[b] - txq[b] - Cardinality(Held(y, full, b))
  <2>1. txq \in [Pkts -> Nat] /\ refcnt \in [Pkts -> Int] BY DEF Counted
  <2> QED BY ZenonT(60), <1>11, <1>14, <2>1, TransmitCounts
<1>22. ASSUME NEW b \in Pkts
       PROVE  refcnt'[b] = txq'[b] + (IF pkt' = b THEN Len(push') ELSE 0)
                           + Places(list'[ref'], b)
  <2>1. list'[ref'] = z BY ZenonT(60), <1>11, <1>17
  <2>2. /\ refcnt[b] \in Int /\ txq[b] \in Nat /\ refcnt'[b] \in Int /\ txq'[b] \in Nat
        /\ Cardinality(Held(y, full, b)) \in Nat
        /\ Places(x, b) \in Nat /\ Places(z, b) \in Nat
    BY ZenonT(60), <1>14, <1>21, HeldFinite DEF Counted, Places
  <2>3. refcnt[b] = txq[b] + (IF p = b THEN Len(push) ELSE 0) + Places(x, b)
    BY ZenonT(60), <1>1, <1>12 DEF Counted
  <2>4. (IF pkt' = b THEN Len(push') ELSE 0) = IF p = b THEN Len(push) - 1 ELSE 0
    <3>1. Len(push') = Len(push) - 1 BY ZenonT(60), <1>6, <1>11
    <3>2. CASE Len(push) = 1 BY <1>6, <3>1, <3>2
    <3>3. CASE Len(push) # 1
      <4>1. pkt' = p BY ZenonT(60), <1>11, <1>12, <3>3
      <4> QED BY ZenonT(60), <3>1, <4>1
    <3> QED BY ZenonT(60), <3>2, <3>3
  <2>5. Places(x, b) + (IF p = b THEN 1 ELSE 0) = Places(z, b) + Cardinality(Held(y, full, b))
    BY ZenonT(60), <1>13, <1>15
  <2>6. refcnt'[b] - txq'[b] = refcnt[b] - txq[b] - Cardinality(Held(y, full, b))
    BY ZenonT(60), <1>21
  <2>7. PICK h \in Nat : h = Cardinality(Held(y, full, b)) BY ZenonT(60), <2>2
  <2>8. PICK px \in Nat : px = Places(x, b) BY ZenonT(60), <2>2
  <2>9. PICK pz \in Nat : pz = Places(z, b) BY ZenonT(60), <2>2
  <2>0. PICK n \in Nat : n = Len(push) BY ZenonT(60), <1>6
  <2>10. PICK l \in Nat : l = IF p = b THEN n ELSE 0 OBVIOUS
  <2>11. PICK l2 \in Int : l2 = IF p = b THEN n - 1 ELSE 0 OBVIOUS
  <2>12. PICK o \in Int : o = IF p = b THEN 1 ELSE 0 OBVIOUS
  <2>13. l2 = l - o BY <2>10, <2>11, <2>12
  <2>14. /\ refcnt[b] = txq[b] + l + px
         /\ px + o = pz + h
         /\ refcnt'[b] - txq'[b] = refcnt[b] - txq[b] - h
    BY ZenonT(60), <2>0, <2>3, <2>5, <2>6, <2>7, <2>8, <2>9, <2>10, <2>12
  <2>15. refcnt'[b] = txq'[b] + l2 + pz BY <2>2, <2>13, <2>14
  <2> QED BY ZenonT(60), <2>0, <2>1, <2>4, <2>9, <2>11, <2>15
<1>23. Counted' BY ZenonT(60), <1>21, <1>22 DEF Counted
<1> QED BY ZenonT(60), <1>19, <1>20, <1>23

(* The drain of a burst, and the one of change_classifier_index before it   *)
(* leaves the side                                                          *)
LEMMA DrainBuf ==
  ASSUME Inv, Buffered, Pushing, Counted, Drain \/ change_classifier_index
  PROVE  Buffered' /\ Pushing' /\ Counted'
<1> USE DEF config, sides, worker, packets
<1>0. CfgsTyped /\ ref \in Sides /\ upd \in Sides /\ push = <<>> /\ push' = push
  BY DEF Inv, CfgsTyped, Drain, change_classifier_index, Pushing
<1>1. PICK x : x = list[ref] BY Zenon
<1>2. PICK y : y = Emptied(x, TxPorts(x)) BY Zenon
<1>3. CASE change_classifier_index /\ ref # upd
  <2>1. /\ UNCHANGED <<ref, list, refcnt, txq, cur, pkt>> /\ spc' # "push"
    BY ZenonT(60), <1>3 DEF change_classifier_index
  <2>2. Buffered' BY ZenonT(60), <2>1 DEF Buffered
  <2>3. Pushing' BY ZenonT(60), <1>0, <2>1 DEF Pushing
  <2>4. Counted' BY ZenonT(60), <1>0, <2>1 DEF Counted
  <2> QED BY ZenonT(60), <2>2, <2>3, <2>4
<1>4. CASE Drain \/ (change_classifier_index /\ ref = upd)
  <2>1. /\ Transmit(x, TxPorts(x)) /\ list' = [list EXCEPT ![ref] = y]
        /\ ref' \in Sides /\ spc' # "push"
    <3>1. CASE Drain
      <4>1. cur = ref BY ZenonT(60), <3>1 DEF Inv, BurstSide, InCall, Drain
      <4> QED BY ZenonT(60), <1>0, <1>1, <1>2, <3>1, <4>1 DEF Drain
    <3>2. CASE change_classifier_index /\ ref = upd
      <4>1. 1 - upd \in Sides BY ZenonT(60), <1>0, OtherSide
      <4> QED BY ZenonT(60), <1>1, <1>2, <3>2, <4>1 DEF change_classifier_index
    <3> QED BY ZenonT(60), <1>4, <3>1, <3>2
  <2>2. /\ IsSide(y) /\ y.cfg = x.cfg /\ y.buf \in [TxIndex -> Seq(Pkts)]
        /\ \A i \in TxIndex : y.buf[i] = <<>>
        /\ txq' \in [Pkts -> Nat] /\ refcnt' \in [Pkts -> Int]
        /\ \A b \in Pkts : refcnt'[b] = txq'[b]
    BY ZenonT(60), <1>0, <1>1, <1>2, <2>1, DrainCounts
  <2>3. list'[ref] = y /\ \A s \in Sides : s # ref => list'[s] = list[s]
    BY ZenonT(60), <1>0, <2>1, <2>2, ReplaceSide
  <2>4. ASSUME NEW s \in Sides
        PROVE  /\ Len(list'[s].cfg.tx) <= MaxTx
               /\ list'[s].buf \in [TxIndex -> Seq(Pkts)]
               /\ \A i \in TxIndex : list'[s].buf[i] = <<>>
    <3>1. CASE s = ref BY ZenonT(60), <1>1, <2>2, <2>3, <3>1 DEF Buffered
    <3>2. CASE s # ref BY ZenonT(60), <2>3, <3>2 DEF Buffered
    <3> QED BY ZenonT(60), <3>1, <3>2
  <2>5. Buffered'
    <3>1. Len(<<>>) < MaxBurst BY IndexFinite
    <3> QED BY ZenonT(60), <2>4, <3>1 DEF Buffered
  <2>6. Pushing' BY ZenonT(60), <1>0, <2>1 DEF Pushing
  <2>7. ASSUME NEW b \in Pkts
        PROVE  refcnt'[b] = txq'[b] + (IF pkt' = b THEN Len(push') ELSE 0)
                            + Places(list'[ref'], b)
    <3>1. PICK z : z = list'[ref'] BY Zenon
    <3>2. \A i \in TxIndex : z.buf[i] = <<>> BY ZenonT(60), <2>1, <2>4, <3>1
    <3>3. Places(z, b) = 0 BY ZenonT(60), <3>2, NoPlaces
    <3>4. Len(push') = 0 BY ZenonT(60), <1>0
    <3>5. txq'[b] \in Nat BY <2>2
    <3> QED BY <2>2, <3>1, <3>3, <3>4, <3>5
  <2>8. Counted' BY ZenonT(60), <2>2, <2>7 DEF Counted
  <2> QED BY <2>5, <2>6, <2>8
<1> QED BY ZenonT(60), <1>3, <1>4

LEMMA SentBuf ==
  ASSUME Buffered, Pushing, Counted, NEW b \in Pkts, Sent(b)
  PROVE  Buffered' /\ Pushing' /\ Counted'
<1>1. /\ UNCHANGED <<ref, list, cur, spc, pkt, push>>
      /\ txq[b] > 0
      /\ txq' = [txq EXCEPT ![b] = @ - 1] /\ refcnt' = [refcnt EXCEPT ![b] = @ - 1]
  BY ZenonT(60), SMTT(30) DEF Sent, sides, worker
<1>2. Buffered' BY ZenonT(60), <1>1 DEF Buffered
<1>3. Pushing' BY ZenonT(60), <1>1 DEF Pushing
<1>4. txq' \in [Pkts -> Nat] /\ refcnt' \in [Pkts -> Int] BY <1>1 DEF Counted
<1>5. ASSUME NEW p \in Pkts
      PROVE  refcnt'[p] = txq'[p] + (IF pkt' = p THEN Len(push') ELSE 0)
                          + Places(list'[ref'], p)
  <2>1. PICK l : l = IF pkt = p THEN Len(push) ELSE 0 BY Zenon
  <2>2. PICK h : h = Places(list[ref], p) BY Zenon
  <2>3. l = (IF pkt' = p THEN Len(push') ELSE 0) /\ h = Places(list'[ref'], p)
    BY ZenonT(60), <1>1, <2>1, <2>2
  <2>4. h \in Nat BY ZenonT(60), <2>2, HeldFinite DEF Places
  <2>5. l \in Nat
    <3>1. Len(push) \in Nat
      <4>1. \E S : push \in Seq(S)
        <5>1. <<>> \in Seq({}) OBVIOUS
        <5> QED BY Zenon, <5>1 DEF Pushing
      <4> QED BY <4>1
    <3> QED BY ZenonT(60), <2>1, <3>1
  <2>6. refcnt[p] = txq[p] + l + h /\ txq[p] \in Nat /\ refcnt[p] \in Int
    BY ZenonT(60), <2>1, <2>2 DEF Counted
  <2>7. refcnt'[p] = txq'[p] + l + h
    <3>1. CASE p = b
      <4>1. txq'[p] = txq[p] - 1 /\ refcnt'[p] = refcnt[p] - 1 BY ZenonT(60), <1>1, <3>1 DEF Counted
      <4> QED BY <2>4, <2>5, <2>6, <4>1
    <3>2. CASE p # b
      <4>1. txq'[p] = txq[p] /\ refcnt'[p] = refcnt[p] BY <1>1, <3>2 DEF Counted
      <4> QED BY ZenonT(60), <2>6, <4>1
    <3> QED BY ZenonT(60), <3>1, <3>2
  <2> QED BY ZenonT(60), <2>3, <2>7
<1>6. Counted' BY ZenonT(60), <1>4, <1>5 DEF Counted
<1> QED BY ZenonT(60), <1>2, <1>3, <1>6

LEMMA StepBuf ==
  ASSUME Inv, TablesInv, Unique, BufInv, [Next]_vars
  PROVE  BufInv'
<1> USE DEF config, sides, worker, packets
<1>1. CASE Command
  <2>1. UNCHANGED <<ref, list, failures, spc, cur, pkt, push, refcnt, txq>>
    BY ZenonT(60), <1>1 DEF Command, CompStart, CompStop, RxPort, TxAdd, TxDel, TableAdd, TableDel, Store
  <2> QED BY ZenonT(60), <2>1 DEF BufInv, Buffered, Pushing, Counted
<1>2. CASE Flush BY ZenonT(60), <1>2, FlushBuf
<1>3. CASE change_classifier_index \/ LoadSide \/ NotReady \/ Leave \/ Packets
  <2> SUFFICES ASSUME failures' = 0 PROVE Buffered' /\ Pushing' /\ Counted'
    BY ZenonT(60) DEF BufInv
  <2>1. failures = 0 BY ZenonT(60), <1>3, WorkerSame
  <2>2. Buffered /\ Pushing /\ Counted BY ZenonT(60), <2>1 DEF BufInv
  <2>3. CASE LoadSide \/ NotReady \/ Leave
    <3>1. UNCHANGED <<ref, list, pkt, push, refcnt, txq>> /\ spc # "push" /\ spc' # "push"
      BY ZenonT(60), <2>3 DEF LoadSide, NotReady, Leave
    <3> QED BY ZenonT(60), <2>2, <3>1 DEF Buffered, Pushing, Counted
  <2>4. CASE change_classifier_index \/ Drain BY ZenonT(60), <2>2, <2>4, DrainBuf
  <2>5. CASE Receive BY ZenonT(60), <2>1, <2>2, <2>5, ReceiveBuf
  <2>6. CASE push_packet BY ZenonT(60), <2>2, <2>6, PushBuf
  <2>7. CASE \E b \in Pkts : Sent(b) BY ZenonT(60), <2>2, <2>7, SentBuf
  <2> QED BY ZenonT(60), <1>3, <2>3, <2>4, <2>5, <2>6, <2>7 DEF Packets
<1>4. CASE UNCHANGED vars BY ZenonT(60), <1>4 DEF vars, BufInv, Buffered, Pushing, Counted
<1> QED BY ZenonT(60), <1>1, <1>2, <1>3, <1>4, StepCases

LEMMA InitBuf == Init => Unique /\ BufInv
<1> SUFFICES ASSUME Init PROVE Unique /\ BufInv BY ZenonT(60)
<1>1. \A s \in Sides : list[s] = ZeroSide BY DEF Init
<1>2. ref \in Sides /\ push = <<>> /\ spc # "push" BY ZenonT(60) DEF Init, Sides
<1>3. Len(comp.tx) = 0 BY DEF Init
<1>4. Unique BY <1>3 DEF Unique
<1>5. /\ ZeroSide.buf = [i \in TxIndex |-> <<>>]
      /\ ZeroSide.buf \in [TxIndex -> Seq(Pkts)]
      /\ \A i \in TxIndex : ZeroSide.buf[i] = <<>>
  BY DEF ZeroSide
<1>6. Len(ZeroSide.cfg.tx) <= MaxTx
  <2>1. Len(EmptyCfg.tx) = 0 BY DEF EmptyCfg
  <2> QED BY <2>1, IndexFinite, ZeroSideTyped
<1>7. Len(<<>>) < MaxBurst BY IndexFinite
<1>8. Buffered BY ZenonT(60), <1>1, <1>5, <1>6, <1>7 DEF Buffered
<1>9. Pushing BY ZenonT(60), <1>2 DEF Pushing
<1>10. \A b : Places(ZeroSide, b) = 0 BY ZenonT(60), <1>5, NoPlaces
<1>11. /\ txq \in [Pkts -> Nat] /\ refcnt \in [Pkts -> Int]
       /\ \A b \in Pkts : refcnt[b] = 0 /\ txq[b] = 0
  BY DEF Init
<1>12. Len(push) = 0 BY ZenonT(60), <1>2
<1>13. ASSUME NEW b \in Pkts
       PROVE  refcnt[b] = txq[b] + (IF pkt = b THEN Len(push) ELSE 0) + Places(list[ref], b)
  <2>1. Places(list[ref], b) = 0 BY ZenonT(60), <1>1, <1>2, <1>10
  <2> QED BY <1>11, <1>12, <2>1
<1>14. Counted BY ZenonT(60), <1>11, <1>13 DEF Counted
<1> QED BY ZenonT(60), <1>4, <1>8, <1>9, <1>14 DEF BufInv

(* For any packets, buffers of any size and any tx ports, as long as no     *)
(* update has failed: a packet buffer has exactly as many references as     *)
(* there are places that hold it, whatever is configured while packets are  *)
(* classified (rte_mbuf_refcnt_update in handle_l2multicast_packet against  *)
(* push_packet and transmit_packets), so none leaks and none is released    *)
(* early.                                                                   *)
THEOREM RefcntExactAlways == Spec => []RefcntExact
<1>1. Inv /\ BufInv => RefcntExact
  <2> SUFFICES ASSUME Inv, BufInv, failures = 0, NEW b \in Pkts
               PROVE  refcnt[b] = txq[b] + (IF pkt = b THEN Len(push) ELSE 0)
                                  + Cardinality(Held(list[0], TxIndex, b))
                                  + Cardinality(Held(list[1], TxIndex, b))
    BY Zenon DEF RefcntExact
  <2>1. Buffered /\ Pushing /\ Counted BY Zenon DEF BufInv
  <2>2. \A s \in Sides : s # ref => Places(list[s], b) = 0
    <3> SUFFICES ASSUME NEW s \in Sides, s # ref PROVE Places(list[s], b) = 0 BY Zenon
    <3>1. PICK x : x = list[s] BY Zenon
    <3>2. \A i \in TxIndex : x.buf[i] = <<>> BY ZenonT(60), <2>1, <3>1 DEF Buffered
    <3> QED BY ZenonT(60), <3>1, <3>2, NoPlaces
  <2>3. ref = 0 \/ ref = 1 BY DEF Inv, CfgsTyped, Sides
  <2>4. 0 \in Sides /\ 1 \in Sides /\ 0 # 1 BY DEF Sides
  <2>5. Places(list[0], b) \in Nat /\ Places(list[1], b) \in Nat BY HeldFinite DEF Places
  <2>6. PICK n : n = txq[b] + (IF pkt = b THEN Len(push) ELSE 0) BY ZenonT(60)
  <2>7. n \in Int
    <3>1. Len(push) \in Nat
      <4>1. CASE spc = "push" BY <2>1, <4>1 DEF Pushing
      <4>2. CASE spc # "push" BY <2>1, <4>2 DEF Pushing
      <4> QED BY ZenonT(60), <4>1, <4>2
    <3>2. txq[b] \in Nat BY <2>1 DEF Counted
    <3> QED BY <2>6, <3>1, <3>2
  <2>8. refcnt[b] = n + Places(list[ref], b) BY ZenonT(60), <2>1, <2>6 DEF Counted
  <2>9. refcnt[b] = n + Places(list[0], b) + Places(list[1], b)
    <3>1. CASE ref = 0
      <4>1. Places(list[1], b) = 0 BY ZenonT(60), <2>2, <2>4, <3>1
      <4> QED BY <2>5, <2>7, <2>8, <3>1, <4>1
    <3>2. CASE ref = 1
      <4>1. Places(list[0], b) = 0 BY ZenonT(60), <2>2, <2>4, <3>2
      <4> QED BY <2>5, <2>7, <2>8, <3>2, <4>1
    <3> QED BY ZenonT(60), <2>3, <3>1, <3>2
  <2> QED BY ZenonT(60), <2>6, <2>9 DEF Places
<1>2. Inv /\ TablesInv /\ [Next]_vars => TablesInv' BY StepTables
<1>3. Inv /\ Unique /\ [Next]_vars => Unique' BY StepUnique
<1>4. Inv /\ TablesInv /\ Unique /\ BufInv /\ [Next]_vars => BufInv' BY StepBuf
<1> QED BY <1>1, <1>2, <1>3, <1>4, SpecInv, InitTables, InitBuf, PTL DEF Spec
=============================================================================
