---------------------------- MODULE MirrorProofs ----------------------------
(***************************************************************************)
(* For any tx ports, packets, pool and burst size, and for both builds of  *)
(* the copies: the two sides of a mirror's path implement ConfigCell, no   *)
(* buffer is freed while something refers to it, and no buffer of the pool *)
(* of copies is lost.                                                      *)
(***************************************************************************)
EXTENDS Mirror, TLAPS, FiniteSetTheorems

PathsTyped == /\ comp \in PathType
              /\ path \in [Sides -> PathType]
              /\ ref_index \in Sides /\ upd_index \in Sides /\ cur \in Sides
              /\ mpc \in {"idle", "update", "fill", "publish", "wait"}
              /\ spc \in {"out", "load", "check", "copy", "tx1", "crashed"}

(* Outside the wait update_mirror has a side of its own. *)
OwnSide == mpc # "wait" => ref_index # upd_index

(* A burst reads its ports from the referenced side. *)
BurstSide == InBurst => cur = ref_index

(* Where the ports of the component are while they are being installed *)
AcceptedAt == /\ mpc = "idle" => path[ref_index] = comp
              /\ mpc = "publish" => path[upd_index] = comp
              /\ mpc = "wait" => path[1 - upd_index] = comp

Inv == PathsTyped /\ OwnSide /\ BurstSide /\ AcceptedAt

(* A side is the other one's complement. *)
LEMMA OtherSide ==
  ASSUME NEW s \in Sides, NEW t \in Sides
  PROVE  1 - s \in Sides /\ 1 - s # s /\ (s # t => t = 1 - s)
BY DEF Sides

LEMMA EmptyTyped == EmptyPath \in PathType
BY DEF EmptyPath, PathType, TxPorts, MaxTx

(* check_mir_port_count keeps a list within two ports. *)
LEMMA AppendTyped ==
  ASSUME NEW s \in TxPorts, Len(s) < MaxTx, NEW p \in Ports
  PROVE  Append(s, p) \in TxPorts
BY DEF TxPorts, MaxTx

(* delete_port_info leaves a list of ports, one shorter. *)
LEMMA RemoveTyped ==
  ASSUME NEW s \in TxPorts, NEW i \in DOMAIN s
  PROVE  RemoveAt(s, i) \in TxPorts
<1>1. s \in Seq(Ports) /\ Len(s) <= MaxTx BY DEF TxPorts
<1>2. i \in 1 .. Len(s) BY <1>1
<1> DEFINE a == SubSeq(s, 1, i - 1)
           b == SubSeq(s, i + 1, Len(s))
<1>3. a \in Seq(Ports) /\ Len(a) = i - 1 BY <1>1, <1>2
<1>4. b \in Seq(Ports) /\ Len(b) = Len(s) - i BY <1>1, <1>2
<1>5. a \o b \in Seq(Ports) /\ Len(a \o b) = Len(a) + Len(b) BY <1>3, <1>4
<1>6. Len(a \o b) <= MaxTx BY <1>1, <1>2, <1>3, <1>4, <1>5 DEF MaxTx
<1> QED BY <1>5, <1>6 DEF RemoveAt, TxPorts

-----------------------------------------------------------------------------
LEMMA InitInv == Init => Inv
<1> SUFFICES ASSUME Init PROVE Inv OBVIOUS
<1> USE DEF Init
<1>1. PathsTyped BY EmptyTyped DEF PathsTyped, Sides
<1>2. OwnSide /\ BurstSide /\ AcceptedAt
  BY DEF OwnSide, BurstSide, AcceptedAt, InBurst, Sides
<1> QED BY ZenonT(60), <1>1, <1>2 DEF Inv

(* What a port command stores is a component with at most two tx ports. *)
LEMMA CommandStores ==
  ASSUME PathsTyped, Command
  PROVE  \E c \in PathType : Stored(c)
<1> USE DEF PathsTyped, PathType
<1>1. CASE RxAdd BY Zenon, <1>1 DEF RxAdd
<1>2. CASE RxDel BY Zenon, <1>2 DEF RxDel
<1>3. ASSUME NEW p \in Ports, TxAdd(p) PROVE \E c \in PathType : Stored(c)
  <2>1. Append(comp.tx, p) \in TxPorts BY ZenonT(60), <1>3, AppendTyped DEF TxAdd
  <2> QED BY ZenonT(60), <1>3, <2>1 DEF TxAdd
<1>4. ASSUME NEW p \in Ports, TxDel(p) PROVE \E c \in PathType : Stored(c)
  <2>1. PICK i \in DOMAIN comp.tx : Stored([comp EXCEPT !.tx = RemoveAt(@, i)])
    BY <1>4 DEF TxDel
  <2>2. RemoveAt(comp.tx, i) \in TxPorts BY ZenonT(60), <2>1, RemoveTyped
  <2> QED BY ZenonT(60), <2>1, <2>2
<1> QED BY ZenonT(60), <1>1, <1>2, <1>3, <1>4 DEF Command

LEMMA ManagerInv ==
  ASSUME Inv, Command \/ update_mirror
  PROVE  Inv'
<1> USE DEF Inv, PathsTyped, OwnSide, BurstSide, AcceptedAt, InBurst,
            burst, mbufs, sides
<1>1. CASE Command
  <2>1. PICK c \in PathType : Stored(c) BY ZenonT(60), <1>1, CommandStores
  <2> QED BY <2>1 DEF Stored
<1>2. CASE UpdateBegin BY ZenonT(60), <1>2, EmptyTyped DEF UpdateBegin
<1>3. CASE UpdateFill BY <1>3 DEF UpdateFill
<1>4. CASE UpdatePublish
  <2>1. upd_index = 1 - ref_index BY ZenonT(60), <1>4, OtherSide DEF UpdatePublish
  <2> QED BY ZenonT(60), <1>4, <2>1 DEF UpdatePublish
<1>5. CASE UpdateReturn
  <2>1. ref_index = 1 - upd_index BY ZenonT(60), <1>5, OtherSide DEF UpdateReturn
  <2> QED BY ZenonT(60), <1>5, <2>1 DEF UpdateReturn
<1> QED BY ZenonT(60), <1>1, <1>2, <1>3, <1>4, <1>5 DEF update_mirror

(* What mirror_proc does with packets does not touch the sides. *)
Packets == Receive \/ CopyOne \/ TxMirror \/ TxMirrorCrash \/ TxOriginal \/ Device

LEMMA PacketsSides ==
  ASSUME Packets
  PROVE  /\ UNCHANGED <<comp, ref_index, upd_index, path, mpc, cur>>
         /\ \/ UNCHANGED spc
            \/ InBurst /\ spc' \in {"out", "copy", "tx1", "crashed"}
<1> USE DEF sides, burst, mbufs, InBurst
<1>1. CASE Receive BY <1>1 DEF Receive
<1>2. CASE CopyOne BY <1>2 DEF CopyOne
<1>3. CASE TxMirror BY <1>3 DEF TxMirror
<1>4. CASE TxMirrorCrash BY ZenonT(60), <1>4 DEF TxMirrorCrash
<1>5. CASE TxOriginal BY <1>5 DEF TxOriginal
<1>6. CASE Device BY ZenonT(60), <1>6 DEF Device, SentOriginal, SentCopy
<1> QED BY ZenonT(60), <1>1, <1>2, <1>3, <1>4, <1>5, <1>6 DEF Packets

LEMMA WorkerInv ==
  ASSUME Inv, change_mirror_index \/ LoadPath \/ NotReady \/ Packets
  PROVE  Inv'
<1> USE DEF Inv, PathsTyped, OwnSide, BurstSide, AcceptedAt, InBurst,
            burst, mbufs, sides
<1>1. CASE change_mirror_index
  <2>1. 1 - upd_index \in Sides /\ 1 - upd_index # upd_index BY ZenonT(60), OtherSide
  <2> QED BY ZenonT(60), <1>1, <2>1 DEF change_mirror_index
<1>2. CASE LoadPath BY ZenonT(60), <1>2 DEF LoadPath
<1>3. CASE NotReady BY ZenonT(60), <1>3 DEF NotReady
<1>4. CASE Packets BY ZenonT(60), <1>4, PacketsSides
<1> QED BY ZenonT(60), <1>1, <1>2, <1>3, <1>4

LEMMA StepCases ==
  ASSUME [Next]_vars
  PROVE  \/ Command \/ update_mirror
         \/ change_mirror_index \/ LoadPath \/ NotReady \/ Packets
         \/ UNCHANGED vars
BY DEF Next, mirror_proc, Packets

LEMMA StepInv == Inv /\ [Next]_vars => Inv'
<1> SUFFICES ASSUME Inv, [Next]_vars PROVE Inv' OBVIOUS
<1>1. CASE UNCHANGED vars
  BY <1>1 DEF vars, Inv, PathsTyped, OwnSide, BurstSide, AcceptedAt, InBurst
<1> QED BY ZenonT(60), <1>1, StepCases, ManagerInv, WorkerInv

LEMMA SpecInv == Spec => []Inv
BY InitInv, StepInv, PTL DEF Spec

-----------------------------------------------------------------------------
LEMMA NoPathNotPath == NoPath \notin PathType
BY DEF NoPath, PathType

LEMMA CellInit == Init => Cell!Init
BY ZenonT(60), EmptyTyped DEF Init, Cell!Init, InBurst, Sides

(* A command is a request, update_mirror's last step the return. *)
LEMMA ManagerCell ==
  ASSUME Inv, Command \/ update_mirror
  PROVE  Cell!Next \/ UNCHANGED Cell!vars
<1> USE DEF Inv, PathsTyped, OwnSide, BurstSide, InBurst, Cell!vars,
            burst, mbufs, sides
<1>1. CASE Command
  <2>1. PICK c \in PathType : Stored(c) BY ZenonT(60), <1>1, CommandStores
  <2>2. Cell!Request BY ZenonT(60), <2>1 DEF Stored, Cell!Request
  <2> QED BY ZenonT(60), <2>2 DEF Cell!Next
<1>2. CASE UpdateBegin
  <2>1. path'[ref_index] = path[ref_index] BY <1>2 DEF UpdateBegin
  <2> QED BY ZenonT(60), <1>2, <2>1 DEF UpdateBegin
<1>3. CASE UpdateFill
  <2>1. path'[ref_index] = path[ref_index] BY ZenonT(60), <1>3 DEF UpdateFill
  <2> QED BY ZenonT(60), <1>3, <2>1 DEF UpdateFill
<1>4. CASE UpdatePublish BY <1>4 DEF UpdatePublish
<1>5. CASE UpdateReturn
  <2>1. Cell!Return BY ZenonT(60), <1>5 DEF UpdateReturn, Cell!Return
  <2> QED BY ZenonT(60), <2>1 DEF Cell!Next
<1> QED BY ZenonT(60), <1>1, <1>2, <1>3, <1>4, <1>5 DEF update_mirror

(* The exchange of the sides applies the request; a burst lasts from the    *)
(* load of the side to the last use of its ports.                           *)
LEMMA WorkerCell ==
  ASSUME Inv, change_mirror_index \/ LoadPath \/ NotReady \/ Packets
  PROVE  Cell!Next \/ UNCHANGED Cell!vars
<1> USE DEF Inv, PathsTyped, OwnSide, BurstSide, AcceptedAt, InBurst, Cell!vars,
            burst, mbufs, sides
<1>1. CASE change_mirror_index
  <2>1. 1 - upd_index # upd_index BY OtherSide
  <2>2. CASE ref_index = upd_index
    <3>1. Cell!Apply BY ZenonT(60), <1>1, <2>1, <2>2 DEF change_mirror_index, Cell!Apply
    <3> QED BY ZenonT(60), <3>1 DEF Cell!Next
  <2>3. CASE ref_index # upd_index BY ZenonT(60), <1>1, <2>3 DEF change_mirror_index
  <2> QED BY ZenonT(60), <2>2, <2>3
<1>2. CASE LoadPath
  <2>1. Cell!BeginBurst BY <1>2 DEF LoadPath, Cell!BeginBurst
  <2> QED BY <2>1 DEF Cell!Next
<1>3. CASE NotReady
  <2>1. Cell!EndBurst BY ZenonT(60), <1>3, NoPathNotPath DEF NotReady, Cell!EndBurst
  <2> QED BY <2>1 DEF Cell!Next
<1>4. CASE Packets
  <2>1. CASE InBurst /\ spc' \in {"out", "crashed"}
    <3>1. Cell!EndBurst BY ZenonT(60), <1>4, <2>1, PacketsSides, NoPathNotPath DEF Cell!EndBurst
    <3> QED BY <3>1 DEF Cell!Next
  <2>2. CASE ~(InBurst /\ spc' \in {"out", "crashed"})
    BY ZenonT(60), <1>4, <2>2, PacketsSides
  <2> QED BY ZenonT(60), <2>1, <2>2
<1> QED BY ZenonT(60), <1>1, <1>2, <1>3, <1>4

LEMMA CellStep == Inv /\ [Next]_vars => [Cell!Next]_(Cell!vars)
<1> SUFFICES ASSUME Inv, [Next]_vars
             PROVE  Cell!Next \/ UNCHANGED Cell!vars
  OBVIOUS
<1>1. CASE UNCHANGED vars BY <1>1 DEF vars, Cell!vars, InBurst
<1> QED BY ZenonT(60), <1>1, StepCases, ManagerCell, WorkerCell

(* A port command on a mirror takes effect as a whole between two bursts,   *)
(* and both copies of a burst go to the two tx ports of one configuration.  *)
THEOREM MirrorImplementsCell == Spec => ImplementsCell
BY SpecInv, CellInit, CellStep, PTL DEF Spec, ImplementsCell, Cell!Spec

-----------------------------------------------------------------------------
(* The buffers.  No packet is twice in a burst, so that a count of a        *)
(* packet's places in it is 0 or 1.                                         *)

Busy == spc \in {"copy", "tx1", "crashed"}

MbufsTyped == /\ bufs \in Seq(Pkts) /\ IsInjective(bufs)
              /\ copies \in Seq(BOOLEAN) /\ Len(copies) <= Len(bufs)
              /\ nb_tx2 \in 0 .. Len(bufs)
              /\ refcnt \in [Pkts -> Int]
              /\ txq1 \subseteq Pkts /\ txq2 \in [Pkts -> Nat]
              /\ pool \in Nat

(* mirror_proc holds packets only in a burst; all copies have been tried    *)
(* for, and those that were sent exist, when the originals are sent.        *)
BurstHeld == /\ ~Busy => bufs = <<>> /\ copies = <<>>
             /\ spc = "tx1" => /\ Len(copies) = Len(bufs)
                               /\ \A n \in 1 .. nb_tx2 : copies[n]

MbufInv == MbufsTyped /\ BurstHeld /\ NotFreedEarly

LEMMA AtMostOne ==
  ASSUME NEW S, \A m, n \in S : m = n
  PROVE  Cardinality(S) = IF S = {} THEN 0 ELSE 1
<1>1. CASE S = {} BY ZenonT(60), <1>1, FS_EmptySet
<1>2. CASE S # {}
  <2>1. PICK x \in S : S = {x} BY <1>2
  <2>2. Cardinality({x}) = 1 BY FS_Singleton
  <2> QED BY ZenonT(60), <1>2, <2>1, <2>2
<1> QED BY ZenonT(60), <1>1, <1>2

(* Counting up one buffer keeps the counts integers.                        *)
LEMMA CountUp ==
  ASSUME NEW f \in [Pkts -> Int], NEW b \in Pkts
  PROVE  [f EXCEPT ![b] = @ + 1] \in [Pkts -> Int]
OBVIOUS

(* A burst without repetition has a buffer not at two places.               *)
LEMMA BeforeOther ==
  ASSUME NEW s \in Seq(Pkts), IsInjective(s), NEW k \in 1 .. Len(s)
  PROVE  \A n \in 1 .. k - 1 : s[n] # s[k]
BY DEF IsInjective

(* The arithmetic of a transmission: t and u say whether the device has the *)
(* buffer before and after, i whether it is in the burst, d whether it is   *)
(* given back, c whether its copy is; a counts the copies sent.             *)
LEMMA Balance ==
  ASSUME NEW r \in Int, NEW i \in {0, 1}, NEW t \in {0, 1}, NEW u \in {0, 1},
         NEW d \in {0, 1}, NEW c \in {0, 1}, NEW a \in Nat,
         r >= i + t + (a + c), d <= i, t = 1 => u = 1, t = 0 /\ u = 1 => i = 1 /\ d = 0
  PROVE  r - (d + c) >= u + a
OBVIOUS

(* How often a buffer occurs in a burst without repetition.                 *)
LEMMA InCount ==
  ASSUME NEW s \in Seq(Pkts), IsInjective(s), NEW b
  PROVE  In(s, b) = IF \E n \in 1 .. Len(s) : s[n] = b THEN 1 ELSE 0
<1> DEFINE S == {n \in 1 .. Len(s) : s[n] = b}
<1>1. \A m, n \in S : m = n BY DEF IsInjective
<1>2. Cardinality(S) = IF S = {} THEN 0 ELSE 1 BY ZenonT(60), <1>1, AtMostOne
<1> QED BY <1>2 DEF In

LEMMA MadeCount ==
  ASSUME NEW s \in Seq(Pkts), IsInjective(s), NEW c,
         NEW from \in Nat \ {0}, NEW to \in Nat, to <= Len(s), NEW b
  PROVE  Cardinality({n \in from .. to : s[n] = b /\ c[n]})
           = IF \E n \in from .. to : s[n] = b /\ c[n] THEN 1 ELSE 0
<1> DEFINE S == {n \in from .. to : s[n] = b /\ c[n]}
<1>1. \A m, n \in S : m \in DOMAIN s /\ n \in DOMAIN s OBVIOUS
<1>2. \A m, n \in S : m = n BY <1>1 DEF IsInjective
<1>3. Cardinality(S) = IF S = {} THEN 0 ELSE 1 BY ZenonT(60), <1>2, AtMostOne
<1> QED BY <1>3

(* The first copy that has not been sent *)
Unsent == IF spc = "tx1" THEN nb_tx2 + 1 ELSE 1

LEMMA HeldCount ==
  ASSUME MbufsTyped, NEW b
  PROVE  Held(b) = IF \E n \in Unsent .. Len(copies) : bufs[n] = b /\ copies[n]
                   THEN 1 ELSE 0
<1>1. PICK from, to : from = Unsent /\ to = Len(copies) BY Zenon
<1>2. PICK s, c : s = bufs /\ c = copies BY Zenon
<1>3. from \in Nat \ {0} /\ to \in Nat /\ to <= Len(s) /\ s \in Seq(Pkts)
  BY <1>1, <1>2 DEF Unsent, MbufsTyped
<1>4. IsInjective(s) BY <1>2 DEF MbufsTyped
<1>5. Held(b) = Cardinality({n \in from .. to : s[n] = b /\ c[n]})
  BY ZenonT(60), <1>1, <1>2 DEF Held, Made, Unsent
<1>6. Cardinality({n \in from .. to : s[n] = b /\ c[n]})
        = IF \E n \in from .. to : s[n] = b /\ c[n] THEN 1 ELSE 0
  BY ZenonT(60), <1>3, <1>4, MadeCount
<1> QED BY ZenonT(60), <1>1, <1>2, <1>5, <1>6

LEMMA HeldCountNext ==
  ASSUME MbufsTyped', NEW b
  PROVE  Held(b)' = IF \E n \in Unsent' .. Len(copies') : bufs'[n] = b /\ copies'[n]
                    THEN 1 ELSE 0
<1>1. PICK from, to : from = Unsent' /\ to = Len(copies') BY ZenonT(60)
<1>2. PICK s, c : s = bufs' /\ c = copies' BY ZenonT(60)
<1>3. from \in Nat \ {0} /\ to \in Nat /\ to <= Len(s) /\ s \in Seq(Pkts)
  <2>1. /\ s \in Seq(Pkts) /\ c \in Seq(BOOLEAN) /\ Len(c) <= Len(s)
        /\ nb_tx2' \in 0 .. Len(s)
    BY <1>2 DEF MbufsTyped
  <2>2. from = nb_tx2' + 1 \/ from = 1 BY ZenonT(60), <1>1 DEF Unsent
  <2> QED BY <1>1, <1>2, <2>1, <2>2
<1>4. IsInjective(s) BY <1>2 DEF MbufsTyped
<1>5. Held(b)' = Cardinality({n \in from .. to : s[n] = b /\ c[n]})
  BY ZenonT(60), <1>1, <1>2 DEF Held, Made, Unsent
<1>6. Cardinality({n \in from .. to : s[n] = b /\ c[n]})
        = IF \E n \in from .. to : s[n] = b /\ c[n] THEN 1 ELSE 0
  BY ZenonT(60), <1>3, <1>4, MadeCount
<1> QED BY ZenonT(60), <1>1, <1>2, <1>5, <1>6

LEMMA SetToSeqOf ==
  ASSUME NEW B, IsFiniteSet(B)
  PROVE  SetToSeq(B) \in Seq(B) /\ IsInjective(SetToSeq(B))
<1>1. Cardinality(B) \in Nat /\ ExistsBijection(1 .. Cardinality(B), B)
  BY FS_CardinalityType
<1>2. PICK f \in [1 .. Cardinality(B) -> B] : IsInjective(f)
  BY <1>1 DEF ExistsBijection, Bijection, Injection
<1>3. SetToSeq(B) \in [1 .. Cardinality(B) -> B] /\ IsInjective(SetToSeq(B))
  BY Zenon, <1>2 DEF SetToSeq
<1> QED BY <1>1, <1>3

(* Counts are 0 or 1. *)
LEMMA Bits ==
  ASSUME MbufsTyped, NEW b
  PROVE  Held(b) \in {0, 1} /\ In(bufs, b) \in {0, 1}
<1>1. Held(b) \in {0, 1} BY HeldCount
<1>2. In(bufs, b) \in {0, 1} BY InCount DEF MbufsTyped
<1> QED BY ZenonT(60), <1>1, <1>2

LEMMA InitMbufs == Init => MbufInv
<1> SUFFICES ASSUME Init PROVE MbufInv OBVIOUS
<1>1. MbufsTyped BY MirrorAssumption DEF Init, MbufsTyped, IsInjective
<1>2. BurstHeld BY DEF Init, BurstHeld, Busy
<1>3. ASSUME NEW b \in Pkts PROVE refcnt[b] >= Holders(b)
  <2>1. Held(b) = 0 BY <1>1, HeldCount DEF Init, Unsent
  <2>2. In(bufs, b) = 0
    <3>1. In(bufs, b) = IF \E n \in 1 .. Len(bufs) : bufs[n] = b THEN 1 ELSE 0
      BY ZenonT(60), <1>1, InCount DEF MbufsTyped
    <3> QED BY <3>1 DEF Init
  <2> QED BY <2>1, <2>2 DEF Init, Holders
<1> QED BY ZenonT(60), <1>1, <1>2, <1>3 DEF MbufInv, NotFreedEarly

(* The position of mirror_proc matters only while it holds packets. *)
LEMMA MbufsKept ==
  ASSUME MbufInv, UNCHANGED <<burst, mbufs>>, spc = "tx1" <=> spc' = "tx1", Busy => Busy'
  PROVE  MbufInv' /\ \A b : Held(b)' = Held(b)
<1> USE DEF burst, mbufs
<1>1. MbufsTyped' BY DEF MbufInv, MbufsTyped
<1>2. BurstHeld' BY DEF MbufInv, BurstHeld
<1>3. \A b : Held(b)' = Held(b) BY Zenon DEF Held, Made
<1>4. \A b \in Pkts : Holders(b)' = Holders(b) BY <1>3 DEF Holders, In
<1> QED BY ZenonT(60), <1>1, <1>2, <1>3, <1>4 DEF MbufInv, NotFreedEarly

(* A received buffer had no reference; a burst has each buffer once. *)
LEMMA ReceiveMbufs ==
  ASSUME MbufInv, Receive
  PROVE  MbufInv' /\ \A b : Held(b)' = 0 /\ Held(b) = 0
<1>1. PICK B \in SUBSET {b \in Pkts : refcnt[b] = 0} :
        /\ bufs' = SetToSeq(B)
        /\ refcnt' = [b \in Pkts |-> IF b \in B THEN 1 ELSE refcnt[b]]
        /\ spc' = IF B = {} THEN "out" ELSE "copy"
  BY Zenon DEF Receive
<1>2. copies' = <<>> /\ UNCHANGED <<nb_tx2, txq1, txq2, pool>> BY DEF Receive
<1>3. bufs = <<>> /\ copies = <<>> /\ spc = "check"
  BY DEF MbufInv, BurstHeld, Busy, Receive
<1>4. IsFiniteSet(B) BY ZenonT(60), MirrorAssumption, FS_Subset
<1>5. bufs' \in Seq(B) /\ IsInjective(bufs') BY ZenonT(60), <1>1, <1>4, SetToSeqOf
<1>6. MbufsTyped'
  <2>1. bufs' \in Seq(Pkts) BY <1>5
  <2>2. nb_tx2 = 0 BY <1>3 DEF MbufInv, MbufsTyped
  <2>3. refcnt' \in [Pkts -> Int] BY <1>1 DEF MbufInv, MbufsTyped
  <2> QED BY SMTT(30), <1>2, <1>5, <2>1, <2>2, <2>3 DEF MbufInv, MbufsTyped
<1>7. BurstHeld'
  <2>1. B = {} => bufs' = <<>> BY <1>5
  <2> QED BY ZenonT(60), <1>1, <1>2, <2>1 DEF BurstHeld, Busy
<1>8. \A b : Held(b)' = 0
  BY <1>2, <1>6, HeldCountNext DEF Unsent, MbufsTyped
<1>9. \A b : Held(b) = 0
  BY <1>3, HeldCount DEF MbufInv, Unsent
<1>10. ASSUME NEW b \in Pkts PROVE (refcnt[b] >= Holders(b))'
  <2>1. In(bufs', b) \in {0, 1} /\ (b \notin B => In(bufs', b) = 0)
    BY <1>5, <1>6, InCount DEF MbufsTyped
  <2>2. Held(b)' = 0 /\ Held(b) = 0 BY ZenonT(60), <1>8, <1>9
  <2>3. In(bufs, b) \in {0, 1} BY Bits DEF MbufInv
  <2>4. refcnt[b] >= Holders(b) BY DEF MbufInv, NotFreedEarly
  <2>5. refcnt[b] \in Int /\ txq2[b] \in Nat BY DEF MbufInv, MbufsTyped
  <2>6. Holders(b)' = In(bufs', b) + (IF b \in txq1 THEN 1 ELSE 0) +
                      (IF Shallow THEN txq2[b] + Held(b)' ELSE 0)
    BY <1>2 DEF Holders
  <2>7. refcnt'[b] = IF b \in B THEN 1 ELSE refcnt[b] BY <1>1
  <2>8. b \in B => refcnt[b] = 0 BY <1>1
  <2> HIDE DEF In, Held
  <2> QED BY SMTT(30), <2>1, <2>2, <2>3, <2>4, <2>5, <2>6, <2>7, <2>8 DEF Holders
<1> QED BY ZenonT(60), <1>6, <1>7, <1>8, <1>9, <1>10 DEF MbufInv, NotFreedEarly

(* CopyOne: the buffer that is copied gets the reference that its copy has. *)
LEMMA CopyMbufs ==
  ASSUME MbufInv, CopyOne
  PROVE  /\ MbufInv'
         /\ \E b \in Pkts, made \in {0, 1} :
              /\ Held(b) = 0 /\ Held(b)' = made
              /\ \A c : c # b => Held(c)' = Held(c)
              /\ pool' = pool - made /\ UNCHANGED txq2
<1>1. PICK k, b, made : /\ k = Len(copies) + 1 /\ b = bufs[k] /\ made = (pool > 0)
  BY Zenon
<1>2. /\ spc = "copy" /\ Len(copies) < Len(bufs)
      /\ copies' = Append(copies, made)
      /\ pool' = IF made THEN pool - 1 ELSE pool
      /\ refcnt' = IF made /\ Shallow THEN [refcnt EXCEPT ![b] = @ + 1] ELSE refcnt
      /\ UNCHANGED <<spc, bufs, nb_tx2, txq1, txq2>>
  BY ZenonT(60), <1>1 DEF CopyOne
<1>3. MbufsTyped BY DEF MbufInv
<1>4. k \in 1 .. Len(bufs) /\ b \in Pkts /\ made \in BOOLEAN /\ pool \in Nat
  BY <1>1, <1>2, <1>3 DEF MbufsTyped
<1>5. /\ copies' \in Seq(BOOLEAN) /\ Len(copies') = k /\ copies'[k] = made
      /\ \A n \in 1 .. k - 1 : copies'[n] = copies[n]
  BY <1>1, <1>2, <1>3, <1>4 DEF MbufsTyped
<1>6. MbufsTyped'
  <2>1. refcnt' \in [Pkts -> Int]
    <3>1. refcnt \in [Pkts -> Int] BY ZenonT(60), <1>3 DEF MbufsTyped
    <3> QED BY ZenonT(60), <1>2, <1>4, <3>1, CountUp
  <2>2. pool' \in Nat
    <3>1. made => pool > 0 BY ZenonT(60), <1>1
    <3> QED BY <1>2, <1>4, <3>1
  <2> QED BY <1>2, <1>3, <1>4, <1>5, <2>1, <2>2 DEF MbufsTyped
<1>7. BurstHeld' BY <1>2 DEF BurstHeld, Busy
<1>8. \A c : Held(c) = IF \E n \in 1 .. k - 1 : bufs[n] = c /\ copies[n] THEN 1 ELSE 0
  <2>1. Unsent = 1 /\ Len(copies) = k - 1 BY <1>1, <1>2, <1>3 DEF Unsent, MbufsTyped
  <2> QED BY ZenonT(60), <1>3, <2>1, HeldCount
<1>9. \A c : Held(c)' = IF \E n \in 1 .. k : bufs[n] = c /\ copies'[n] THEN 1 ELSE 0
  <2>1. Unsent' = 1 /\ Len(copies') = k /\ bufs' = bufs BY ZenonT(60), <1>2, <1>5 DEF Unsent
  <2> QED BY ZenonT(60), <1>6, <2>1, HeldCountNext
<1>10. \A n \in 1 .. k - 1 : bufs[n] # b
  <2>1. bufs \in Seq(Pkts) /\ IsInjective(bufs) BY ZenonT(60), <1>3 DEF MbufsTyped
  <2> QED BY ZenonT(60), <1>1, <1>4, <2>1, BeforeOther
<1>11. Held(b) = 0 BY <1>8, <1>10
<1>12. Held(b)' = IF made THEN 1 ELSE 0
  BY <1>1, <1>4, <1>5, <1>9, <1>10
<1>13. \A c : c # b => Held(c)' = Held(c)
  <2> SUFFICES ASSUME NEW c, c # b PROVE Held(c)' = Held(c) BY Zenon
  <2>1. (\E n \in 1 .. k : bufs[n] = c /\ copies'[n])
          <=> (\E n \in 1 .. k - 1 : bufs[n] = c /\ copies[n])
    BY <1>1, <1>4, <1>5
  <2> QED BY ZenonT(60), <1>8, <1>9, <2>1
<1>14. ASSUME NEW c \in Pkts PROVE (refcnt[c] >= Holders(c))'
  <2>1. refcnt[c] >= Holders(c) BY DEF MbufInv, NotFreedEarly
  <2>2. Held(c) \in {0, 1} /\ Held(c)' \in {0, 1} BY ZenonT(60), <1>8, <1>9
  <2>3. In(bufs, c) \in {0, 1} BY ZenonT(60), <1>3, Bits
  <2>4. refcnt[c] \in Int /\ txq2[c] \in Nat BY ZenonT(60), <1>3 DEF MbufsTyped
  <2>5. Holders(c)' = In(bufs, c) + (IF c \in txq1 THEN 1 ELSE 0) +
                      (IF Shallow THEN txq2[c] + Held(c)' ELSE 0)
    BY ZenonT(60), <1>2 DEF Holders, In
  <2>6. refcnt'[c] = IF c = b /\ made /\ Shallow THEN refcnt[c] + 1 ELSE refcnt[c]
    BY ZenonT(60), <1>2, <1>3, <1>4 DEF MbufsTyped
  <2>7. c = b => Held(c) = 0 /\ Held(c)' = IF made THEN 1 ELSE 0 BY <1>11, <1>12
  <2>8. c # b => Held(c)' = Held(c) BY <1>13
  <2> QED BY SMTT(30), <1>4, <2>1, <2>2, <2>3, <2>4, <2>5, <2>6, <2>7, <2>8 DEF Holders
<1>15. pool' = pool - (IF made THEN 1 ELSE 0) BY <1>2, <1>4
<1>16. PICK m \in {0, 1} : m = IF made THEN 1 ELSE 0 BY ZenonT(60), <1>4
<1>17. MbufInv' BY ZenonT(60), <1>6, <1>7, <1>14 DEF MbufInv, NotFreedEarly
<1> QED BY ZenonT(60), <1>2, <1>4, <1>11, <1>12, <1>13, <1>15, <1>16, <1>17

(* TxMirror: what the mirror port takes is held by its device afterwards. *)
LEMMA TxMirrorMbufs ==
  ASSUME MbufInv, TxMirror
  PROVE  /\ MbufInv' /\ UNCHANGED pool
         /\ \A b \in Pkts : txq2'[b] + Held(b)' = txq2[b] + Held(b)
<1>1. PICK k \in 0 .. Len(bufs) :
        /\ \A n \in 1 .. k : copies[n]
        /\ nb_tx2' = k
        /\ txq2' = [b \in Pkts |-> txq2[b] + Made(1, k, b)]
  BY Zenon DEF TxMirror
<1>2. /\ spc = "copy" /\ spc' = "tx1" /\ Len(copies) = Len(bufs)
      /\ UNCHANGED <<bufs, copies, refcnt, txq1, pool>>
  BY DEF TxMirror
<1>3. MbufsTyped BY DEF MbufInv
<1>4. k \in Nat /\ k <= Len(bufs) /\ bufs \in Seq(Pkts) /\ IsInjective(bufs)
  BY <1>1, <1>3 DEF MbufsTyped
<1>5. \A b : Made(1, k, b) = IF \E n \in 1 .. k : bufs[n] = b /\ copies[n] THEN 1 ELSE 0
  <2> SUFFICES ASSUME NEW b
               PROVE  Made(1, k, b)
                        = IF \E n \in 1 .. k : bufs[n] = b /\ copies[n] THEN 1 ELSE 0
    BY Zenon
  <2>1. PICK s, c, from : s = bufs /\ c = copies /\ from = 1 BY ZenonT(60)
  <2>2. from \in Nat \ {0} /\ k \in Nat /\ k <= Len(s) /\ s \in Seq(Pkts) BY <1>4, <2>1
  <2>3. IsInjective(s) BY ZenonT(60), <1>4, <2>1
  <2>4. Cardinality({n \in from .. k : s[n] = b /\ c[n]})
          = IF \E n \in from .. k : s[n] = b /\ c[n] THEN 1 ELSE 0
    BY ZenonT(60), <2>2, <2>3, MadeCount
  <2> QED BY ZenonT(60), <2>1, <2>4 DEF Made
<1>6. MbufsTyped'
  <2>0. \A b : Made(1, k, b) \in {0, 1} BY <1>5
  <2>1. ASSUME NEW b \in Pkts PROVE txq2[b] + Made(1, k, b) \in Nat
    <3>1. txq2[b] \in Nat /\ Made(1, k, b) \in {0, 1} BY ZenonT(60), <1>3, <2>0 DEF MbufsTyped
    <3> QED BY <3>1
  <2>2. txq2' \in [Pkts -> Nat] BY ZenonT(60), <1>1, <2>1
  <2> QED BY ZenonT(60), <1>1, <1>2, <1>3, <2>2 DEF MbufsTyped
<1>7. BurstHeld' BY ZenonT(60), <1>1, <1>2 DEF BurstHeld, Busy
<1>8. \A b : Held(b) = IF \E n \in 1 .. Len(bufs) : bufs[n] = b /\ copies[n] THEN 1 ELSE 0
  <2>1. Unsent = 1 BY ZenonT(60), <1>2 DEF Unsent
  <2> QED BY ZenonT(60), <1>2, <1>3, <2>1, HeldCount
<1>9. \A b : Held(b)' = IF \E n \in k + 1 .. Len(bufs) : bufs[n] = b /\ copies[n]
                        THEN 1 ELSE 0
  <2>1. Unsent' = k + 1 /\ Len(copies') = Len(bufs) /\ bufs' = bufs /\ copies' = copies
    BY ZenonT(60), <1>1, <1>2 DEF Unsent
  <2> QED BY ZenonT(60), <1>6, <2>1, HeldCountNext
<1>10. ASSUME NEW b \in Pkts PROVE txq2'[b] + Held(b)' = txq2[b] + Held(b)
  <2>1. txq2'[b] = txq2[b] + Made(1, k, b) /\ txq2[b] \in Nat
    BY ZenonT(60), <1>1, <1>3 DEF MbufsTyped
  <2>2. Held(b) = Made(1, k, b) + Held(b)'
    <3> DEFINE at(m) == bufs[m] = b /\ copies[m]
    <3>1. \A m, n \in 1 .. Len(bufs) : at(m) /\ at(n) => m = n
      BY <1>4 DEF IsInjective
    <3>2. (\E n \in 1 .. Len(bufs) : at(n))
            <=> (\E n \in 1 .. k : at(n)) \/ (\E n \in k + 1 .. Len(bufs) : at(n))
      BY <1>4
    <3>3. ~((\E n \in 1 .. k : at(n)) /\ (\E n \in k + 1 .. Len(bufs) : at(n)))
      BY <1>4, <3>1
    <3>4. /\ Made(1, k, b) = IF \E n \in 1 .. k : at(n) THEN 1 ELSE 0
          /\ Held(b) = IF \E n \in 1 .. Len(bufs) : at(n) THEN 1 ELSE 0
          /\ Held(b)' = IF \E n \in k + 1 .. Len(bufs) : at(n) THEN 1 ELSE 0
      BY ZenonT(60), <1>5, <1>8, <1>9
    <3> HIDE DEF at
    <3> QED BY <3>2, <3>3, <3>4
  <2>3. Made(1, k, b) \in {0, 1} /\ Held(b)' \in {0, 1} BY ZenonT(60), <1>5, <1>9
  <2> QED BY <2>1, <2>2, <2>3
<1>11. ASSUME NEW b \in Pkts PROVE Holders(b)' = Holders(b)
  <2>1. In(bufs', b) = In(bufs, b) BY ZenonT(60), <1>2
  <2> QED BY ZenonT(60), <1>2, <1>10, <2>1 DEF Holders
<1>12. NotFreedEarly' BY ZenonT(60), <1>2, <1>11 DEF MbufInv, NotFreedEarly
<1> QED BY ZenonT(60), <1>2, <1>6, <1>7, <1>10, <1>12 DEF MbufInv

(* TxOriginal: an original is freed only behind both counts, and one that   *)
(* the first port took is held by its device.                               *)
LEMMA TxOriginalMbufs ==
  ASSUME MbufInv, TxOriginal
  PROVE  /\ MbufInv' /\ UNCHANGED txq2 /\ \A b : Held(b)' = 0
         /\ spc = "tx1" /\ pool' = pool + FreedCopies(nb_tx2 + 1)
<1>1. PICK j \in 0 .. Len(bufs), nb \in Int :
        /\ nb = IF j < nb_tx2 THEN nb_tx2 ELSE j
        /\ txq1' = txq1 \union {bufs[n] : n \in 1 .. j}
        /\ refcnt' = [b \in Pkts |-> refcnt[b] - Discard(b, nb + 1, nb_tx2 + 1)]
  <2>1. PICK j \in 0 .. Len(bufs) :
          LET nb_tx == IF j < nb_tx2 THEN nb_tx2 ELSE j
          IN /\ txq1' = txq1 \union {bufs[n] : n \in 1 .. j}
             /\ refcnt' = [b \in Pkts |-> refcnt[b] - Discard(b, nb_tx + 1, nb_tx2 + 1)]
    BY Zenon DEF TxOriginal
  <2>2. PICK nb : nb = IF j < nb_tx2 THEN nb_tx2 ELSE j BY Zenon
  <2>3. nb \in Int BY <2>2 DEF MbufInv, MbufsTyped
  <2> QED BY ZenonT(60), <2>1, <2>2, <2>3
<1>2. /\ spc = "tx1" /\ spc' = "out" /\ bufs' = <<>> /\ copies' = <<>> /\ nb_tx2' = 0
      /\ pool' = pool + FreedCopies(nb_tx2 + 1) /\ UNCHANGED txq2
  BY DEF TxOriginal
<1>3. MbufsTyped /\ Len(copies) = Len(bufs) BY ZenonT(60), <1>2 DEF MbufInv, BurstHeld
<1>4. /\ nb \in Nat /\ j \in Nat /\ nb_tx2 \in Nat /\ Len(bufs) \in Nat
      /\ j <= nb /\ nb_tx2 <= nb /\ nb <= Len(bufs)
      /\ bufs \in Seq(Pkts) /\ IsInjective(bufs)
  BY <1>1, <1>3 DEF MbufsTyped
<1>5. FreedCopies(nb_tx2 + 1) \in Nat
  <2>1. IsFiniteSet(nb_tx2 + 1 .. Len(bufs)) BY <1>4, FS_Interval
  <2>2. IsFiniteSet({n \in nb_tx2 + 1 .. Len(bufs) : copies[n]}) BY ZenonT(60), <2>1, FS_Subset
  <2> QED BY ZenonT(60), <2>2, FS_CardinalityType DEF FreedCopies
<1>6. \A b : In(SubSeq(bufs, nb + 1, Len(bufs)), b)
               = IF \E n \in nb + 1 .. Len(bufs) : bufs[n] = b THEN 1 ELSE 0
  <2> SUFFICES ASSUME NEW b
               PROVE  In(SubSeq(bufs, nb + 1, Len(bufs)), b)
                        = IF \E n \in nb + 1 .. Len(bufs) : bufs[n] = b THEN 1 ELSE 0
    BY Zenon
  <2>1. PICK t : t = SubSeq(bufs, nb + 1, Len(bufs)) BY Zenon
  <2>2. /\ t \in Seq(Pkts) /\ Len(t) = Len(bufs) - nb
        /\ \A i \in 1 .. Len(bufs) - nb : t[i] = bufs[i + nb]
    BY <1>4, <2>1
  <2>3. IsInjective(t)
    <3>1. \A m, n \in 1 .. Len(bufs) : bufs[m] = bufs[n] => m = n
      BY <1>4 DEF IsInjective
    <3>2. ASSUME NEW m \in 1 .. Len(bufs) - nb, NEW n \in 1 .. Len(bufs) - nb,
                 t[m] = t[n]
          PROVE  m = n
      <4>1. m + nb \in 1 .. Len(bufs) /\ n + nb \in 1 .. Len(bufs) BY <1>4
      <4>2. m + nb = n + nb BY ZenonT(60), <2>2, <3>1, <3>2, <4>1
      <4> QED BY <1>4, <4>2
    <3> QED BY <2>2, <3>2 DEF IsInjective
  <2>4. In(t, b) = IF \E n \in 1 .. Len(t) : t[n] = b THEN 1 ELSE 0
    BY ZenonT(60), <2>2, <2>3, InCount
  <2>5. (\E n \in 1 .. Len(t) : t[n] = b) <=> \E n \in nb + 1 .. Len(bufs) : bufs[n] = b
    <3>1. ASSUME NEW n \in 1 .. Len(t), t[n] = b
          PROVE  \E m \in nb + 1 .. Len(bufs) : bufs[m] = b
      <4>1. n + nb \in nb + 1 .. Len(bufs) /\ bufs[n + nb] = b BY SMTT(30), <1>4, <2>2, <3>1
      <4> QED BY ZenonT(60), <4>1
    <3>2. ASSUME NEW n \in nb + 1 .. Len(bufs), bufs[n] = b
          PROVE  \E m \in 1 .. Len(t) : t[m] = b
      <4>1. n - nb \in 1 .. Len(t) /\ t[n - nb] = b BY <1>4, <2>2, <3>2
      <4> QED BY ZenonT(60), <4>1
    <3> QED BY ZenonT(60), <3>1, <3>2
  <2> QED BY ZenonT(60), <2>1, <2>4, <2>5
<1>7. \A b \in Pkts : refcnt'[b] = refcnt[b] - (In(SubSeq(bufs, nb + 1, Len(bufs)), b) +
                                     (IF Shallow THEN Held(b) ELSE 0))
  BY ZenonT(60), <1>1, <1>2, <1>3 DEF Discard, Held
<1>8. MbufsTyped'
  <2>1. \A b : Held(b) \in {0, 1} /\ In(SubSeq(bufs, nb + 1, Len(bufs)), b) \in {0, 1}
    BY ZenonT(60), <1>3, <1>6, Bits
  <2>2. ASSUME NEW b \in Pkts PROVE refcnt'[b] \in Int
    <3>1. /\ Held(b) \in {0, 1} /\ refcnt[b] \in Int
          /\ In(SubSeq(bufs, nb + 1, Len(bufs)), b) \in {0, 1}
      BY ZenonT(60), <1>3, <2>1 DEF MbufsTyped
    <3> QED BY <1>7, <3>1
  <2>3. refcnt' \in [Pkts -> Int] BY ZenonT(60), <1>1, <2>2
  <2>4. txq1' \subseteq Pkts BY SMTT(30), <1>1, <1>3, <1>4 DEF MbufsTyped
  <2>5. pool' \in Nat BY <1>2, <1>3, <1>5 DEF MbufsTyped
  <2>6. IsInjective(bufs') BY <1>2 DEF IsInjective
  <2> QED BY SMTT(30), <1>2, <1>3, <2>3, <2>4, <2>5, <2>6 DEF MbufsTyped
<1>9. BurstHeld' BY ZenonT(60), <1>2 DEF BurstHeld, Busy
<1>10. \A b : Held(b)' = 0 BY <1>2, <1>8, HeldCountNext DEF Unsent, MbufsTyped
<1>11. ASSUME NEW b \in Pkts PROVE (refcnt[b] >= Holders(b))'
  <2>1. refcnt[b] >= Holders(b) BY DEF MbufInv, NotFreedEarly
  <2>2. Held(b) \in {0, 1} BY ZenonT(60), <1>3, Bits
  <2>3. In(bufs, b) = IF \E n \in 1 .. Len(bufs) : bufs[n] = b THEN 1 ELSE 0
    BY ZenonT(60), <1>4, InCount
  <2>4. In(bufs', b) = 0
    <3>1. In(bufs', b) = IF \E n \in 1 .. Len(bufs') : bufs'[n] = b THEN 1 ELSE 0
      BY ZenonT(60), <1>8, InCount DEF MbufsTyped
    <3> QED BY <1>2, <3>1
  <2>5. refcnt[b] \in Int /\ txq2[b] \in Nat BY <1>3 DEF MbufsTyped
  <2>6. Holders(b)' = (IF b \in txq1' THEN 1 ELSE 0) + (IF Shallow THEN txq2[b] ELSE 0)
    BY <1>2, <1>10, <2>4, <2>5 DEF Holders
  <2>7. PICK d : d = In(SubSeq(bufs, nb + 1, Len(bufs)), b) BY Zenon
  <2>8. d = IF \E n \in nb + 1 .. Len(bufs) : bufs[n] = b THEN 1 ELSE 0
    BY ZenonT(60), <1>6, <2>7
  <2>9. d \in {0, 1} /\ d <= In(bufs, b) BY <1>4, <2>3, <2>8
  <2>10. b \in txq1' /\ b \notin txq1 => In(bufs, b) = 1 /\ d = 0
    <3>1. b \in txq1' /\ b \notin txq1 => \E n \in 1 .. j : bufs[n] = b BY ZenonT(60), <1>1
    <3>2. \A n \in 1 .. j : \A m \in nb + 1 .. Len(bufs) : bufs[n] # bufs[m]
      <4>1. \A m, n \in 1 .. Len(bufs) : bufs[m] = bufs[n] => m = n
        BY <1>4 DEF IsInjective
      <4> QED BY <1>4, <4>1
    <3> QED BY SMTT(30), <1>4, <2>3, <2>8, <3>1, <3>2
  <2>11. refcnt'[b] = refcnt[b] - (d + (IF Shallow THEN Held(b) ELSE 0))
    BY ZenonT(60), <1>7, <2>7
  <2>12. txq1 \subseteq txq1' BY ZenonT(60), <1>1
  <2>13. In(bufs, b) \in {0, 1} BY ZenonT(60), <2>3
  <2>14. PICK t, u : /\ t = (IF b \in txq1 THEN 1 ELSE 0)
                     /\ u = (IF b \in txq1' THEN 1 ELSE 0)
    BY Zenon
  <2>15. /\ t \in {0, 1} /\ u \in {0, 1} /\ (t = 1 => u = 1)
         /\ t = 0 /\ u = 1 => In(bufs, b) = 1 /\ d = 0
    BY <2>10, <2>12, <2>14
  <2>16. PICK a, c : /\ a = (IF Shallow THEN txq2[b] ELSE 0)
                     /\ c = (IF Shallow THEN Held(b) ELSE 0)
    BY Zenon
  <2>17. a \in Nat /\ c \in {0, 1} /\ a + c = IF Shallow THEN txq2[b] + Held(b) ELSE 0
    <3>1. CASE Shallow BY <2>2, <2>5, <2>16, <3>1
    <3>2. CASE ~Shallow BY <2>16, <3>2
    <3> QED BY Zenon, <3>1, <3>2
  <2>18. refcnt[b] >= In(bufs, b) + t + (a + c)
    BY ZenonT(60), <2>1, <2>14, <2>17 DEF Holders
  <2>19. refcnt'[b] = refcnt[b] - (d + c) /\ Holders(b)' = u + a
    BY ZenonT(60), <2>6, <2>11, <2>14, <2>16
  <2>20. refcnt[b] - (d + c) >= u + a
    BY ZenonT(60), <2>5, <2>9, <2>13, <2>15, <2>17, <2>18, Balance
  <2> QED BY ZenonT(60), <2>19, <2>20
<1> QED BY ZenonT(60), <1>2, <1>8, <1>9, <1>10, <1>11 DEF MbufInv, NotFreedEarly

(* A device drops the reference that it had. *)
LEMMA DeviceMbufs ==
  ASSUME MbufInv, Device
  PROVE  /\ MbufInv'
         /\ \A b : Held(b)' = Held(b)
         /\ \/ UNCHANGED <<txq2, pool>>
            \/ \E b \in Pkts : /\ txq2[b] > 0 /\ pool' = pool + 1
                               /\ txq2' = [txq2 EXCEPT ![b] = @ - 1]
<1>1. UNCHANGED <<spc, bufs, copies, nb_tx2>>
  BY DEF Device, SentOriginal, SentCopy, burst
<1>2. MbufsTyped BY DEF MbufInv
<1>3. \A b : Held(b)' = Held(b) BY <1>1 DEF Held, Made
<1>4. BurstHeld' BY ZenonT(60), <1>1 DEF MbufInv, BurstHeld, Busy
<1>5. ASSUME NEW c \in Pkts
      PROVE  /\ refcnt[c] >= Holders(c) /\ refcnt[c] \in Int /\ txq2[c] \in Nat
             /\ Held(c) \in {0, 1} /\ In(bufs, c) \in {0, 1}
             /\ Holders(c)' = In(bufs, c) + (IF c \in txq1' THEN 1 ELSE 0) +
                                (IF Shallow THEN txq2'[c] + Held(c) ELSE 0)
  <2>1. refcnt[c] >= Holders(c) BY DEF MbufInv, NotFreedEarly
  <2>2. refcnt[c] \in Int /\ txq2[c] \in Nat BY <1>2 DEF MbufsTyped
  <2>3. Held(c) \in {0, 1} /\ In(bufs, c) \in {0, 1} BY ZenonT(60), <1>2, Bits
  <2>4. Holders(c)' = In(bufs, c) + (IF c \in txq1' THEN 1 ELSE 0) +
                        (IF Shallow THEN txq2'[c] + Held(c) ELSE 0)
    BY ZenonT(60), <1>1, <1>3 DEF Holders
  <2> QED BY ZenonT(60), <2>1, <2>2, <2>3, <2>4
<1>6. CASE \E b \in Pkts : SentOriginal(b)
  <2>1. PICK b \in Pkts : /\ b \in txq1 /\ txq1' = txq1 \ {b}
                          /\ refcnt' = [refcnt EXCEPT ![b] = @ - 1]
                          /\ UNCHANGED <<txq2, pool>>
    BY ZenonT(60), <1>6 DEF SentOriginal
  <2>2. MbufsTyped'
    <3>1. refcnt' \in [Pkts -> Int] BY <1>2, <2>1 DEF MbufsTyped
    <3> QED BY ZenonT(60), <1>1, <1>2, <2>1, <3>1 DEF MbufsTyped
  <2>3. ASSUME NEW c \in Pkts PROVE (refcnt[c] >= Holders(c))'
    <3>1. refcnt'[c] = IF c = b THEN refcnt[c] - 1 ELSE refcnt[c]
      BY ZenonT(60), <1>2, <2>1 DEF MbufsTyped
    <3> QED BY <1>5, <2>1, <3>1 DEF Holders
  <2> QED BY ZenonT(60), <1>3, <1>4, <2>1, <2>2, <2>3 DEF MbufInv, NotFreedEarly
<1>7. CASE \E b \in Pkts : SentCopy(b)
  <2>1. PICK b \in Pkts :
          /\ txq2[b] > 0 /\ txq2' = [txq2 EXCEPT ![b] = @ - 1]
          /\ pool' = pool + 1
          /\ refcnt' = IF Shallow THEN [refcnt EXCEPT ![b] = @ - 1] ELSE refcnt
          /\ UNCHANGED txq1
    BY ZenonT(60), <1>7 DEF SentCopy
  <2>2. MbufsTyped'
    <3>1. refcnt' \in [Pkts -> Int] BY <1>2, <2>1 DEF MbufsTyped
    <3>2. txq2' \in [Pkts -> Nat] BY <1>2, <2>1 DEF MbufsTyped
    <3> QED BY <1>1, <1>2, <2>1, <3>1, <3>2 DEF MbufsTyped
  <2>3. ASSUME NEW c \in Pkts PROVE (refcnt[c] >= Holders(c))'
    <3>1. refcnt'[c] = IF Shallow /\ c = b THEN refcnt[c] - 1 ELSE refcnt[c]
      BY ZenonT(60), <1>2, <2>1 DEF MbufsTyped
    <3>2. txq2'[c] = IF c = b THEN txq2[c] - 1 ELSE txq2[c]
      BY ZenonT(60), <1>2, <2>1 DEF MbufsTyped
    <3> QED BY <1>5, <2>1, <3>1, <3>2 DEF Holders
  <2> QED BY ZenonT(60), <1>3, <1>4, <2>1, <2>2, <2>3 DEF MbufInv, NotFreedEarly
<1> QED BY ZenonT(60), <1>6, <1>7 DEF Device

(* Nothing else touches a buffer. *)
LEMMA OtherMbufs ==
  ASSUME [Next]_vars, ~Receive, ~CopyOne, ~TxMirror, ~TxOriginal, ~Device
  PROVE  UNCHANGED <<burst, mbufs>> /\ (spc = "tx1" <=> spc' = "tx1") /\ (Busy => Busy')
<1> USE DEF burst, mbufs, Busy
<1>1. CASE Command
  BY ZenonT(60), <1>1 DEF Command, RxAdd, RxDel, TxAdd, TxDel, Stored
<1>2. CASE update_mirror
  BY ZenonT(60), <1>2 DEF update_mirror, UpdateBegin, UpdateFill, UpdatePublish, UpdateReturn
<1>3. CASE change_mirror_index \/ LoadPath \/ NotReady
  BY ZenonT(60), <1>3 DEF change_mirror_index, LoadPath, NotReady
<1>4. CASE TxMirrorCrash BY ZenonT(60), <1>4 DEF TxMirrorCrash
<1>5. CASE UNCHANGED vars BY ZenonT(60), <1>5 DEF vars
<1> QED BY ZenonT(60), <1>1, <1>2, <1>3, <1>4, <1>5 DEF Next, mirror_proc

LEMMA StepMbufs == MbufInv /\ [Next]_vars => MbufInv'
BY ZenonT(60), ReceiveMbufs, CopyMbufs, TxMirrorMbufs, TxOriginalMbufs, DeviceMbufs,
   OtherMbufs, MbufsKept

LEMMA SpecMbufs == Spec => []MbufInv
BY InitMbufs, StepMbufs, PTL DEF Spec

(* For any packets, pool, burst size and both builds of the copies: no      *)
(* buffer is freed while mirror_proc, a device or a shallow copy refers to  *)
(* it, whatever the two ports take of a burst.                              *)
THEOREM NotFreedEarlyAlways == Spec => []NotFreedEarly
<1>1. MbufInv => NotFreedEarly BY DEF MbufInv
<1> QED BY <1>1, SpecMbufs, PTL

-----------------------------------------------------------------------------
(* The copies.  Those of packet b are numbered 1 to f[b].                   *)

Numbered(f) == UNION {{b} \X (1 .. f[b]) : b \in Pkts}
Total == [b \in Pkts |-> txq2[b] + Held(b)]
CopyInv == IsFiniteSet(CopiesOut) /\ CopiesConserved

LEMMA NumberedHas ==
  ASSUME NEW f
  PROVE  \A x : x \in Numbered(f) <=> \E b \in Pkts : \E i \in 1 .. f[b] : x = <<b, i>>
BY DEF Numbered

LEMMA OutNumbered == CopiesOut = Numbered(Total)
BY DEF CopiesOut, Numbered, Total

LEMMA OutNumberedNext == CopiesOut' = Numbered(Total')
BY DEF CopiesOut, Numbered, Total

LEMMA TotalTyped ==
  ASSUME MbufsTyped
  PROVE  Total \in [Pkts -> Nat]
<1>1. ASSUME NEW b \in Pkts PROVE txq2[b] + Held(b) \in Nat
  <2>1. Held(b) \in {0, 1} /\ txq2[b] \in Nat BY ZenonT(60), Bits DEF MbufsTyped
  <2> QED BY <2>1
<1> QED BY <1>1 DEF Total

(* One copy more *)
LEMMA OneMore ==
  ASSUME NEW f \in [Pkts -> Nat], NEW g \in [Pkts -> Nat], NEW b \in Pkts,
         g[b] = f[b] + 1, \A c \in Pkts : c # b => g[c] = f[c]
  PROVE  /\ Numbered(g) = Numbered(f) \union {<<b, g[b]>>}
         /\ <<b, g[b]>> \notin Numbered(f)
         /\ Numbered(f) = Numbered(g) \ {<<b, g[b]>>}
<1>1. \A x : x \in Numbered(f) <=> \E c \in Pkts : \E i \in 1 .. f[c] : x = <<c, i>>
  BY ZenonT(60), NumberedHas
<1>2. \A x : x \in Numbered(g) <=> \E c \in Pkts : \E i \in 1 .. g[c] : x = <<c, i>>
  BY NumberedHas
<1>3. <<b, g[b]>> \notin Numbered(f) BY <1>1
<1>4. \A c \in Pkts : \A i : i \in 1 .. g[c] <=> i \in 1 .. f[c] \/ (c = b /\ i = g[b])
  OBVIOUS
<1>5. \A x : x \in Numbered(g) <=> x \in Numbered(f) \/ x = <<b, g[b]>>
  BY ZenonT(60), <1>1, <1>2, <1>4
<1> QED BY ZenonT(60), <1>3, <1>5

LEMMA InitCopies == Init => CopyInv
<1> SUFFICES ASSUME Init PROVE CopyInv OBVIOUS
<1>1. MbufsTyped BY ZenonT(60), InitMbufs DEF MbufInv
<1>2. \A b \in Pkts : Held(b) = 0 BY <1>1, HeldCount DEF Init, Unsent
<1>3. \A b \in Pkts : Total[b] = 0 BY <1>2 DEF Init, Total
<1>4. CopiesOut = {}
  <2>1. \A x : x \in Numbered(Total)
                 <=> \E b \in Pkts : \E i \in 1 .. Total[b] : x = <<b, i>>
    BY NumberedHas
  <2>2. \A b \in Pkts : 1 .. Total[b] = {} BY <1>3
  <2> QED BY ZenonT(60), <2>1, <2>2, OutNumbered
<1> QED BY <1>4, FS_EmptySet, MirrorAssumption DEF Init, CopyInv, CopiesConserved

(* A step that hands copies on loses none. *)
LEMMA CopiesKept ==
  ASSUME CopyInv, UNCHANGED pool,
         \A b \in Pkts : txq2'[b] + Held(b)' = txq2[b] + Held(b)
  PROVE  CopyInv'
<1>1. CopiesOut' = CopiesOut BY DEF CopiesOut
<1> QED BY <1>1 DEF CopyInv, CopiesConserved

LEMMA CopyCopies ==
  ASSUME MbufInv, CopyInv, CopyOne
  PROVE  CopyInv'
<1>1. PICK b \in Pkts, made \in {0, 1} :
        /\ Held(b) = 0 /\ Held(b)' = made
        /\ \A c : c # b => Held(c)' = Held(c)
        /\ pool' = pool - made /\ UNCHANGED txq2
  BY ZenonT(60), CopyMbufs
<1>2. MbufsTyped /\ MbufsTyped' BY CopyMbufs DEF MbufInv
<1>3. pool \in Nat /\ pool' \in Nat BY ZenonT(60), <1>2 DEF MbufsTyped
<1>4. CASE made = 0
  <2>1. \A c \in Pkts : txq2'[c] + Held(c)' = txq2[c] + Held(c) BY ZenonT(60), <1>1, <1>4
  <2> QED BY SMTT(30), <1>1, <1>3, <1>4, <2>1, CopiesKept
<1>5. CASE made = 1
  <2>1. PICK f, g : f = Total /\ g = Total' BY Zenon
  <2>2. f \in [Pkts -> Nat] /\ g \in [Pkts -> Nat]
    <3>1. Total' \in [Pkts -> Nat]
      <4>1. ASSUME NEW c \in Pkts PROVE txq2'[c] + Held(c)' \in Nat
        <5>1. Held(c)' \in {0, 1} BY ZenonT(60), <1>2, HeldCountNext
        <5>2. txq2'[c] \in Nat BY ZenonT(60), <1>2 DEF MbufsTyped
        <5> QED BY <5>1, <5>2
      <4> QED BY ZenonT(60), <4>1 DEF Total
    <3> QED BY ZenonT(60), <1>2, <2>1, <3>1, TotalTyped
  <2>3. g[b] = f[b] + 1
    <3>1. f[b] = txq2[b] + Held(b) /\ g[b] = txq2'[b] + Held(b)' BY ZenonT(60), <2>1 DEF Total
    <3>2. txq2[b] \in Nat BY <1>2 DEF MbufsTyped
    <3> QED BY SMTT(30), <1>1, <1>5, <3>1, <3>2
  <2>4. \A c \in Pkts : c # b => g[c] = f[c] BY ZenonT(60), <1>1, <2>1 DEF Total
  <2>5. /\ Numbered(g) = Numbered(f) \union {<<b, g[b]>>}
        /\ <<b, g[b]>> \notin Numbered(f)
    BY SMTT(30), <2>2, <2>3, <2>4, OneMore
  <2>6. CopiesOut = Numbered(f) /\ CopiesOut' = Numbered(g)
    BY ZenonT(60), <2>1, OutNumbered, OutNumberedNext
  <2>7. IsFiniteSet(CopiesOut) /\ CopiesConserved BY DEF CopyInv
  <2>8. /\ IsFiniteSet(CopiesOut')
        /\ Cardinality(CopiesOut') = Cardinality(CopiesOut) + 1
    BY ZenonT(60), <2>5, <2>6, <2>7, FS_AddElement
  <2>9. Cardinality(CopiesOut) \in Nat BY ZenonT(60), <2>7, FS_CardinalityType
  <2> QED BY SMTT(30), <1>1, <1>3, <1>5, <2>7, <2>8, <2>9 DEF CopyInv, CopiesConserved
<1> QED BY ZenonT(60), <1>4, <1>5

LEMMA DeviceCopies ==
  ASSUME MbufInv, CopyInv, Device
  PROVE  CopyInv'
<1>1. \A c : Held(c)' = Held(c) BY ZenonT(60), DeviceMbufs
<1>2. MbufsTyped /\ MbufsTyped' BY ZenonT(60), DeviceMbufs DEF MbufInv
<1>3. CASE UNCHANGED <<txq2, pool>> BY ZenonT(60), <1>1, <1>3, CopiesKept
<1>4. ASSUME NEW b \in Pkts, txq2[b] > 0, pool' = pool + 1,
             txq2' = [txq2 EXCEPT ![b] = @ - 1]
      PROVE  CopyInv'
  <2>1. PICK f, g : g = Total /\ f = Total' BY ZenonT(60)
  <2>2. \A c \in Pkts : /\ g[c] = txq2[c] + Held(c) /\ f[c] = txq2'[c] + Held(c)
                        /\ txq2[c] \in Nat /\ Held(c) \in {0, 1}
    BY ZenonT(60), <1>1, <1>2, <2>1, Bits DEF Total, MbufsTyped
  <2>3. g \in [Pkts -> Nat] BY ZenonT(60), <1>2, <2>1, TotalTyped
  <2>4. \A c \in Pkts : f[c] = IF c = b THEN g[c] - 1 ELSE g[c]
    <3>1. \A c \in Pkts : txq2'[c] = IF c = b THEN txq2[c] - 1 ELSE txq2[c]
      BY ZenonT(60), <1>2, <1>4 DEF MbufsTyped
    <3> SUFFICES ASSUME NEW c \in Pkts PROVE f[c] = IF c = b THEN g[c] - 1 ELSE g[c]
      BY ZenonT(60)
    <3>2. PICK t, h : t = txq2[c] /\ h = Held(c) BY ZenonT(60)
    <3>3. t \in Nat /\ h \in {0, 1} /\ g[c] = t + h /\ f[c] = txq2'[c] + h
      BY ZenonT(60), <2>2, <3>2
    <3> QED BY <3>1, <3>2, <3>3
  <2>5. f \in [Pkts -> Nat]
    <3>1. \A c \in Pkts : f[c] \in Nat BY <1>4, <2>2, <2>3, <2>4
    <3>2. f = [c \in Pkts |-> f[c]] BY ZenonT(60), <2>1 DEF Total
    <3> QED BY ZenonT(60), <3>1, <3>2
  <2>6. g[b] = f[b] + 1 /\ \A c \in Pkts : c # b => g[c] = f[c] BY <2>3, <2>4
  <2>7. Numbered(f) = Numbered(g) \ {<<b, g[b]>>} /\ <<b, g[b]>> \in Numbered(g)
    BY <2>3, <2>5, <2>6, OneMore
  <2>8. CopiesOut = Numbered(g) /\ CopiesOut' = Numbered(f)
    BY ZenonT(60), <2>1, OutNumbered, OutNumberedNext
  <2>9. IsFiniteSet(CopiesOut) /\ CopiesConserved BY DEF CopyInv
  <2>10. /\ IsFiniteSet(CopiesOut')
         /\ Cardinality(CopiesOut') = Cardinality(CopiesOut) - 1
    BY ZenonT(60), <2>7, <2>8, <2>9, FS_RemoveElement
  <2>11. Cardinality(CopiesOut) \in Nat /\ pool \in Nat
    BY ZenonT(60), <1>2, <2>9, FS_CardinalityType DEF MbufsTyped
  <2> QED BY SMTT(30), <1>4, <2>9, <2>10, <2>11 DEF CopyInv, CopiesConserved
<1> QED BY ZenonT(60), <1>3, <1>4, DeviceMbufs

(* The copies that TxOriginal frees are the ones that mirror_proc holds. *)
LEMMA TxOriginalCopies ==
  ASSUME MbufInv, CopyInv, TxOriginal
  PROVE  CopyInv'
<1>1. /\ UNCHANGED txq2 /\ \A b : Held(b)' = 0
      /\ spc = "tx1" /\ pool' = pool + FreedCopies(nb_tx2 + 1)
  BY ZenonT(60), TxOriginalMbufs
<1>2. MbufsTyped /\ Len(copies) = Len(bufs) BY <1>1 DEF MbufInv, BurstHeld
<1>3. PICK f, g : g = Total /\ f = Total' BY Zenon
<1>4. PICK N : N = {n \in nb_tx2 + 1 .. Len(bufs) : copies[n]} BY ZenonT(60)
<1>5. \A b \in Pkts : /\ g[b] = txq2[b] + Held(b) /\ f[b] = txq2[b]
                      /\ txq2[b] \in Nat /\ Held(b) \in {0, 1}
                      /\ Held(b) = 1 <=> \E n \in N : bufs[n] = b
  <2> SUFFICES ASSUME NEW b \in Pkts
               PROVE  /\ g[b] = txq2[b] + Held(b) /\ f[b] = txq2[b]
                      /\ txq2[b] \in Nat /\ Held(b) \in {0, 1}
                      /\ Held(b) = 1 <=> \E n \in N : bufs[n] = b
    BY ZenonT(60)
  <2>1. txq2[b] \in Nat /\ Held(b) \in {0, 1} BY ZenonT(60), <1>2, Bits DEF MbufsTyped
  <2>2. g[b] = txq2[b] + Held(b) BY ZenonT(60), <1>3 DEF Total
  <2>3. f[b] = txq2[b]
    <3>1. f[b] = txq2'[b] + Held(b)' BY ZenonT(60), <1>3 DEF Total
    <3> QED BY <1>1, <2>1, <3>1
  <2>4. Held(b) = IF \E n \in nb_tx2 + 1 .. Len(bufs) : bufs[n] = b /\ copies[n]
                  THEN 1 ELSE 0
    BY ZenonT(60), <1>1, <1>2, HeldCount DEF Unsent
  <2>5. Held(b) = 1 <=> \E n \in N : bufs[n] = b BY <1>4, <2>4
  <2> QED BY ZenonT(60), <2>1, <2>2, <2>3, <2>5
<1>6. /\ \A n \in N : bufs[n] \in Pkts
      /\ \A m, n \in N : bufs[m] = bufs[n] => m = n
  <2>1. \A n \in N : n \in DOMAIN bufs /\ bufs[n] \in Pkts
    BY <1>2, <1>4 DEF MbufsTyped
  <2> QED BY ZenonT(60), <1>2, <2>1 DEF MbufsTyped, IsInjective
<1>7. IsFiniteSet(N) /\ FreedCopies(nb_tx2 + 1) = Cardinality(N)
  <2>1. nb_tx2 + 1 \in Int /\ Len(bufs) \in Int BY <1>2 DEF MbufsTyped
  <2>2. IsFiniteSet(nb_tx2 + 1 .. Len(bufs)) BY ZenonT(60), <2>1, FS_Interval
  <2>3. N \subseteq nb_tx2 + 1 .. Len(bufs) BY ZenonT(60), <1>4
  <2> QED BY ZenonT(60), <1>4, <2>2, <2>3, FS_Subset DEF FreedCopies
<1> DEFINE D == {<<bufs[n], g[bufs[n]]>> : n \in N}
<1>8. IsFiniteSet(D) /\ Cardinality(D) = Cardinality(N)
  <2> DEFINE h == [n \in N |-> <<bufs[n], g[bufs[n]]>>]
  <2>1. h \in Injection(N, D)
    <3>1. h \in [N -> D] BY ZenonT(60)
    <3>2. \A m, n \in N : h[m] = h[n] => bufs[m] = bufs[n] BY ZenonT(60)
    <3>3. IsInjective(h) BY ZenonT(60), <1>6, <3>2 DEF IsInjective
    <3> QED BY ZenonT(60), <3>1, <3>3 DEF Injection
  <2>2. h \in Surjection(N, D)
    <3>1. h \in [N -> D] /\ \A d \in D : \E n \in N : h[n] = d BY ZenonT(60)
    <3> QED BY ZenonT(60), <3>1 DEF Surjection
  <2>3. ExistsBijection(N, D) BY ZenonT(60), <2>1, <2>2 DEF ExistsBijection, Bijection
  <2> QED BY ZenonT(60), <1>7, <2>3, FS_Bijection
<1>9. CopiesOut = Numbered(g) /\ CopiesOut' = Numbered(f)
  BY ZenonT(60), <1>3, OutNumbered, OutNumberedNext
<1>10. \A x : x \in Numbered(g) <=> x \in Numbered(f) \/ x \in D
  <2>1. \A x : x \in Numbered(f) <=> \E b \in Pkts : \E i \in 1 .. f[b] : x = <<b, i>>
    BY ZenonT(60), NumberedHas
  <2>2. \A x : x \in Numbered(g) <=> \E b \in Pkts : \E i \in 1 .. g[b] : x = <<b, i>>
    BY NumberedHas
  <2>3. \A b \in Pkts : \A i : i \in 1 .. g[b] <=> i \in 1 .. f[b] \/ (Held(b) = 1 /\ i = g[b])
    BY <1>5
  <2>4. \A x : x \in D <=> \E b \in Pkts : Held(b) = 1 /\ x = <<b, g[b]>>
    <3>1. \A n \in N : bufs[n] \in Pkts /\ Held(bufs[n]) = 1 BY ZenonT(60), <1>5, <1>6
    <3>2. ASSUME NEW b \in Pkts, Held(b) = 1 PROVE <<b, g[b]>> \in D
      <4>1. PICK n \in N : bufs[n] = b BY ZenonT(60), <1>5, <3>2
      <4> QED BY ZenonT(60), <4>1
    <3>3. ASSUME NEW x \in D PROVE \E b \in Pkts : Held(b) = 1 /\ x = <<b, g[b]>>
      <4>1. PICK n \in N : x = <<bufs[n], g[bufs[n]]>> BY ZenonT(60)
      <4> QED BY ZenonT(60), <3>1, <4>1
    <3> HIDE DEF D
    <3> QED BY ZenonT(60), <3>2, <3>3
  <2> HIDE DEF D
  <2> QED BY ZenonT(60), <2>1, <2>2, <2>3, <2>4
<1>11. Numbered(f) \intersect D = {}
  <2>1. \A x : x \in Numbered(f) <=> \E b \in Pkts : \E i \in 1 .. f[b] : x = <<b, i>>
    BY NumberedHas
  <2>2. \A n \in N : bufs[n] \in Pkts /\ g[bufs[n]] \notin 1 .. f[bufs[n]]
    BY <1>5, <1>6
  <2> QED BY <2>1, <2>2
<1> HIDE DEF D
<1>12. IsFiniteSet(CopiesOut) /\ CopiesConserved BY DEF CopyInv
<1>13. Numbered(f) = CopiesOut \ D /\ CopiesOut \intersect D = D BY ZenonT(60), <1>9, <1>10, <1>11
<1>14. /\ IsFiniteSet(CopiesOut')
       /\ Cardinality(CopiesOut') = Cardinality(CopiesOut) - Cardinality(D)
  BY <1>9, <1>12, <1>13, FS_Difference
<1>15. Cardinality(CopiesOut) \in Nat /\ Cardinality(D) \in Nat /\ pool \in Nat
  BY ZenonT(60), <1>2, <1>8, <1>12, FS_CardinalityType DEF MbufsTyped
<1> QED BY <1>1, <1>7, <1>8, <1>12, <1>14, <1>15 DEF CopyInv, CopiesConserved

LEMMA StepCopies == MbufInv /\ CopyInv /\ [Next]_vars => CopyInv'
<1> SUFFICES ASSUME MbufInv, CopyInv, [Next]_vars PROVE CopyInv' OBVIOUS
<1>1. CASE Receive
  <2>1. UNCHANGED <<txq2, pool>> BY ZenonT(60), <1>1 DEF Receive
  <2> QED BY ZenonT(60), <1>1, <2>1, ReceiveMbufs, CopiesKept
<1>2. CASE TxMirror BY ZenonT(60), <1>2, TxMirrorMbufs, CopiesKept
<1>3. CASE UNCHANGED <<burst, mbufs>> /\ (spc = "tx1" <=> spc' = "tx1") /\ (Busy => Busy')
  <2>1. UNCHANGED <<txq2, pool>> BY ZenonT(60), <1>3 DEF mbufs
  <2>2. \A b : Held(b)' = Held(b) BY ZenonT(60), <1>3, MbufsKept
  <2> QED BY ZenonT(60), <2>1, <2>2, CopiesKept
<1> QED BY ZenonT(60), <1>1, <1>2, <1>3, CopyCopies, TxOriginalCopies, DeviceCopies, OtherMbufs

(* For any packets, pool and burst size: every buffer of g_mirror_pool is   *)
(* in the pool, held by mirror_proc or held by the mirror port, at every    *)
(* moment, and none of them twice.                                          *)
THEOREM CopiesConservedAlways == Spec => []CopiesConserved
<1>1. CopyInv => CopiesConserved BY DEF CopyInv
<1> QED BY <1>1, SpecMbufs, InitCopies, StepCopies, PTL DEF Spec
=============================================================================
