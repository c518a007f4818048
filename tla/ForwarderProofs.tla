-------------------------- MODULE ForwarderProofs ---------------------------
(***************************************************************************)
(* For every set of ports, pool size and burst size: the two sides of a    *)
(* forwarder are never used at once, the accepted configuration is in      *)
(* force, no mbuf is lost, and the whole implements ConfigCell.            *)
(***************************************************************************)
EXTENDS Forwarder, FiniteSetTheorems, TLAPS

(* The manager owns a side of its own except while it waits. *)
OwnSide == mpc \in {"idle", "fill", "publish"} => ref_index # upd_index

(* The worker exchanges the sides only while the manager waits for it. *)
SwapOnlyOnWait == spc = "swap" => mpc = "wait" /\ ref_index = upd_index

(* A burst walks the referenced side, which has exactly one tx port. *)
BurstSide == InBurst => cur = ref_index /\ Cardinality(path[cur].tx) = 1

(* Where the accepted configuration is while it is being installed. *)
AcceptedAt == /\ mpc = "idle" => path[ref_index] = comp_info
              /\ mpc = "publish" => path[upd_index] = comp_info
              /\ mpc = "wait" => path[(upd_index + 1) % 2] = comp_info

(* nb_tx carries a count over from an earlier rx port only when the tx port *)
(* took it.                                                                 *)
CarryOver == InBurst /\ nb_tx # 0 => path[cur].tx \subseteq Attached

Inv == /\ TypeOK
       /\ OwnSide
       /\ SwapOnlyOnWait
       /\ BurstSide
       /\ AcceptedAt
       /\ CarryOver
       /\ UntaggedMbufsConserved

(* Each side is the other's successor modulo TWO_SIDES. *)
LEMMA OtherSide ==
  ASSUME NEW s \in Sides, NEW t \in Sides
  PROVE  /\ (s + 1) % 2 \in Sides
         /\ (s + 1) % 2 # s
         /\ s # t => t = (s + 1) % 2
BY DEF Sides

(* A path that is ready to forward has a tx port, and it is the only one. *)
LEMMA OneTx ==
  ASSUME NEW T \in SUBSET Ports, Cardinality(T) = 1
  PROVE  \E t \in Ports : T = {t}
<1>1. IsFiniteSet(T) BY FS_Subset, ForwarderAssumption
<1>2. \E t : T = {t} BY <1>1, FS_Singleton
<1> QED BY <1>2

LEMMA InitInv == Init => Inv
<1> SUFFICES ASSUME Init PROVE Inv OBVIOUS
<1> USE DEF Init
<1>1. TypeOK
  BY ForwarderAssumption DEF TypeOK, Sides, Config, Types, ZeroPath
<1>2. OwnSide /\ SwapOnlyOnWait /\ BurstSide /\ AcceptedAt /\ CarryOver
  BY DEF OwnSide, SwapOnlyOnWait, BurstSide, AcceptedAt, CarryOver, InBurst,
         Sides
<1>3. UntaggedMbufsConserved
  BY ForwarderAssumption DEF UntaggedMbufsConserved, MbufsConserved
<1> QED BY <1>1, <1>2, <1>3 DEF Inv

(* The manager's steps preserve the invariant. *)
LEMMA ManagerInv ==
  ASSUME Inv, UpdateForwarder
  PROVE  Inv'
<1> USE DEF Inv, TypeOK, OwnSide, SwapOnlyOnWait, BurstSide, AcceptedAt,
            CarryOver, UntaggedMbufsConserved, MbufsConserved,
            InBurst, worker, mbufs
<1>z. ZeroPath \in Config BY DEF ZeroPath, Config, Types
<1>1. CASE \E c \in Config : UpdateBegin(c)
  <2>1. PICK c \in Config : UpdateBegin(c) BY <1>1
  <2>2. path'[ref_index] = path[ref_index]
    BY <2>1 DEF UpdateBegin
  <2> QED BY <1>z, <2>1, <2>2 DEF UpdateBegin
<1>2. CASE UpdateFill
  <2>1. path'[ref_index] = path[ref_index] /\ path'[upd_index] = comp_info
    BY <1>2 DEF UpdateFill
  <2> QED BY <1>2, <2>1 DEF UpdateFill
<1>3. CASE UpdatePublish
  <2>1. upd_index = (ref_index + 1) % 2 BY <1>3, OtherSide DEF UpdatePublish
  <2> QED BY <1>3, <2>1 DEF UpdatePublish
<1>4. CASE UpdateReturn
  <2>1. ref_index = (upd_index + 1) % 2 BY <1>4, OtherSide DEF UpdateReturn
  <2> QED BY <1>4, <2>1 DEF UpdateReturn
<1> QED BY <1>1, <1>2, <1>3, <1>4 DEF UpdateForwarder

(* So do the worker's. *)
LEMMA WorkerInv ==
  ASSUME Inv, ForwardPackets
  PROVE  Inv'
<1> USE DEF Inv, TypeOK, OwnSide, SwapOnlyOnWait, BurstSide, AcceptedAt,
            CarryOver, UntaggedMbufsConserved, MbufsConserved,
            InBurst, manager, mbufs
<1>1. CASE ChangeIndex BY <1>1 DEF ChangeIndex
<1>2. CASE SwapIndex
  <2>1. ref_index' = (upd_index + 1) % 2 /\ ref_index' \in Sides
                   /\ ref_index' # upd_index
    BY <1>2, OtherSide DEF SwapIndex
  <2> QED BY <1>2, <2>1 DEF SwapIndex
<1>3. CASE LoadPath BY <1>3 DEF LoadPath, ReadyToForward
<1>4. CASE RxBurst
  <2>1. PICK p \in path[cur].rx \ done, n \in 0 .. MaxBurst :
          /\ n <= pool
          /\ pool' = pool - n
          /\ nb_rx' = n
          /\ done' = done \union {p}
          /\ spc' = IF n = 0 THEN "rx" ELSE "tx"
    BY <1>4 DEF RxBurst
  <2>2. n \in Nat BY <2>1, ForwarderAssumption
  <2>3. p \in Ports BY <2>1 DEF Config
  <2> QED BY <1>4, <2>1, <2>2, <2>3, ForwarderAssumption DEF RxBurst
<1>5. CASE TxBurst
  <2>1. path[cur].tx \in SUBSET Ports BY DEF Config
  <2>2. PICK t \in Ports : path[cur].tx = {t} BY <1>5, <2>1, OneTx DEF TxBurst
  <2>3. CASE t \in Attached
    <3>1. PICK ok \in VlanDone(t, nb_rx) : \E k \in 0 .. ok :
            /\ nb_tx' = k
            /\ txq' = txq + k
            /\ pool' = pool + (nb_rx - ok) + (nb_rx - k)
      BY <1>5, <2>2, <2>3 DEF TxBurst
    <3>2. ok \in 0 .. nb_rx /\ (Tagging = {} => ok = nb_rx)
      BY <3>1 DEF VlanDone
    <3>3. PICK k \in 0 .. ok : /\ nb_tx' = k
                               /\ txq' = txq + k
                               /\ pool' = pool + (nb_rx - ok) + (nb_rx - k)
      BY <3>1
    <3> QED BY <1>5, <2>2, <2>3, <3>2, <3>3, ForwarderAssumption DEF TxBurst
  <2>4. CASE t \notin Attached
    <3>1. /\ nb_tx = 0
          /\ UNCHANGED <<nb_tx, txq>>
          /\ pool' = IF nb_tx < nb_rx THEN pool + (nb_rx - nb_tx) ELSE pool
      BY <1>5, <2>2, <2>4 DEF TxBurst
    <3> QED BY <1>5, <2>2, <2>4, <3>1, ForwarderAssumption DEF TxBurst
  <2> QED BY <2>3, <2>4
<1>6. CASE EndLoop BY <1>6 DEF EndLoop
<1> QED BY <1>1, <1>2, <1>3, <1>4, <1>5, <1>6 DEF ForwardPackets

LEMMA StepInv == Inv /\ [Next]_vars => Inv'
<1> SUFFICES ASSUME Inv, [Next]_vars PROVE Inv' OBVIOUS
<1>1. CASE UpdateForwarder BY <1>1, ManagerInv
<1>2. CASE ForwardPackets BY <1>2, WorkerInv
<1>3. CASE TxRelease
  <2>1. PICK k \in 1 .. txq : txq' = txq - k /\ pool' = pool + k
    BY <1>3 DEF TxRelease
  <2> QED BY <1>3, <2>1, ForwarderAssumption
          DEF TxRelease, Inv, TypeOK, OwnSide, SwapOnlyOnWait, BurstSide,
              AcceptedAt, CarryOver, UntaggedMbufsConserved, MbufsConserved,
              InBurst, manager, worker
<1>4. CASE UNCHANGED vars
  BY <1>4 DEF vars, Inv, TypeOK, OwnSide, SwapOnlyOnWait, BurstSide,
              AcceptedAt, CarryOver, UntaggedMbufsConserved, MbufsConserved,
              InBurst
<1> QED BY <1>1, <1>2, <1>3, <1>4 DEF Next

LEMMA SpecInv == Spec => []Inv
BY InitInv, StepInv, PTL DEF Spec

-----------------------------------------------------------------------------
(* For every set of ports and every burst size: the indexes of the two      *)
(* threads name one of the two sides, and the mbuf counts never go below    *)
(* zero.                                                                    *)
THEOREM ForwarderTypeOK == Spec => []TypeOK
<1>1. Inv => TypeOK BY DEF Inv
<1> QED BY <1>1, SpecInv, PTL

(* The side update_forwarder rewrites is never the one forward_packets is   *)
(* walking.                                                                 *)
THEOREM ForwarderSidesDisjoint == Spec => []SidesDisjoint
<1>1. Inv => SidesDisjoint
  BY DEF Inv, SidesDisjoint, OwnSide, BurstSide
<1> QED BY <1>1, SpecInv, PTL

(* Between two calls of update_forwarder its last accepted argument is in   *)
(* force, for status and for the burst in progress.                         *)
THEOREM ForwarderAcceptedInForce == Spec => []AcceptedInForce
<1>1. Inv => AcceptedInForce
  BY DEF Inv, AcceptedInForce, AcceptedAt, BurstSide, get_forwarder_status
<1> QED BY <1>1, SpecInv, PTL

(* Without VLAN tagging at tx, every mbuf forward_packets takes from an rx  *)
(* port is sent or freed, once.                                             *)
THEOREM ForwarderMbufsConserved == Spec => []UntaggedMbufsConserved
<1>1. Inv => UntaggedMbufsConserved BY DEF Inv
<1> QED BY <1>1, SpecInv, PTL

-----------------------------------------------------------------------------
(* Refinement of ConfigCell.                                               *)

LEMMA NoConfigNotConfig == NoConfig \notin Config
BY DEF NoConfig, Config, Types

LEMMA CellInit == Init => Cell!Init
BY DEF Init, Cell!Init, InBurst, ZeroPath, Config, Types, Sides

(* A step of the manager requests a configuration, returns, or changes      *)
(* nothing a user of the cell can see.                                      *)
LEMMA ManagerCell ==
  ASSUME Inv, UpdateForwarder
  PROVE  Cell!Next \/ UNCHANGED Cell!vars
<1> USE DEF Inv, TypeOK, OwnSide, BurstSide, InBurst, Cell!vars, worker, mbufs
<1>1. CASE \E c \in Config : UpdateBegin(c)
  <2>1. PICK c \in Config : UpdateBegin(c) BY <1>1
  <2>2. path'[ref_index] = path[ref_index] BY <2>1 DEF UpdateBegin
  <2>3. Cell!Request BY <2>1, <2>2 DEF UpdateBegin, Cell!Request
  <2> QED BY <2>3 DEF Cell!Next
<1>2. CASE UpdateFill
  <2>1. path'[ref_index] = path[ref_index] BY <1>2 DEF UpdateFill
  <2> QED BY <1>2, <2>1 DEF UpdateFill
<1>3. CASE UpdatePublish BY <1>3 DEF UpdatePublish
<1>4. CASE UpdateReturn
  <2>1. Cell!Return BY <1>4 DEF UpdateReturn, Cell!Return
  <2> QED BY <2>1 DEF Cell!Next
<1> QED BY <1>1, <1>2, <1>3, <1>4 DEF UpdateForwarder

(* A step of the worker applies the request, begins or ends a burst, or is  *)
(* a stutter.                                                               *)
LEMMA WorkerCell ==
  ASSUME Inv, ForwardPackets
  PROVE  Cell!Next \/ UNCHANGED Cell!vars
<1> USE DEF Inv, TypeOK, SwapOnlyOnWait, BurstSide, AcceptedAt, InBurst,
            Cell!vars, manager, mbufs
<1>1. CASE ChangeIndex BY <1>1 DEF ChangeIndex
<1>2. CASE SwapIndex
  <2>1. ref_index' = (upd_index + 1) % 2 /\ ref_index' # upd_index
    BY <1>2, OtherSide DEF SwapIndex
  <2>2. Cell!Apply BY <1>2, <2>1 DEF SwapIndex, Cell!Apply
  <2> QED BY <2>2 DEF Cell!Next
<1>3. CASE LoadPath
  <2>1. CASE ReadyToForward(path[ref_index])
    <3>1. Cell!BeginBurst BY <1>3, <2>1 DEF LoadPath, Cell!BeginBurst
    <3> QED BY <3>1 DEF Cell!Next
  <2>2. CASE ~ReadyToForward(path[ref_index]) BY <1>3, <2>2 DEF LoadPath
  <2> QED BY <2>1, <2>2
<1>4. CASE RxBurst BY <1>4 DEF RxBurst
<1>5. CASE TxBurst BY <1>5 DEF TxBurst
<1>6. CASE EndLoop
  <2>1. Cell!EndBurst BY <1>6, NoConfigNotConfig DEF EndLoop, Cell!EndBurst
  <2> QED BY <2>1 DEF Cell!Next
<1> QED BY <1>1, <1>2, <1>3, <1>4, <1>5, <1>6 DEF ForwardPackets

LEMMA CellStep == Inv /\ [Next]_vars => [Cell!Next]_(Cell!vars)
<1> SUFFICES ASSUME Inv, [Next]_vars
             PROVE  Cell!Next \/ UNCHANGED Cell!vars
  OBVIOUS
<1>1. CASE UpdateForwarder BY <1>1, ManagerCell
<1>2. CASE ForwardPackets BY <1>2, WorkerCell
<1>3. CASE TxRelease
  BY <1>3 DEF TxRelease, manager, worker, Cell!vars, InBurst
<1>4. CASE UNCHANGED vars BY <1>4 DEF vars, Cell!vars, InBurst
<1> QED BY <1>1, <1>2, <1>3, <1>4 DEF Next

(* Whatever the ports and however the two threads interleave, a forwarder's *)
(* double buffer is one configuration replaced atomically between bursts.   *)
THEOREM ForwarderImplementsCell == Spec => ImplementsCell
BY SpecInv, CellInit, CellStep, PTL DEF Spec, ImplementsCell, Cell!Spec
=============================================================================
