----------------------------- MODULE Forwarder ------------------------------
(***************************************************************************)
(* src/vf/forwarder.c: one entry of g_forward_info, shared by the manager  *)
(* thread (update_forwarder) and by the worker thread that runs the        *)
(* forwarder or merger (forward_packets).  The two sides of `path' are     *)
(* exchanged through ref_index, written by the worker only, and            *)
(* upd_index, written by the manager only.                                 *)
(***************************************************************************)
EXTENDS Naturals, FiniteSets

CONSTANTS Ports,      \* ports a component may be given
          Attached,   \* those whose ethdev_port_id is not negative
          Tagging,    \* those on which a VLAN tag is added or removed at tx
          NMbufs,     \* packet buffers of the pool
          MaxBurst    \* MAX_PKT_BURST

ASSUME ForwarderAssumption ==
  /\ IsFiniteSet(Ports)
  /\ Attached \subseteq Ports
  /\ Tagging \subseteq Ports
  /\ NMbufs \in Nat
  /\ MaxBurst \in Nat

Sides == {0, 1}
Types == {"none", "fwd", "mrg"}

(* A component's type and its ports, as comp_info gives them and path keeps *)
(* them. ports[cnt].tx repeats the one tx port for every rx port.           *)
Config == [type : Types, rx : SUBSET Ports, tx : SUBSET Ports]
ZeroPath == [type |-> "none", rx |-> {}, tx |-> {}]
NoConfig == [type |-> "no", rx |-> {}, tx |-> {}]

VARIABLES
  ref_index, upd_index, path,  \* struct forward_info
  mpc,        \* manager: "idle", "fill", "publish", "wait" (update_forwarder)
  comp_info,  \* the last argument of update_forwarder that it accepted
  spc,        \* worker: "out", "swap", "load", "rx", "tx" (forward_packets)
  cur,        \* worker: the side the local pointer `path' points to
  done,       \* worker: rx ports the loop has served
  nb_rx, nb_tx,
  pool, txq   \* free mbufs, and mbufs a tx port has not released yet

manager == <<mpc, comp_info>>
worker == <<spc, cur, done, nb_rx, nb_tx>>
mbufs == <<pool, txq>>
vars == <<ref_index, upd_index, path, mpc, comp_info, spc, cur, done,
          nb_rx, nb_tx, pool, txq>>

(* init_forwarder *)
Init == /\ ref_index = 0
        /\ upd_index = 1
        /\ path = [s \in Sides |-> ZeroPath]
        /\ mpc = "idle"
        /\ comp_info = ZeroPath
        /\ spc = "out"
        /\ cur = 0
        /\ done = {}
        /\ nb_rx = 0
        /\ nb_tx = 0
        /\ pool = NMbufs
        /\ txq = 0

-----------------------------------------------------------------------------
(* The manager: update_forwarder.  A rejected argument changes nothing.    *)

ValidPorts(c) == /\ c.type = "fwd" => Cardinality(c.rx) <= 1
                 /\ Cardinality(c.tx) \in {0, 1}

(* Bug: the referenced side is rewritten. *)
UpdateBeginMutLiveSide(c) ==
  /\ mpc = "idle"
  /\ ValidPorts(c)
  /\ comp_info' = c
  /\ path' = [path EXCEPT ![ref_index] = ZeroPath]
  /\ mpc' = "fill"
  /\ UNCHANGED <<ref_index, upd_index, worker, mbufs>>

(* The checks, then the memset of the side the worker does not reference.  *)
UpdateBegin(c) == /\ mpc = "idle"
                  /\ ValidPorts(c)
                  /\ comp_info' = c
                  /\ path' = [path EXCEPT ![upd_index] = ZeroPath]
                  /\ mpc' = "fill"
                  /\ UNCHANGED <<ref_index, upd_index, worker, mbufs>>

UpdateFill == /\ mpc = "fill"
              /\ path' = [path EXCEPT ![upd_index] = comp_info]
              /\ mpc' = "publish"
              /\ UNCHANGED <<ref_index, upd_index, comp_info, worker, mbufs>>

UpdatePublish == /\ mpc = "publish"
                 /\ upd_index' = ref_index
                 /\ mpc' = "wait"
                 /\ UNCHANGED <<ref_index, path, comp_info, worker, mbufs>>

(* The busy wait, and the return to the caller. *)
UpdateReturn == /\ mpc = "wait"
                /\ ref_index # upd_index
                /\ mpc' = "idle"
                /\ UNCHANGED <<ref_index, upd_index, path, comp_info, worker,
                               mbufs>>

(* What `status' reports of this component: nothing while its type is unset *)
get_forwarder_status ==
  IF path[ref_index].type = "none" THEN NoConfig ELSE path[ref_index]

-----------------------------------------------------------------------------
(* The worker: forward_packets.                                            *)

(* change_forward_index, its comparison *)
ChangeIndex == /\ spc = "out"
               /\ spc' = IF ref_index = upd_index THEN "swap" ELSE "load"
               /\ UNCHANGED <<ref_index, upd_index, path, manager, cur, done,
                              nb_rx, nb_tx, mbufs>>

(* Bug: the side is not exchanged. *)
SwapIndexMutSameSide ==
  /\ spc = "swap"
  /\ ref_index' = upd_index
  /\ spc' = "load"
  /\ UNCHANGED <<upd_index, path, manager, cur, done, nb_rx, nb_tx, mbufs>>

(* change_forward_index, its assignment *)
SwapIndex == /\ spc = "swap"
             /\ ref_index' = (upd_index + 1) % 2
             /\ spc' = "load"
             /\ UNCHANGED <<upd_index, path, manager, cur, done, nb_rx, nb_tx,
                            mbufs>>

ReadyToForward(p) == /\ Cardinality(p.tx) = 1
                     /\ IF p.type = "mrg" THEN Cardinality(p.rx) >= 1
                                          ELSE Cardinality(p.rx) = 1

(* The pointer to the referenced side, and the check of its port counts. *)
LoadPath == /\ spc = "load"
            /\ cur' = ref_index
            /\ done' = {}
            /\ nb_tx' = 0
            /\ spc' = IF ReadyToForward(path[ref_index]) THEN "rx" ELSE "out"
            /\ UNCHANGED <<ref_index, upd_index, path, manager, nb_rx, mbufs>>

(* One rx port of the loop: nothing received, or up to a burst of packets. *)
RxBurst == /\ spc = "rx"
           /\ \E p \in path[cur].rx \ done, n \in 0 .. MaxBurst :
                /\ n <= pool
                /\ pool' = pool - n
                /\ nb_rx' = n
                /\ done' = done \union {p}
                /\ spc' = IF n = 0 THEN "rx" ELSE "tx"
           /\ UNCHANGED <<ref_index, upd_index, path, manager, cur, nb_tx, txq>>

(* Bug: packets the tx port refuses are not freed. *)
TxBurstMutNoFree ==
  /\ spc = "tx"
  /\ \E t \in path[cur].tx, k \in 0 .. nb_rx :
       /\ nb_tx' = k
       /\ txq' = txq + k
  /\ spc' = "rx"
  /\ UNCHANGED <<ref_index, upd_index, path, manager, cur, done, nb_rx, pool>>

(* vlan_operation: how many packets at the head of the burst it could tag;  *)
(* it frees the others itself.                                              *)
VlanDone(t, n) == IF t \in Tagging THEN 0 .. n ELSE {n}

(* sppwk_eth_vlan_tx_burst sends some of the tagged packets, then the loop   *)
(* frees everything behind the last one sent, what vlan_operation has freed  *)
(* already included. nb_tx keeps its last value when tx has no ethdev.       *)
TxBurst == /\ spc = "tx"
           /\ \E t \in path[cur].tx :
                \/ /\ t \in Attached
                   /\ \E ok \in VlanDone(t, nb_rx) : \E k \in 0 .. ok :
                        /\ nb_tx' = k
                        /\ txq' = txq + k
                        /\ pool' = pool + (nb_rx - ok) + (nb_rx - k)
                \/ /\ t \notin Attached
                   /\ pool' = IF nb_tx < nb_rx THEN pool + (nb_rx - nb_tx)
                                               ELSE pool
                   /\ UNCHANGED <<nb_tx, txq>>
           /\ spc' = "rx"
           /\ UNCHANGED <<ref_index, upd_index, path, manager, cur, done, nb_rx>>

EndLoop == /\ spc = "rx"
           /\ path[cur].rx \subseteq done
           /\ spc' = "out"
           /\ UNCHANGED <<ref_index, upd_index, path, manager, cur, done,
                          nb_rx, nb_tx, mbufs>>

(* The device releases mbufs it has sent. *)
TxRelease == /\ txq > 0
             /\ \E k \in 1 .. txq : txq' = txq - k /\ pool' = pool + k
             /\ UNCHANGED <<ref_index, upd_index, path, manager, worker>>

-----------------------------------------------------------------------------
UpdateForwarder == \/ \E c \in Config : UpdateBegin(c)
                   \/ UpdateFill
                   \/ UpdatePublish
                   \/ UpdateReturn

ForwardPackets == \/ ChangeIndex
                  \/ SwapIndex
                  \/ LoadPath
                  \/ RxBurst
                  \/ TxBurst
                  \/ EndLoop

Next == UpdateForwarder \/ ForwardPackets \/ TxRelease

Spec == Init /\ [][Next]_vars

(* The worker polls for ever; an update that was begun goes on.            *)
FairSpec == /\ Spec
            /\ WF_vars(ForwardPackets)
            /\ WF_vars(UpdateFill \/ UpdatePublish \/ UpdateReturn)

-----------------------------------------------------------------------------
(* Properties                                                              *)

InBurst == spc \in {"rx", "tx"}

(* Type correctness: the indexes of update_forwarder and forward_packets    *)
(* always name one of the two sides of g_forward_info, and no count of mbufs *)
(* goes below zero.                                                         *)
TypeOK == /\ ref_index \in Sides
          /\ upd_index \in Sides
          /\ path \in [Sides -> Config]
          /\ mpc \in {"idle", "fill", "publish", "wait"}
          /\ comp_info \in Config
          /\ spc \in {"out", "swap", "load", "rx", "tx"}
          /\ cur \in Sides
          /\ done \in SUBSET Ports
          /\ nb_rx \in Nat
          /\ nb_tx \in Nat
          /\ pool \in Nat
          /\ txq \in Nat

(* The side update_forwarder clears and fills is never the side whose ports *)
(* forward_packets is walking at that moment.                               *)
SidesDisjoint == mpc \in {"fill", "publish"} /\ InBurst => cur # upd_index

(* When update_forwarder is not running, its last accepted argument is in   *)
(* force: it is what `status' reports and what the burst in progress uses,  *)
(* also after arguments that were refused.                                  *)
AcceptedInForce == mpc = "idle" => /\ path[ref_index] = comp_info
                                   /\ InBurst => cur = ref_index
                                   /\ get_forwarder_status \in
                                        {NoConfig, comp_info}

(* Packets left over from a burst are discarded "to release mbuf"           *)
(* (src/vf/forwarder.c:228, port_capability.c:366): no mbuf is lost or      *)
(* released twice, each is free, in a tx queue, or in the burst the worker  *)
(* holds between rx and tx.                                                 *)
MbufsConserved ==
  pool + txq + (IF spc = "tx" THEN nb_rx ELSE 0) = NMbufs

(* forward_packets loses no mbuf and releases none twice as long as no tx   *)
(* port tags packets.                                                       *)
UntaggedMbufsConserved == Tagging = {} => MbufsConserved

(* update_forwarder comes back: the worker picks the new side up.           *)
UpdateReturns == mpc = "fill" ~> mpc = "idle"

Cell == INSTANCE ConfigCell WITH
  Configs <- Config,
  current <- path[ref_index],
  request <- IF mpc = "idle" THEN NoConfig ELSE comp_info,
  phase <- IF mpc = "idle" THEN "idle"
           ELSE IF mpc = "wait" /\ ref_index # upd_index THEN "applied"
           ELSE "requested",
  burst <- IF InBurst THEN path[cur] ELSE NoConfig

(* The two sides and the two indices behave as one configuration that is    *)
(* replaced atomically between bursts, although the ports of the burst in   *)
(* progress are read from shared memory at every turn of the loop.          *)
ImplementsCell == Cell!Spec
=============================================================================
