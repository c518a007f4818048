---------------------------- MODULE PortCapability ----------------------------
(***************************************************************************)
(* src/shared/secondary/spp_worker_th/port_capability.c: the VLAN          *)
(* operations of the devices, kept twice per device and direction.  The    *)
(* manager fills the update side and records the device in a static list;  *)
(* the worker that takes over an update switches everything in the lists.  *)
(***************************************************************************)
EXTENDS Integers, Sequences, SequencesExt

CONSTANTS NDevs            \* RTE_MAX_ETHPORTS, devices and length of the lists

VARIABLES mng,             \* g_port_mng_info: ref, upd and both sides
          rxtx_list        \* rx_list and tx_list, as long as num_rx and num_tx

TwoSides == {0, 1}
Devs == 0 .. NDevs - 1
capability == <<mng, rxtx_list>>

(* sppwk_port_capability_init: ref side 0, update side 1, nothing to do. *)
CapabilityInit ==
  /\ mng = [e \in Devs |-> [d \in {"rx", "tx"} |->
              [ref |-> 0, upd |-> 1, side |-> [s \in TwoSides |-> <<>>]]]]
  /\ rxtx_list = [d \in {"rx", "tx"} |-> <<>>]

(* sppwk_get_port_attrs *)
InForce(e, d) == mng[e][d].side[mng[e][d].ref]

(* The manager fills the update side of a device with the attributes that   *)
(* the port has for this direction, and offers it.                          *)
update_port_attrs(m, e, d, attrs) ==
  [m EXCEPT ![e][d].side[m[e][d].upd] = SelectSeq(attrs, LAMBDA a : a.dir = d),
            ![e][d].upd = m[e][d].ref]

(* Updates of a component: pairs of a device and the attributes of its port *)
(* for the rx ports, then for the tx ports.                                 *)
FoldPorts(m, d, ups) ==
  LET after[k \in 0 .. Len(ups)] ==
        IF k = 0 THEN m ELSE update_port_attrs(after[k - 1], ups[k].dev, d, ups[k].attrs)
  IN after[Len(ups)]

DevsOf(ups) == [k \in 1 .. Len(ups) |-> ups[k].dev]

sppwk_update_port_dir(rx, tx) ==
  /\ mng' = FoldPorts(FoldPorts(mng, "rx", rx), "tx", tx)
  /\ rxtx_list' = [rxtx_list EXCEPT !["rx"] = @ \o DevsOf(rx),
                                    !["tx"] = @ \o DevsOf(tx)]

(* More entries than the lists have room for are written behind them. *)
ListsOverrun(rx, tx) == \/ Len(rxtx_list["rx"]) + Len(rx) > NDevs
                        \/ Len(rxtx_list["tx"]) + Len(tx) > NDevs

(* Bug: the entries are dropped before they are used. *)
sppwk_swap_two_sidesMutForget ==
  /\ rxtx_list' = [d \in {"rx", "tx"} |-> [k \in 1 .. Len(rxtx_list[d]) |-> 0]]
  /\ mng' = [e \in Devs |-> [d \in {"rx", "tx"} |->
               IF e \in ToSet(rxtx_list'[d])
               THEN [mng[e][d] EXCEPT !.ref = (mng[e][d].upd + 1) % 2]
               ELSE mng[e][d]]]

(* SPPWK_SWAP_REF.  The entries become 0 and the lengths are never reset,   *)
(* so from then on device 0 is switched every time.                         *)
sppwk_swap_two_sides ==
  /\ mng' = [e \in Devs |-> [d \in {"rx", "tx"} |->
               IF e \in ToSet(rxtx_list[d])
               THEN [mng[e][d] EXCEPT !.ref = (mng[e][d].upd + 1) % 2]
               ELSE mng[e][d]]]
  /\ rxtx_list' = [d \in {"rx", "tx"} |-> [k \in 1 .. Len(rxtx_list[d]) |-> 0]]

(* What becomes of the VLAN id of a packet; Untag is none.  A tag that is   *)
(* there is overwritten.                                                    *)
Untag == -1
add_vlan_tag_one(vid, attrs) == attrs.vid
del_vlan_tag_one(vid) == Untag

(* vlan_operation on one packet: every operation is applied with the        *)
(* capability of the first one.                                             *)
VlanOf(e, d, vid) ==
  LET ops == InForce(e, d)
      after[k \in 0 .. Len(ops)] ==
        IF k = 0 THEN vid
        ELSE IF ops[k].ops = "add_vlantag" THEN add_vlan_tag_one(after[k - 1], ops[1])
        ELSE del_vlan_tag_one(after[k - 1])
  IN after[Len(ops)]
=============================================================================
