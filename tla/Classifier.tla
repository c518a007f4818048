----------------------------- MODULE Classifier -----------------------------
(***************************************************************************)
(* src/vf/classifier.c: one entry of cls_mng_info_list, the commands that  *)
(* change it (component, port, classifier_table: src/vf/vf_cmd_runner.c)   *)
(* and the worker that classifies packets with it.  A packet goes to the   *)
(* tx ports that its VLAN id and destination address select, through a     *)
(* buffer per tx port; a multicast packet is shared by several buffers and *)
(* counted by references.                                                  *)
(***************************************************************************)
EXTENDS Integers, Sequences, FiniteSets

CONSTANTS Ports,             \* tx ports
          Vids, Untagged,    \* VLAN ids, VLAN_UNTAGGED_VID is one of them
          Macs,              \* addresses: entries have them, packets go to them
          Dummy,             \* CLS_DUMMY_ADDR, entered as "default"
          Multicast,         \* those that are multicast addresses
          Attrs,             \* VLAN ids and addresses that commands give
          Pkts,              \* packet buffers
          MaxBurst,          \* MAX_PKT_BURST
          MaxFailures        \* bound: hash tables that cannot be made or filled

ASSUME ClassifierAssumption ==
  /\ IsFiniteSet(Ports)
  /\ Untagged \in Vids
  /\ Dummy \in Macs \ Multicast
  /\ Attrs \subseteq [vid : Vids, mac : Macs]
  /\ MaxBurst \in Nat \ {0}
  /\ MaxFailures \in Nat

Sides == {0, 1}
MaxTx == Cardinality(Ports)
TxIndex == 1 .. MaxTx
NoIndex == 0

(* cls_attrs of a port; mac_addr 0 is no entry *)
NoAttr == [vid |-> Untagged, mac |-> "none"]

(* A configuration: is there an rx port, and the tx ports with their        *)
(* attributes, in the order they were added.                                *)
Entries == [port : Ports, vid : Vids, mac : Macs \union {"none"}]
EmptyCfg == [rx |-> FALSE, tx |-> <<>>]
NoCfg == [null |-> TRUE]

(* struct mac_classifier, and NULL *)
NewClf == [ports |-> <<>>, default |-> NoIndex, tbl |-> [m \in Macs |-> NoIndex]]
NoClf == [null |-> TRUE]

(* struct cls_comp_info.  cfg is what init_component_info was given; buf is *)
(* pkts of each tx port.                                                    *)
ZeroSide == [cfg |-> EmptyCfg, clf |-> [v \in Vids |-> NoClf], entry |-> FALSE,
             buf |-> [i \in TxIndex |-> <<>>]]

VARIABLES
  attr,                  \* cls_attrs of every port
  comp,                  \* rx and tx ports of the component
  running,               \* the component is on its slave's list
  ref, upd, list, used,  \* struct cls_mng_info
  mpc,                   \* master: "idle", "update", "fill", "wait", "stop"
  accepted,              \* what the last successful update was given
  spc, cur, pkt, push,   \* worker: position, side, packet, buffers to come
  refcnt, txq,           \* of every packet buffer: references, those of tx
  failures               \* updates that failed

config == <<attr, comp, running>>
sides == <<ref, upd, list, used>>
worker == <<spc, cur, pkt, push>>
packets == <<refcnt, txq>>
vars == <<attr, comp, running, ref, upd, list, used, mpc, accepted, spc, cur,
          pkt, push, refcnt, txq, failures>>

NoPkt == "none"

(* init_cls_mng_info: all zero, both indices included *)
Init == /\ attr = [p \in Ports |-> NoAttr]
        /\ comp = [rx |-> FALSE, tx |-> <<>>]
        /\ running = FALSE
        /\ ref = 0 /\ upd = 0
        /\ list = [s \in Sides |-> ZeroSide]
        /\ used = FALSE
        /\ mpc = "idle"
        /\ accepted = EmptyCfg
        /\ spc = "out" /\ cur = 0 /\ pkt = NoPkt /\ push = <<>>
        /\ refcnt = [b \in Pkts |-> 0]
        /\ txq = [b \in Pkts |-> 0]
        /\ failures = 0

-----------------------------------------------------------------------------
(* Commands                                                                *)

Has(p) == \E n \in 1 .. Len(comp.tx) : comp.tx[n] = p
Without(s, i) == SubSeq(s, 1, i - 1) \o SubSeq(s, i + 1, Len(s))

(* Commands are executed one at a time, each with its flush. *)
Store == mpc = "idle" /\ UNCHANGED <<sides, accepted, failures, worker, packets>>

CompStart == /\ Store
             /\ ~running
             /\ running' = TRUE
             /\ mpc' = "update"
             /\ UNCHANGED <<attr, comp>>

(* The component leaves the list of its slave; the entry stays as it is,    *)
(* because init_classifier_info is not called.                              *)
CompStop == /\ Store
            /\ running
            /\ running' = FALSE
            /\ comp' = [rx |-> FALSE, tx |-> <<>>]
            /\ mpc' = "stop"
            /\ UNCHANGED attr

(* update_lcore_info waits until the slave has left the list. *)
StopDone == /\ mpc = "stop" /\ spc = "out"
            /\ mpc' = "idle"
            /\ UNCHANGED <<config, sides, accepted, failures, worker, packets>>

RxPort(on) == /\ Store
              /\ running /\ comp.rx # on
              /\ comp' = [comp EXCEPT !.rx = on]
              /\ mpc' = "update"
              /\ UNCHANGED <<attr, running>>

TxAdd(p) == /\ Store
            /\ running /\ ~Has(p)
            /\ comp' = [comp EXCEPT !.tx = Append(@, p)]
            /\ mpc' = "update"
            /\ UNCHANGED <<attr, running>>

TxDel(p) == /\ Store
            /\ running
            /\ \E i \in DOMAIN comp.tx :
                 /\ comp.tx[i] = p
                 /\ comp' = [comp EXCEPT !.tx = Without(@, i)]
            /\ mpc' = "update"
            /\ UNCHANGED <<attr, running>>

(* update_cls_table: the classifier is updated if the port is one of its    *)
(* tx ports (set_component_change_port).                                    *)
TableAdd(p, a) == /\ Store
                  /\ attr[p] = NoAttr
                  /\ attr' = [attr EXCEPT ![p] = a]
                  /\ mpc' = IF Has(p) THEN "update" ELSE "idle"
                  /\ UNCHANGED <<comp, running>>

TableDel(p) == /\ Store
               /\ attr[p] # NoAttr
               /\ attr' = [attr EXCEPT ![p] = NoAttr]
               /\ mpc' = IF Has(p) THEN "update" ELSE "idle"
               /\ UNCHANGED <<comp, running>>

-----------------------------------------------------------------------------
(* update_classifier                                                       *)

Config == [rx |-> comp.rx,
           tx |-> [n \in 1 .. Len(comp.tx) |->
                     [port |-> comp.tx[n], vid |-> attr[comp.tx[n]].vid,
                      mac |-> attr[comp.tx[n]].mac]]]

ClfOf(side, v) == IF side.clf[v] = NoClf THEN NewClf ELSE side.clf[v]

(* The i-th turn of the loop of init_component_info, for tx port e.  A turn *)
(* changes the tables and mac_addr_entry (entry) only.                      *)
AddEntry(side, i, e) ==
  LET clf == [ClfOf(side, e.vid) EXCEPT !.ports = Append(@, i)]
  IN IF e.mac = "none" THEN side
     ELSE [side EXCEPT !.entry = TRUE,
                       !.clf[e.vid] = IF e.mac = Dummy
                                      THEN [clf EXCEPT !.default = i]
                                      ELSE [clf EXCEPT !.tbl[e.mac] = i]]

(* The side after n turns of the loop. *)
init_component_info(side, c, n) ==
  LET turn[k \in 0 .. n] ==
        IF k = 0 THEN [clf |-> side.clf, entry |-> FALSE]
                 ELSE AddEntry(turn[k - 1], k, c.tx[k])
  IN [cfg |-> c, clf |-> turn[n].clf, entry |-> turn[n].entry,
      buf |-> [i \in TxIndex |-> IF i <= Len(c.tx) THEN <<>> ELSE side.buf[i]]]

UpdateFill ==
  /\ mpc = "update"
  /\ list' = [list EXCEPT ![upd] =
                init_component_info(@, Config, Len(Config.tx))]
  /\ accepted' = Config
  /\ mpc' = "fill"
  /\ UNCHANGED <<config, ref, upd, used, failures, worker, packets>>

(* The (n+1)-th turn cannot create a table, or cannot add to it; the        *)
(* command is answered with an error.                                       *)
UpdateFails ==
  /\ mpc = "update"
  /\ failures < MaxFailures /\ failures' = failures + 1
  /\ \E n \in 0 .. Len(Config.tx) - 1 :
       LET e == Config.tx[n + 1]
           side == init_component_info(list[upd], Config, n)
       IN /\ e.mac # "none"
          /\ \/ /\ side.clf[e.vid] = NoClf
                /\ list' = [list EXCEPT ![upd] = side]
             \/ /\ e.mac # Dummy
                /\ list' = [list EXCEPT ![upd] =
                     [side EXCEPT !.entry = TRUE,
                                  !.clf[e.vid] = [ClfOf(side, e.vid) EXCEPT
                                                    !.ports = Append(@, n + 1)]]]
  /\ mpc' = "idle"
  /\ UNCHANGED <<config, ref, upd, used, accepted, worker, packets>>

UpdatePublish ==
  /\ mpc = "fill"
  /\ upd' = ref
  /\ used' = TRUE
  /\ mpc' = "wait"
  /\ UNCHANGED <<config, ref, list, accepted, failures, worker, packets>>

(* Bug: the old side is cleaned without waiting for the worker. *)
UpdateCleanMutNoWait ==
  /\ mpc = "wait"
  /\ list' = [list EXCEPT ![upd] = ZeroSide]
  /\ mpc' = "idle"
  /\ UNCHANGED <<config, ref, upd, used, accepted, failures, worker, packets>>

(* The worker has left the old side: clean_component_info. *)
UpdateClean ==
  /\ mpc = "wait" /\ ref # upd
  /\ list' = [list EXCEPT ![upd] = ZeroSide]
  /\ mpc' = "idle"
  /\ UNCHANGED <<config, ref, upd, used, accepted, failures, worker, packets>>

-----------------------------------------------------------------------------
(* classify_packets                                                        *)

(* The places in the buffers in I, tx port and index in pkts, that hold b. *)
Held(side, I, b) == {x \in I \X (1 .. MaxBurst) : /\ x[2] <= Len(side.buf[x[1]])
                                                 /\ side.buf[x[1]][x[2]] = b}

(* transmit_packets for the buffers in I: of buffer i the driver takes the  *)
(* first k[i] packets, the others are freed.                                *)
Transmit(side, I) ==
  \E k \in [I -> 0 .. MaxBurst] :
    /\ \A i \in I : k[i] <= Len(side.buf[i])
    /\ txq' = [b \in Pkts |->
         txq[b] + Cardinality({x \in Held(side, I, b) : x[2] <= k[x[1]]})]
    /\ refcnt' = [b \in Pkts |->
         refcnt[b] - Cardinality({x \in Held(side, I, b) : x[2] > k[x[1]]})]

Emptied(side, I) == [side EXCEPT !.buf = [i \in TxIndex |->
                                            IF i \in I THEN <<>> ELSE @[i]]]
TxPorts(side) == 1 .. Len(side.cfg.tx)

change_classifier_index ==
  /\ spc = "out" /\ running
  /\ \/ /\ ref = upd
        /\ Transmit(list[ref], TxPorts(list[ref]))
        /\ list' = [list EXCEPT ![ref] = Emptied(@, TxPorts(@))]
        /\ ref' = 1 - upd
     \/ /\ ref # upd
        /\ UNCHANGED <<ref, list, packets>>
  /\ spc' = "load"
  /\ UNCHANGED <<config, upd, used, mpc, accepted, failures, cur, pkt, push>>

(* The reference side is looked up, once for the whole call. *)
LoadSide == /\ spc = "load"
            /\ cur' = ref
            /\ spc' = "in"
            /\ UNCHANGED <<config, sides, mpc, accepted, failures, pkt, push, packets>>

Ready(side) == side.cfg.rx /\ side.cfg.tx # <<>> /\ side.entry

NotReady == /\ spc = "in" /\ ~Ready(list[cur])
            /\ spc' = "out"
            /\ UNCHANGED <<config, sides, mpc, accepted, failures, cur, pkt, push, packets>>

(* prev_tsc is 0 at every call, so the drain interval has always passed. *)
Drain == /\ spc = "in" /\ Ready(list[cur])
         /\ Transmit(list[cur], TxPorts(list[cur]))
         /\ list' = [list EXCEPT ![cur] = Emptied(@, TxPorts(@))]
         /\ spc' = "rx"
         /\ UNCHANGED <<config, ref, upd, used, mpc, accepted, failures, cur, pkt, push>>

(* get_general_default_classified_index *)
GeneralDefault(side) ==
  IF side.clf[Untagged] = NoClf THEN NoIndex ELSE side.clf[Untagged].default

One(i) == IF i = NoIndex THEN <<>> ELSE <<i>>

(* Every port of the VLAN, and the general default if the packet is tagged. *)
handle_l2multicast_packet(side, v) ==
  side.clf[v].ports \o (IF v = Untagged THEN <<>> ELSE One(GeneralDefault(side)))

(* Bug: the count does not include the general default. *)
NofActClsdMutPorts(side, v) == Len(side.clf[v].ports)

(* n_act_clsd *)
NofActClsd(side, v) ==
  Len(side.clf[v].ports) +
    (IF GeneralDefault(side) # NoIndex /\ v # Untagged THEN 1 ELSE 0)

IsMulticast(side, v, m) ==
  side.clf[v] # NoClf /\ side.clf[v].tbl[m] = NoIndex /\ m \in Multicast

(* Bug: a VLAN without a default has no destination for unknown addresses. *)
select_classified_indexMutNoGeneral(side, v, m) ==
  LET clf == side.clf[v]
  IN IF clf = NoClf THEN GeneralDefault(side)
     ELSE IF clf.tbl[m] # NoIndex THEN clf.tbl[m]
     ELSE clf.default

(* select_classified_index, for a packet that is not multicast *)
select_classified_index(side, v, m) ==
  LET clf == side.clf[v]
  IN IF clf = NoClf THEN GeneralDefault(side)
     ELSE IF clf.tbl[m] # NoIndex THEN clf.tbl[m]
     ELSE IF clf.default = NoIndex /\ v # Untagged THEN GeneralDefault(side)
     ELSE clf.default

(* The buffers a packet with VLAN id v and address m is pushed to. *)
Pushes(side, v, m) ==
  IF IsMulticast(side, v, m) THEN handle_l2multicast_packet(side, v)
  ELSE One(select_classified_index(side, v, m))

(* A packet is received: without a destination it is freed at once,         *)
(* otherwise it is counted once for every buffer it is pushed to.           *)
Receive ==
  /\ spc = "rx"
  /\ \E b \in Pkts, v \in Vids, m \in Macs :
       LET to == Pushes(list[cur], v, m)
       IN /\ refcnt[b] = 0
          /\ \/ /\ to = <<>>
                /\ UNCHANGED <<spc, pkt, push, refcnt>>
             \/ /\ to # <<>>
                /\ spc' = "push" /\ pkt' = b /\ push' = to
                /\ refcnt' = [refcnt EXCEPT ![b] =
                     IF IsMulticast(list[cur], v, m)
                     THEN NofActClsd(list[cur], v) ELSE 1]
  /\ UNCHANGED <<config, sides, mpc, accepted, failures, cur, txq>>

(* push_packet: a full buffer is transmitted. *)
push_packet ==
  LET i == Head(push)
      side == [list[cur] EXCEPT !.buf[i] = Append(@, pkt)]
      full == IF Len(side.buf[i]) = MaxBurst THEN {i} ELSE {}
  IN /\ spc = "push"
     /\ Transmit(side, full)
     /\ list' = [list EXCEPT ![cur] = Emptied(side, full)]
     /\ push' = Tail(push)
     /\ IF Len(push) = 1 THEN spc' = "rx" /\ pkt' = NoPkt
                         ELSE UNCHANGED <<spc, pkt>>
     /\ UNCHANGED <<config, ref, upd, used, mpc, accepted, failures, cur>>

Leave == /\ spc = "rx"
         /\ spc' = "out"
         /\ UNCHANGED <<config, sides, mpc, accepted, failures, cur, pkt, push, packets>>

(* A device has sent a packet. *)
Sent(b) == /\ txq[b] > 0
           /\ txq' = [txq EXCEPT ![b] = @ - 1]
           /\ refcnt' = [refcnt EXCEPT ![b] = @ - 1]
           /\ UNCHANGED <<config, sides, mpc, accepted, failures, worker>>

-----------------------------------------------------------------------------
Command == \/ CompStart \/ CompStop
           \/ \E on \in BOOLEAN : RxPort(on)
           \/ \E p \in Ports : \/ TxAdd(p) \/ TxDel(p) \/ TableDel(p)
                               \/ \E a \in Attrs : TableAdd(p, a)

Flush == StopDone \/ UpdateFill \/ UpdateFails \/ UpdatePublish \/ UpdateClean

classify_packets == \/ change_classifier_index \/ LoadSide \/ NotReady
                    \/ Drain \/ Receive \/ push_packet \/ Leave

Next == Command \/ Flush \/ classify_packets \/ \E b \in Pkts : Sent(b)

Spec == Init /\ [][Next]_vars

-----------------------------------------------------------------------------
(* Properties                                                              *)

InCall == spc \in {"in", "rx", "push"}

ConfigType(c) == /\ c.rx \in BOOLEAN
                 /\ c.tx \in Seq(Entries) /\ Len(c.tx) <= MaxTx

ClfType(c) == \/ c = NoClf
              \/ /\ c.ports \in Seq(TxIndex)
                 /\ c.default \in {NoIndex} \union TxIndex
                 /\ c.tbl \in [Macs -> {NoIndex} \union TxIndex]

SideType(s) == /\ ConfigType(s.cfg)
               /\ \A v \in Vids : ClfType(s.clf[v])
               /\ s.entry \in BOOLEAN
               /\ \A i \in TxIndex : /\ s.buf[i] \in Seq(Pkts)
                                     /\ Len(s.buf[i]) < MaxBurst

(* Type correctness: the sides hold well-formed tables, and a tx buffer never *)
(* reaches the size at which push_packet sends it.                          *)
TypeOK == /\ attr \in [Ports -> Attrs \union {NoAttr}]
          /\ comp.rx \in BOOLEAN /\ comp.tx \in Seq(Ports)
          /\ running \in BOOLEAN
          /\ ref \in Sides /\ upd \in Sides /\ used \in BOOLEAN
          /\ \A s \in Sides : SideType(list[s])
          /\ mpc \in {"idle", "update", "fill", "wait", "stop"}
          /\ ConfigType(accepted)
          /\ spc \in {"out", "load", "in", "rx", "push"}
          /\ cur \in Sides
          /\ pkt \in Pkts \union {NoPkt}
          /\ push \in Seq(TxIndex)
          /\ refcnt \in [Pkts -> Nat] /\ txq \in [Pkts -> Nat]

(* What a configuration c means, without tables: the tx ports a packet goes *)
(* to.  The latest port with its VLAN id and address; else, if the address  *)
(* is multicast, every port of its VLAN and, for a tagged packet, the       *)
(* untagged default; else the default of its VLAN; else the untagged one.   *)
Listed(c, v) == {i \in 1 .. Len(c.tx) : c.tx[i].vid = v /\ c.tx[i].mac # "none"}
Latest(I) == {i \in I : \A j \in I : j <= i}
Exact(c, v, m) == Latest({i \in Listed(c, v) : c.tx[i].mac = m /\ m # Dummy})
Default(c, v) == Latest({i \in Listed(c, v) : c.tx[i].mac = Dummy})

Destinations(c, v, m) ==
  IF Exact(c, v, m) # {} THEN Exact(c, v, m)
  ELSE IF m \in Multicast /\ Listed(c, v) # {}
       THEN Listed(c, v) \union Default(c, Untagged)
  ELSE IF Default(c, v) # {} /\ m \notin Multicast THEN Default(c, v)
  ELSE Default(c, Untagged)

(* Between commands the tables in force send every packet, once each, to    *)
(* the ports that the component's ports and their attributes give it        *)
(* (select_classified_index and handle_l2multicast_packet against           *)
(* update_port and update_cls_table): every command that changes them has   *)
(* flagged the component for an update, and nothing older takes part.  An   *)
(* update that fails ends this: its side keeps the entries before it.       *)
ClassifiesAsAccepted ==
  mpc = "idle" /\ running /\ failures = 0 =>
    \A v \in Vids, m \in Macs :
      LET to == Pushes(list[ref], v, m)
      IN /\ {to[n] : n \in 1 .. Len(to)} = Destinations(Config, v, m)
         /\ Len(to) = Cardinality(Destinations(Config, v, m))

(* A packet buffer has exactly as many references as there are places that  *)
(* hold it (the buffers of both sides, the packet being pushed, the tx      *)
(* queues): multicast neither leaks nor releases too early, and no side is  *)
(* cleaned with packets in it.  Once an update has failed, an entry of the  *)
(* side it left half made may lead past the tx ports, where packets stay.   *)
RefcntExact ==
  failures = 0 => \A b \in Pkts :
    refcnt[b] = txq[b] + (IF pkt = b THEN Len(push) ELSE 0)
                + Cardinality(Held(list[0], TxIndex, b))
                + Cardinality(Held(list[1], TxIndex, b))

(* The side whose tables update_classifier frees is not the one the worker  *)
(* is looking packets up in ("wait until no longer access the new update    *)
(* side").                                                                  *)
FreedSideUnused ==
  [][\A s \in Sides :
       InCall /\ s = cur /\ (\E v \in Vids : list[s].clf[v] # NoClf)
         => list'[s].clf = list[s].clf]_vars

Cell == INSTANCE ConfigCell WITH
  Configs <- [rx : BOOLEAN, tx : Seq(Entries)],
  NoConfig <- NoCfg,
  current <- list[ref].cfg,
  request <- IF mpc \in {"fill", "wait"} THEN accepted ELSE NoCfg,
  phase <- IF mpc \notin {"fill", "wait"} THEN "idle"
           ELSE IF mpc = "wait" /\ ref # upd THEN "applied" ELSE "requested",
  burst <- IF InCall THEN list[cur].cfg ELSE NoCfg

(* A classifier's configuration too is replaced atomically between bursts:  *)
(* no burst of packets is classified under two of them.                     *)
ImplementsCell == Cell!Spec
=============================================================================
