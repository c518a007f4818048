------------------------------ MODULE CmdParser ------------------------------
(***************************************************************************)
(* src/shared/secondary/spp_worker_th/cmd_parser.c: which requests a       *)
(* secondary with worker threads accepts, and the command it makes of      *)
(* them.  A request is the sequence of its words; a port is a record, a    *)
(* number is a number, every other word is a string.  The checks read the  *)
(* management data: the components, the classifier attributes of the ports *)
(* and which ports have an interface type.                                 *)
(***************************************************************************)
EXTENDS Integers, Sequences, FiniteSets

CONSTANTS Names,         \* names of components
          MaxEthPorts,   \* RTE_MAX_ETHPORTS
          MaxQueues,     \* RTE_MAX_QUEUES_PER_PORT
          MaxLcore,      \* RTE_MAX_LCORE
          Queues         \* queue_info: of every phy port, [rx |-> n, tx |-> n]

VARIABLES comp,          \* struct sppwk_comp_info of every name, or NoComp
          cls,           \* cls_attrs of every port
          added          \* ports whose iface_type is not UNDEF

Dirs == {"rx", "tx"}
VidMax == 4095           \* ETH_VLAN_ID_MAX
PcpMax == 7              \* SPP_VLAN_PCP_MAX
MaxParams == 8           \* SPPWK_MAX_PARAMS
NoQueue == -1            \* a port written without "nq"

NoComp == [type |-> "none"]
NoCls == [vid |-> VidMax, mac |-> "zero"]
NoAttrs == [ops |-> "none", dir |-> "none", vid |-> 0, pcp |-> 0]
Refused == [type |-> "refused"]

Started == {n \in Names : comp[n] # NoComp}

(* sppwk_check_used_port: is the port an rx (or tx) port of a component? *)
Uses(n, p, d) == \E i \in 1 .. Len(comp[n][d]) : comp[n][d][i] = p
CheckUsedPort(p, d) == \E n \in Started : Uses(n, p, d)

get_port_max_queues(no) ==
  IF Queues[no].rx > Queues[no].tx THEN Queues[no].rx ELSE Queues[no].tx

PortIdx(uid) == [type |-> uid.type, no |-> uid.no,
                 queue |-> IF uid.nq = NoQueue THEN 0 ELSE uid.nq]

(* The interface number may be RTE_MAX_ETHPORTS itself, and the number of a *)
(* queue is only read here.                                                 *)
parse_resource_uid(uid) ==
  /\ uid.type \in {"phy", "vhost", "ring"}
  /\ uid.nq # NoQueue => uid.type = "phy"
  /\ uid.no \in 0 .. MaxEthPorts
  /\ uid.type = "phy" =>
       ((uid.nq # NoQueue) <=> (get_port_max_queues(uid.no) > 1))

(* What the arrays of struct iface_info hold. *)
InArrays(p) == p.no < MaxEthPorts /\ p.queue \in 0 .. MaxQueues - 1

-----------------------------------------------------------------------------
(* component                                                               *)

parse_comp_name(action, name) == action = "start" => name \notin Started

parse_comp_lcore_id(action, core) == action = "start" => core \in 0 .. MaxLcore - 1

(* get_comp_type_from_str of spp_vf *)
parse_comp_type(action, type) ==
  action = "start" => type \in {"classifier", "merge", "forward"}

(* Missing words leave the zeroed fields of the command. *)
parse_cmd_comp(argv) ==
  LET given(i) == i <= Len(argv)
  IN IF /\ argv[2] \in {"start", "stop"}
        /\ parse_comp_name(argv[2], argv[3])
        /\ given(4) => parse_comp_lcore_id(argv[2], argv[4])
        /\ given(5) => parse_comp_type(argv[2], argv[5])
     THEN [type |-> "component", action |-> argv[2], name |-> argv[3],
           core |-> IF given(4) THEN argv[4] ELSE 0,
           wk |-> IF given(5) THEN argv[5] ELSE "none"]
     ELSE Refused

-----------------------------------------------------------------------------
(* port                                                                    *)

(* Without the VLAN words a port that is rx and tx already is refused here. *)
parse_port(action, uid, override) ==
  /\ parse_resource_uid(uid)
  /\ ~override /\ action = "add" => \E d \in Dirs : ~CheckUsedPort(PortIdx(uid), d)

(* Bug: the direction is not looked at. *)
parse_port_directionMutUnused(action, p, d, override) ==
  /\ d \in Dirs
  /\ action = "add" /\ p.type = "phy" => p.queue <= Queues[p.no][d] - 1

parse_port_direction(action, p, d, override) ==
  /\ d \in Dirs
  /\ action = "add" /\ p.type = "phy" => p.queue <= Queues[p.no][d] - 1
  /\ ~override /\ action = "add" => ~CheckUsedPort(p, d)

parse_comp_name_portcmd(name) == name \in Started

parse_port_vlan_ops(ops) == ops \in {"add_vlantag", "del_vlantag"}

parse_port_vid(ops, vid) == ops = "add_vlantag" => vid \in 0 .. VidMax

parse_port_pcp(ops, pcp) == ops = "add_vlantag" => pcp \in 0 .. PcpMax

parse_cmd_port(argv) ==
  LET given(i) == i <= Len(argv)
      override == Len(argv) = MaxParams
      ops == IF given(6) THEN argv[6] ELSE "none"
      tag == ops = "add_vlantag"
  IN IF /\ argv[2] \in {"add", "del"}
        /\ parse_port(argv[2], argv[3], override)
        /\ parse_port_direction(argv[2], PortIdx(argv[3]), argv[4], override)
        /\ parse_comp_name_portcmd(argv[5])
        /\ given(6) => parse_port_vlan_ops(ops)
        /\ given(7) => parse_port_vid(ops, argv[7])
        /\ given(8) => parse_port_pcp(ops, argv[8])
     THEN [type |-> "port", action |-> argv[2], port |-> PortIdx(argv[3]),
           dir |-> argv[4], name |-> argv[5],
           attrs |-> IF ~given(6) THEN NoAttrs
                     ELSE [ops |-> ops, dir |-> argv[4],
                           vid |-> IF tag /\ given(7) THEN argv[7] ELSE 0,
                           pcp |-> IF tag /\ given(8) THEN argv[8]
                                   ELSE IF tag /\ given(7) THEN -1 ELSE 0]]
     ELSE Refused

-----------------------------------------------------------------------------
(* classifier_table                                                        *)

(* sppwk_convert_mac_str_to_int64 reads bytes up to the first one that is   *)
(* not one: an address written with dashes is 0.                            *)
sppwk_convert_mac_str_to_int64(mac) == IF mac = "dashed" THEN "zero" ELSE mac

parse_mac_addr(mac) == IF mac = "default" THEN "dummy" ELSE mac

parse_cls_vid(vid) == vid \in 0 .. VidMax

(* is_used_with_addr of the port *)
parse_cls_port(action, uid, vid, mac) ==
  /\ parse_resource_uid(uid)
  /\ InArrays(PortIdx(uid)) =>
       /\ PortIdx(uid) \in added
       /\ action = "add" => cls[PortIdx(uid)] = NoCls
       /\ action = "del" => cls[PortIdx(uid)] =
                 [vid |-> vid, mac |-> sppwk_convert_mac_str_to_int64(mac)]

(* Bug: the VLAN id of an entry for all VLANs stays 0. *)
ClsVidMutZero(type, vid) == vid

ClsVid(type, vid) == IF type = "mac" THEN VidMax ELSE vid

(* The order of the words is action, type, the VLAN id if there is one,     *)
(* address and port.                                                        *)
parse_cmd_cls_table(argv) ==
  LET n == Len(argv)
      vid == ClsVid(argv[3], IF n = 6 THEN argv[4] ELSE 0)
      mac == parse_mac_addr(argv[n - 1])
  IN IF /\ argv[2] \in {"add", "del"}
        /\ argv[3] \in {"mac", "vlan"}
        /\ n = 6 => parse_cls_vid(argv[4])
        /\ parse_cls_port(argv[2], argv[n], vid, mac)
     THEN [type |-> "cls", action |-> argv[2], vid |-> vid, mac |-> mac,
           port |-> PortIdx(argv[n])]
     ELSE Refused

-----------------------------------------------------------------------------

(* cmd_attr_list: the number of words of every command. *)
NofParams == [classifier_table |-> {5, 6}, status |-> {1}, exit |-> {1},
              component |-> 3 .. 5, port |-> 5 .. MaxParams]

parse_wk_cmd(argv) ==
  IF argv[1] \notin DOMAIN NofParams \/ Len(argv) \notin NofParams[argv[1]]
  THEN Refused
  ELSE CASE argv[1] = "classifier_table" -> parse_cmd_cls_table(argv)
         [] argv[1] = "component" -> parse_cmd_comp(argv)
         [] argv[1] = "port" -> parse_cmd_port(argv)
         [] OTHER -> [type |-> argv[1]]
=============================================================================
