------------------------------ MODULE VfRequests ------------------------------
(***************************************************************************)
(* A REST request to spp_vf from its body to its answer: the handler of    *)
(* spp-ctl (WebApi), the parser (CmdParser), exec_one_cmd and flush_cmd    *)
(* (src/vf/vf_cmd_runner.c, spp_worker_th/cmd_runner.c), the VLAN          *)
(* operations of the ports (PortCapability) and the workers that take the  *)
(* updates over.  How lcores take over their lists of components is        *)
(* modelled in VfWorker, what a component does with packets in Forwarder   *)
(* and Classifier; here both are one step each.                            *)
(***************************************************************************)
EXTENDS CmdParser, WebApi, PortCapability

CONSTANTS Ports,         \* ports of struct iface_info the requests name
          Dev,           \* ethdev_port_id of each port
          Hosted,        \* those found by init_host_port_info
          CapMax,        \* PORT_CAPABL_MAX
          Master, Slaves,\* lcores; the others are SPPWK_LCORE_UNUSED
          Requests,      \* the requests clients make
          MaxRequests,   \* bound: requests that are executed
          MayFail        \* "device": a vhost or ring device, "table": a hash table

ASSUME VfRequestsAssumption ==
  /\ Dev \in [Ports -> Devs] /\ Hosted \subseteq Ports
  /\ NDevs = MaxEthPorts
  /\ CapMax \in Nat \ {0} /\ MaxRequests \in Nat
  /\ Master \notin Slaves
  /\ MayFail \subseteq {"device", "table"}

VARIABLES
  attrs,                 \* port_attrs of every port
  made,                  \* ports that have a device (ethdev_port_id >= 0)
  chcore, chcomp,        \* change_core, change_component
  corelist,              \* slots and lcores: the lists the slaves read
  path,                  \* what the workers use: of every slot and kind
  same,                  \* slots and kinds whose ref_index is upd_index
  newpath,               \* what is in the side the manager waits for
  mpc,                   \* master: where it is in the command
  req, answer,           \* the last request and its HTTP status
  left,                  \* ports and directions with operations nobody removed
  mixed,                 \* those that several components handle, or a failed flush
  tagged,                \* those taken, with a tag, by a second component
  lost,                  \* components whose last change never reached the worker
  failed,                \* some flush failed
  nreq

config == <<comp, cls, added, attrs>>
flags == <<chcore, chcomp>>
ghosts == <<left, mixed, tagged, lost, failed>>
inforce == <<made, corelist, path, same, newpath, capability>>
vars == <<config, flags, ghosts, inforce, mpc, req, answer, nreq>>

Ids == 0 .. MaxLcore - 1
Kinds == {"fwd", "cls"}
KindOf(type) == IF type = "classifier" THEN "cls" ELSE "fwd"
NoPath == [type |-> "none"]
NoRequest == [handler |-> "none"]
Ready == "idle"

(* main of spp_vf: init_mng_data, init_forwarder, init_cls_mng_info (both   *)
(* indices 0) and sppwk_port_capability_init.                               *)
Init ==
  /\ comp = [n \in Names |-> NoComp]
  /\ cls = [p \in Ports |-> NoCls]
  /\ added = Hosted /\ made = Hosted
  /\ attrs = [p \in Ports |-> [i \in 1 .. CapMax |-> NoAttrs]]
  /\ chcore = {} /\ chcomp = {}
  /\ corelist = {}
  /\ path = [i \in Ids |-> [k \in Kinds |-> NoPath]]
  /\ same = Ids \X {"cls"} /\ newpath = NoPath
  /\ mpc = Ready /\ req = NoRequest /\ answer = 0
  /\ left = {} /\ mixed = {} /\ tagged = {} /\ lost = {} /\ failed = FALSE
  /\ nreq = 0
  /\ CapabilityInit

-----------------------------------------------------------------------------
(* exec_one_cmd: the command is stored in the management data              *)

(* get_free_lcore_id: the lowest slot that has no type *)
FreeIds == {i \in Ids : \A n \in Started : comp[n].id # i}
Lowest(S) == CHOOSE i \in S : \A j \in S : i <= j

(* Bug: the new component is not marked changed. *)
CompStartMutFlag(c) ==
  /\ c.core \in Slaves \union {Master}
  /\ FreeIds # {}
  /\ comp' = [comp EXCEPT ![c.name] =
                [id |-> Lowest(FreeIds), type |-> c.wk, core |-> c.core,
                 rx |-> <<>>, tx |-> <<>>]]
  /\ chcore' = chcore \union {c.core}
  /\ UNCHANGED <<chcomp, cls, added, attrs, left, mixed, tagged, lost>>

CompStart(c) ==
  /\ c.core \in Slaves \union {Master}
  /\ FreeIds # {}
  /\ comp' = [comp EXCEPT ![c.name] =
                [id |-> Lowest(FreeIds), type |-> c.wk, core |-> c.core,
                 rx |-> <<>>, tx |-> <<>>]]
  /\ chcore' = chcore \union {c.core}
  /\ chcomp' = chcomp \union {c.name}
  /\ UNCHANGED <<cls, added, attrs, left, mixed, tagged, lost>>

(* Bug: the lcore of the component is not marked changed. *)
CompStopMutCore(c) ==
  /\ IF c.name \in Started
     THEN /\ comp' = [comp EXCEPT ![c.name] = NoComp]
          /\ chcomp' = chcomp \ {c.name}
          /\ left' = left \union {<<p, d>> \in Ports \X Dirs : Uses(c.name, p, d)}
          /\ lost' = lost \ {c.name}
     ELSE UNCHANGED <<comp, chcomp, left, lost>>
  /\ UNCHANGED <<chcore, cls, added, attrs, mixed, tagged>>

(* The operations of its ports stay in port_attrs. *)
CompStop(c) ==
  /\ IF c.name \in Started
     THEN /\ comp' = [comp EXCEPT ![c.name] = NoComp]
          /\ chcore' = chcore \union {comp[c.name].core}
          /\ chcomp' = chcomp \ {c.name}
          /\ left' = left \union {<<p, d>> \in Ports \X Dirs : Uses(c.name, p, d)}
          /\ lost' = lost \ {c.name}
     ELSE UNCHANGED <<comp, chcore, chcomp, left, lost>>
  /\ UNCHANGED <<cls, added, attrs, mixed, tagged>>

(* check_vf_port_count *)
CountAllows(n, d) ==
  LET rx == Len(comp[n].rx) + (IF d = "rx" THEN 1 ELSE 0)
      tx == Len(comp[n].tx) + (IF d = "tx" THEN 1 ELSE 0)
  IN CASE comp[n].type = "forward" -> rx <= 1 /\ tx <= 1
       [] comp[n].type = "merge" -> tx <= 1
       [] comp[n].type = "classifier" -> rx <= 1
       [] OTHER -> FALSE

(* The first entry of port_attrs with these operations, 0 if there is none. *)
FirstWith(p, ops) ==
  LET found == {i \in 1 .. CapMax : attrs[p][i].ops = ops}
  IN IF found = {} THEN 0 ELSE Lowest(found)

(* Again with add_vlantag: the first entry with that operation, of either   *)
(* direction, is overwritten.  Without it nothing happens.                  *)
PortAgain(c) ==
  LET i == FirstWith(c.port, "add_vlantag")
      tag == c.attrs.ops = "add_vlantag"
  IN /\ CountAllows(c.name, c.dir)
     /\ Uses(c.name, c.port, c.dir)
     /\ tag => i # 0
     /\ attrs' = IF tag THEN [attrs EXCEPT ![c.port][i] = c.attrs] ELSE attrs
     /\ chcomp' = IF tag THEN chcomp \union {c.name} ELSE chcomp
     /\ mixed' = IF tag /\ attrs[c.port][i].dir # c.dir
                 THEN mixed \union ({c.port} \X Dirs) ELSE mixed
     /\ UNCHANGED <<comp, cls, added, chcore, left, tagged, lost>>

PortAdd(c) ==
  LET i == FirstWith(c.port, "none")
      tag == c.attrs.ops # "none"
      onDev == {q \in Ports : Dev[q] = Dev[c.port] /\ CheckUsedPort(q, c.dir)}
      taken == IF onDev = {} THEN {} ELSE (onDev \union {c.port}) \X {c.dir}
  IN /\ CountAllows(c.name, c.dir)
     /\ ~Uses(c.name, c.port, c.dir)
     /\ Len(comp[c.name][c.dir]) < MaxQueues
     /\ tag => i # 0
     /\ attrs' = IF tag THEN [attrs EXCEPT ![c.port][i] = c.attrs] ELSE attrs
     /\ comp' = [comp EXCEPT ![c.name][c.dir] = Append(@, c.port)]
     /\ added' = added \union {c.port}
     /\ chcomp' = chcomp \union {c.name}
     /\ mixed' = mixed \union taken
     /\ tagged' = IF c.attrs.ops = "add_vlantag" THEN tagged \union taken ELSE tagged
     /\ UNCHANGED <<cls, chcore, left, lost>>

(* The operations go whether the component has the port or not. *)
PortDel(c) ==
  /\ attrs' = [attrs EXCEPT ![c.port] =
                 [i \in 1 .. CapMax |-> IF @[i].dir = c.dir THEN NoAttrs ELSE @[i]]]
  /\ comp' = [comp EXCEPT ![c.name][c.dir] = SelectSeq(@, LAMBDA p : p # c.port)]
  /\ chcomp' = chcomp \union {c.name}
  /\ left' = left \ {<<c.port, c.dir>>}
  /\ mixed' = mixed \union {<<p, d>> \in {<<c.port, c.dir>>} :
                              \E n \in Started \ {c.name} : Uses(n, p, d)}
  /\ UNCHANGED <<cls, added, chcore, tagged, lost>>

(* set_component_change_port: of the components that send to a port only    *)
(* the one in the lowest slot is updated.                                   *)
TxUsers(p) == {n \in Started : Uses(n, p, "tx")}
TxUser(p) == {n \in TxUsers(p) : \A m \in TxUsers(p) : comp[n].id <= comp[m].id}

(* update_cls_table: the parser has compared the entry already *)
TableUpdate(c) ==
  /\ cls' = [cls EXCEPT ![c.port] =
               IF c.action = "del" THEN NoCls
               ELSE [vid |-> c.vid, mac |-> sppwk_convert_mac_str_to_int64(c.mac)]]
  /\ chcomp' = chcomp \union TxUser(c.port)
  /\ lost' = lost \union (TxUsers(c.port) \ TxUser(c.port))
  /\ UNCHANGED <<comp, added, attrs, chcore, left, mixed, tagged>>

Store(c) ==
  \/ c.type = "component" /\ c.action = "start" /\ CompStart(c)
  \/ c.type = "component" /\ c.action = "stop" /\ CompStop(c)
  \/ c.type = "port" /\ c.action = "add" /\ (PortAgain(c) \/ PortAdd(c))
  \/ c.type = "port" /\ c.action = "del" /\ PortDel(c)
  \/ c.type = "cls" /\ TableUpdate(c)

(* When exec_one_cmd returns an error before anything is stored. *)
Declines(c) ==
  \/ /\ c.type = "component" /\ c.action = "start"
     /\ c.core \notin Slaves \union {Master} \/ FreeIds = {}
  \/ /\ c.type = "port" /\ c.action = "add"
     /\ \/ ~CountAllows(c.name, c.dir)
        \/ IF Uses(c.name, c.port, c.dir)
           THEN c.attrs.ops = "add_vlantag" /\ FirstWith(c.port, "add_vlantag") = 0
           ELSE \/ Len(comp[c.name][c.dir]) >= MaxQueues
                \/ c.attrs.ops # "none" /\ FirstWith(c.port, "none") = 0

-----------------------------------------------------------------------------
(* status                                                                  *)

(* init_component_info of a classifier: the last tx port with an address    *)
(* wins; a port with address 0 has no entry.                                *)
TableOf(n) ==
  LET tx == comp[n].tx
  IN {[vid |-> cls[p].vid, mac |-> cls[p].mac, port |-> p] : p \in
        {tx[k] : k \in {k \in 1 .. Len(tx) :
           /\ cls[tx[k]].mac # "zero"
           /\ \A j \in k + 1 .. Len(tx) : cls[tx[j]] # cls[tx[k]]}}}

(* What update_forwarder and update_classifier make of a component. *)
PathOf(n) ==
  [type |-> comp[n].type, name |-> n, rx |-> comp[n].rx, tx |-> comp[n].tx,
   table |-> IF comp[n].type = "classifier" THEN TableOf(n) ELSE {}]

(* A side of a classifier that was never filled. *)
EmptySide == [type |-> "classifier", name |-> "", rx |-> <<>>, tx |-> <<>>, table |-> {}]

SlotKind(i) == IF \E n \in Started : comp[n].id = i /\ comp[n].type = "classifier"
               THEN "cls" ELSE "fwd"

(* append_vlan_block: the first operation in force, if any *)
append_vlan_block(p, d) ==
  LET ops == InForce(Dev[p], d)
  IN IF ops = <<>> THEN NoAttrs ELSE ops[1]

append_port_block(p, d) == [port |-> p, vlan |-> append_vlan_block(p, d)]

append_port_array(ports, d) ==
  [k \in 1 .. Len(ports) |-> append_port_block(ports[k], d)]

append_core_element_value(core, w) ==
  [core |-> core, name |-> w.name, type |-> w.type,
   rx |-> append_port_array(w.rx, "rx"), tx |-> append_port_array(w.tx, "tx")]

(* iterate_lcore_info: every slot on the list of a slave, as its worker     *)
(* runs it *)
add_core ==
  {append_core_element_value(e[2], path[e[1]][SlotKind(e[1])]) : e \in corelist}

(* get_forwarder_status and get_classifier_status refuse a slot that was    *)
(* never updated, and then no reply is sent at all.                         *)
StatusFails == \E e \in corelist : path[e[1]][SlotKind(e[1])] = NoPath

(* _add_classifier_table for a slot, also when its component is stopped.    *)
add_classifier_table(i) ==
  IF path[i]["cls"] = NoPath THEN {} ELSE path[i]["cls"].table

is_port_flushed(p) == p \in made

append_interface_array(type) == {p \in Ports : p.type = type /\ is_port_flushed(p)}

add_interface == UNION {append_interface_array(t) : t \in {"phy", "vhost", "ring"}}

-----------------------------------------------------------------------------
(* exec_cmds                                                               *)

Answers(code) == mpc' = Ready /\ answer' = code

(* spp-ctl answers itself, and nothing is sent to the process. *)
HttpRefuses(words) ==
  /\ IsHttp(words)
  /\ Answers(words[2])
  /\ req' = NoRequest
  /\ UNCHANGED <<config, flags, ghosts, inforce, nreq>>

(* send_decode_error_response *)
ParserRefuses(words, c) ==
  /\ ~IsHttp(words) /\ c = Refused
  /\ Answers(400)
  /\ req' = NoRequest
  /\ UNCHANGED <<config, flags, ghosts, inforce, nreq>>

(* A port outside the arrays of struct iface_info: anything may follow. *)
BeyondArrays(c) == c.type \in {"port", "cls"} /\ ~InArrays(c.port)

Undefined(c) ==
  /\ BeyondArrays(c)
  /\ mpc' = "undefined" /\ answer' = 0
  /\ req' = NoRequest
  /\ UNCHANGED <<config, flags, ghosts, inforce, nreq>>

ExecDeclines(c) ==
  /\ ~BeyondArrays(c) /\ Declines(c)
  /\ Answers(400)
  /\ req' = NoRequest
  /\ UNCHANGED <<config, flags, ghosts, inforce, nreq>>

Exec(r, c) ==
  /\ ~BeyondArrays(c)
  /\ nreq < MaxRequests /\ nreq' = nreq + 1
  /\ Store(c)
  /\ mpc' = "ports" /\ answer' = 0
  /\ req' = r
  /\ UNCHANGED <<failed, inforce>>

(* send_result_spp_ctl returns without a reply if a part of it fails, and   *)
(* spp-ctl waits for it.                                                    *)
Status(c) ==
  /\ c.type = "status"
  /\ IF StatusFails THEN mpc' = "silent" /\ answer' = 0 ELSE Answers(200)
  /\ req' = NoRequest
  /\ UNCHANGED <<config, flags, ghosts, inforce, nreq>>

Exit(c) ==
  /\ c.type = "exit"
  /\ mpc' = "ended" /\ answer' = 204
  /\ req' = NoRequest
  /\ UNCHANGED <<config, flags, ghosts, inforce, nreq>>

(* exec_cmds of what the handler of spp-ctl makes of a request.  req keeps  *)
(* the last request that was executed.                                      *)
Request(r) ==
  \E words \in {Handle(r)} : \E c \in {parse_wk_cmd(words)} :
     \/ HttpRefuses(words) \/ ParserRefuses(words, c) \/ Undefined(c)
     \/ ExecDeclines(c) \/ Exec(r, c) \/ Status(c) \/ Exit(c)

-----------------------------------------------------------------------------
(* flush_cmd                                                               *)

(* update_port_info makes the missing devices, vhosts before rings.  If one *)
(* fails the flags stay set for the next flush.                             *)
Before(q, p) == \/ q.type = "vhost" /\ p.type = "ring"
                \/ q.type = p.type /\ q.no < p.no

update_port_info ==
  /\ mpc = "ports"
  /\ \/ /\ made' = added
        /\ mpc' = "lcores"
        /\ UNCHANGED <<answer, failed>>
     \/ /\ "device" \in MayFail
        /\ \E p \in added \ made : made' = made \union {q \in added \ made : Before(q, p)}
        /\ Answers(400) /\ failed' = TRUE
  /\ UNCHANGED <<config, flags, left, mixed, tagged, lost, corelist, path, same,
                 newpath, capability, req, nreq>>

(* update_lcore_info: the master is no worker and never takes its list over *)
update_lcore_info ==
  /\ mpc = "lcores"
  /\ IF Master \in chcore
     THEN mpc' = "hung" /\ UNCHANGED corelist
     ELSE /\ mpc' = "comps"
          /\ corelist' = {e \in corelist : e[2] \notin chcore} \union
                         {<<comp[n].id, comp[n].core>> : n \in
                            {n \in Started : comp[n].core \in chcore}}
  /\ UNCHANGED <<config, flags, ghosts, made, path, same, newpath, capability,
                 req, answer, nreq>>

(* The ports of a component as sppwk_update_port_dir visits them. *)
Updates(n, d) ==
  [k \in 1 .. Len(comp[n][d]) |-> [dev |-> Dev[comp[n][d][k]],
                                   attrs |-> attrs[comp[n][d][k]]]]

(* The component update_comp_info comes to next. *)
IsNext(n) == n \in chcomp /\ \A m \in chcomp : comp[n].id <= comp[m].id
SlotOf(n) == <<comp[n].id, KindOf(comp[n].type)>>

PortsOf(n) == {<<p, d>> \in Ports \X Dirs : Uses(n, p, d)}

UpdateOverruns ==
  /\ mpc = "comps"
  /\ \E n \in chcomp : IsNext(n) /\ ListsOverrun(Updates(n, "rx"), Updates(n, "tx"))
  /\ mpc' = "undefined"
  /\ UNCHANGED <<config, flags, ghosts, inforce, req, answer, nreq>>

(* The update is offered to the worker ...  If the worker has not yet found *)
(* the two indices of a new classifier equal, the update goes to the side   *)
(* in use and the worker then turns to the empty one, which becomes the     *)
(* classifier.                                                              *)
UpdateComp ==
  /\ mpc = "comps"
  /\ \E n \in chcomp :
       LET early == SlotOf(n) \in same
       IN /\ IsNext(n) /\ ~ListsOverrun(Updates(n, "rx"), Updates(n, "tx"))
          /\ sppwk_update_port_dir(Updates(n, "rx"), Updates(n, "tx"))
          /\ newpath' = IF early THEN EmptySide ELSE PathOf(n)
          /\ path' = IF early THEN [path EXCEPT ![comp[n].id]["cls"] = PathOf(n)] ELSE path
          /\ lost' = IF early THEN lost \union {n} ELSE lost \ {n}
          /\ same' = same \union {SlotOf(n)}
  /\ mpc' = "wait"
  /\ UNCHANGED <<config, flags, left, mixed, tagged, failed, made, corelist,
                 req, answer, nreq>>

(* ... or its hash table cannot be made.  backup_mng_info clears the flags  *)
(* all the same, of the components that were not reached too.               *)
UpdateFails ==
  /\ mpc = "comps" /\ "table" \in MayFail
  /\ \E n \in chcomp :
       /\ IsNext(n) /\ ~ListsOverrun(Updates(n, "rx"), Updates(n, "tx"))
       /\ comp[n].type = "classifier" /\ TableOf(n) # {}
       /\ sppwk_update_port_dir(Updates(n, "rx"), Updates(n, "tx"))
       /\ mixed' = mixed \union UNION {PortsOf(m) : m \in chcomp}
  /\ lost' = lost \union chcomp
  /\ chcore' = {} /\ chcomp' = {}
  /\ Answers(400) /\ failed' = TRUE
  /\ UNCHANGED <<config, left, tagged, made, corelist, path, same, newpath, req, nreq>>

UpdateTaken ==
  /\ mpc = "wait"
  /\ \E n \in chcomp : /\ IsNext(n) /\ SlotOf(n) \notin same
                       /\ chcomp' = chcomp \ {n}
  /\ mpc' = "comps"
  /\ UNCHANGED <<config, chcore, ghosts, inforce, req, answer, nreq>>

(* backup_mng_info, and the reply *)
FlushDone ==
  /\ mpc = "comps" /\ chcomp = {}
  /\ chcore' = {}
  /\ Answers(204)
  /\ UNCHANGED <<config, chcomp, ghosts, inforce, req, nreq>>

(* change_forward_index and change_classifier_index: a worker finds its two *)
(* indices equal.  If the manager waits for that, newpath is in force; a    *)
(* new classifier does it once more, between two empty sides.               *)
Worker(e, kind) ==
  LET offered == \E n \in chcomp : /\ mpc = "wait" /\ IsNext(n)
                                   /\ SlotOf(n) = <<e[1], kind>>
  IN /\ SlotKind(e[1]) = kind
     /\ <<e[1], kind>> \in same
     /\ same' = same \ {<<e[1], kind>>}
     /\ path' = IF offered THEN [path EXCEPT ![e[1]][kind] = newpath] ELSE path
     /\ sppwk_swap_two_sides
     /\ UNCHANGED <<config, flags, ghosts, made, corelist, newpath, mpc, req,
                    answer, nreq>>

Master_ == \/ update_port_info \/ update_lcore_info
           \/ UpdateOverruns \/ UpdateComp \/ UpdateFails \/ UpdateTaken \/ FlushDone

Next == \/ mpc = Ready /\ \E r \in Requests : Request(r)
        \/ Master_
        \/ \E e \in corelist, k \in Kinds : Worker(e, k)

Spec == Init /\ [][Next]_vars

-----------------------------------------------------------------------------
(* Properties                                                              *)

Answered == mpc = Ready /\ answer = 204

(* The VLAN id a packet tagged with v should have after what was asked. *)
AskedVlan(b, v) ==
  IF "vlan" \notin DOMAIN b THEN v
  ELSE CASE b.vlan.operation = "add" -> b.vlan.id
         [] b.vlan.operation = "del" -> Untag
         [] OTHER -> v

PortAsAsked(n, b, except) ==
  LET p == PortIdx(b.port)
      listed == \E e \in add_core :
                  e.name = n /\ \E k \in 1 .. Len(e[b.dir]) : e[b.dir][k].port = p
  IN IF b.action = "detach" THEN ~listed
     ELSE /\ listed /\ p \in add_interface
          /\ <<p, b.dir>> \notin except =>
               \A v \in {Untag, 9} : VlanOf(Dev[p], b.dir, v) = AskedVlan(b, v)

TableAsAsked(b, noname) ==
  LET p == PortIdx(b.port)
      vid == IF b.type = "mac" THEN VidMax ELSE b.vlan
      mac == IF b.mac_address = "default" THEN "dummy" ELSE b.mac_address
  IN \A n \in {n \in TxUser(p) \ noname : comp[n].type = "classifier"} :
       LET table == add_classifier_table(comp[n].id)
       IN IF b.action = "del" THEN \A e \in table : e.port # p
          ELSE b.mac_address # "dashed" =>
                 \E e \in table : /\ e.vid = vid /\ e.mac = mac
                                  /\ e.port = p \/ cls[e.port] = cls[p]

AsAsked(noname, except) ==
  Answered /\ ~StatusFails =>
    CASE req.handler = "vf_comp_start" ->
           req.body.name \notin noname =>
             \E e \in add_core : /\ e.name = req.body.name /\ e.core = req.body.core
                                 /\ e.type = req.body.type
      [] req.handler = "vf_comp_stop" -> \A e \in add_core : e.name # req.name
      [] req.handler = "vf_comp_port" ->
           req.name \notin noname => PortAsAsked(req.name, req.body, except)
      [] req.handler = "vf_classifier" -> TableAsAsked(req.body, noname)

(* A request that is answered 204 has happened, as its body reads: the      *)
(* component or the port is in the status, or no longer; the classifier has *)
(* the entry; a packet through an attached port leaves with the VLAN id     *)
(* asked for.  Exceptions are the first update of a classifier that its     *)
(* worker has not reached before, and the VLAN id for ports with operations *)
(* that a stopped component left behind and for ports of several components.*)
AnsweredTrue == AsAsked(lost, left \union mixed)

(* After a 204 everything stored is in force, by whatever request and       *)
(* though its flush failed: the slaves run exactly the started components,  *)
(* each with its ports and entries.  The exceptions are the changes that a  *)
(* failed classifier table dropped, entries of a port that a component in a *)
(* lower slot sends to as well, and classifiers whose worker turned to the  *)
(* empty side.                                                              *)
StoredInForce ==
  Answered => /\ corelist = {<<comp[n].id, comp[n].core>> : n \in Started}
              /\ \A n \in Started \ lost :
                   path[comp[n].id][KindOf(comp[n].type)] = PathOf(n)

(* And so are the operations of its ports: sppwk_update_port_dir and the    *)
(* worker's sppwk_swap_two_sides agree which side is the new one, also when *)
(* other workers switch in between.                                         *)
AttrsInForce ==
  Answered => \A n \in Started \ lost : \A u \in PortsOf(n) \ mixed :
                InForce(Dev[u[1]], u[2]) = SelectSeq(attrs[u[1]], LAMBDA a : a.dir = u[2])

(* Two components have the same port in the same direction only if the      *)
(* second one asked for a tag (the override of parse_port_direction).       *)
ShareOnlyByTag ==
  \A n, m \in Started : n # m => PortsOf(n) \intersect PortsOf(m) \subseteq tagged

(* A status request stays without reply only after a failed flush. *)
SilentOnlyAfterFailure == mpc = "silent" => failed

=============================================================================
