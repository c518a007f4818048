------------------------------ MODULE VfWorker ------------------------------
(***************************************************************************)
(* spp_vf as a whole: the master thread that executes `component' and      *)
(* `port' commands and flushes them (src/vf/vf_cmd_runner.c, cmd_runner.c, *)
(* cmd_utils.c of src/shared/secondary/spp_worker_th), the slave threads   *)
(* that run the components of their lcore (slave_main of src/vf/spp_vf.c), *)
(* start-up, the exit command and the stop signal.                         *)
(*                                                                         *)
(* The double buffer of a component is kept as the path in force and the   *)
(* path of the update in progress: Forwarder shows that it implements just *)
(* that (ConfigCell).  A classifier's buffer starts with both indices 0,   *)
(* so that its first update works on the side in force: see `swap'.        *)
(***************************************************************************)
EXTENDS Naturals, Sequences, FiniteSets

CONSTANTS Master, Slaves,  \* lcores in use, numbers as in RTE_MAX_LCORE
          Ids,             \* slots of g_component_info, numbers
          Targets,         \* lcores `component start' is given
          Names,           \* component names the commands give
          Types,           \* component types the commands give
          Ports,           \* ports the commands give
          Hot,             \* those attached at flush time (vhost, ring)
          MayFail,         \* what may fail: "attach" (a port), "table"
          MayTag,          \* commands may carry VLAN arguments
          MaySignal        \* SIGTERM or SIGINT may arrive

ASSUME VfWorkerAssumption ==
  /\ Slaves \subseteq Nat /\ IsFiniteSet(Slaves)
  /\ Master \in Nat \ Slaves
  /\ Targets \subseteq Slaves \union {Master}
  /\ Ids \subseteq Nat /\ IsFiniteSet(Ids)
  /\ "" \notin Names
  /\ Types \subseteq {"fwd", "mrg", "cls"}
  /\ Hot \subseteq Ports
  /\ MayFail \subseteq {"attach", "table"}
  /\ MayTag \in BOOLEAN /\ MaySignal \in BOOLEAN

Lcores == Slaves \union {Master}
Kinds == {"fwd", "cls"}   \* forward_packets, classify_packets
Dirs == {"rx", "tx"}
Sides == {0, 1}

Paths == [name : Names \union {""}, type : Types \union {"none"},
          rx : SUBSET Ports, tx : SUBSET Ports]
ZeroPath == [name |-> "", type |-> "none", rx |-> {}, tx |-> {}]
ZeroComp == [name |-> "", type |-> "none", lcore |-> 0, rx |-> {}, tx |-> {}]

VARIABLES
  status,                 \* g_core_info[l].status
  ref, upd, core,         \* g_core_info[l].ref_index, .upd_index, .core[side]
  comp,                   \* g_component_info
  change_core, change_comp,
  defined, attached,      \* ports with iface_type, with ethdev_port_id
  inforce,                \* [kind][id]: the path on the referenced side
  swap,                   \* [kind]: entries with ref_index = upd_index
  mpc, todo,              \* master: position, what its loop has left
  newpath,                \* the path on the side not referenced
  spc, side, pos, kind,   \* slaves: position, `core', `cnt', function called
  stopreq                 \* "no", "early" (during start-up) or "yes"

registry == <<comp, change_core, change_comp, defined, attached>>
buffers == <<inforce, swap>>
master == <<mpc, todo, newpath>>
slaves == <<spc, side, pos, kind>>
vars == <<status, ref, upd, core, comp, change_core, change_comp, defined,
          attached, inforce, swap, mpc, todo, newpath, spc, side,
          pos, kind, stopreq>>

First(S) == CHOOSE x \in S : \A y \in S : x <= y
Alive == mpc # "exited"

(* init_mng_data, init_cls_mng_info, init_forwarder *)
Init ==
  /\ status = [l \in Lcores |-> IF l = Master THEN "UNUSED" ELSE "STOPPED"]
  /\ ref = [l \in Lcores |-> 0]
  /\ upd = [l \in Lcores |-> 1]
  /\ core = [l \in Lcores |-> [s \in Sides |-> <<>>]]
  /\ comp = [i \in Ids |-> ZeroComp]
  /\ change_core = {}
  /\ change_comp = {}
  /\ defined = Ports \ Hot
  /\ attached = Ports \ Hot
  /\ inforce = [k \in Kinds |-> [i \in Ids |-> ZeroPath]]
  /\ swap = [k \in Kinds |-> IF k = "cls" THEN Ids ELSE {}]
  /\ mpc = "launch"
  /\ todo = {}
  /\ newpath = ZeroPath
  /\ spc = [l \in Slaves |-> "off"]
  /\ side = [l \in Slaves |-> 0]
  /\ pos = [l \in Slaves |-> 1]
  /\ kind = [l \in Slaves |-> "fwd"]
  /\ stopreq = "no"

-----------------------------------------------------------------------------
(* Start-up and shut-down: main of spp_vf.c                                *)

LaunchSlaves == /\ mpc = "launch"
                /\ spc' = [l \in Slaves |-> "boot"]
                /\ mpc' = "launched"
                /\ UNCHANGED <<status, ref, upd, core, registry, buffers, todo,
                               newpath, side, pos, kind, stopreq>>

MasterIdling == /\ mpc = "launched"
                /\ status' = [status EXCEPT ![Master] = "IDLING"]
                /\ mpc' = "check"
                /\ UNCHANGED <<ref, upd, core, registry, buffers, todo, newpath,
                               slaves, stopreq>>

(* check_core_status_wait gives up after SPP_CORE_STATUS_CHECK_MAX seconds. *)
CheckIdling == /\ mpc = "check"
               /\ mpc' = IF \A l \in Slaves : status[l] = "IDLING"
                         THEN "run" ELSE "final"
               /\ UNCHANGED <<status, ref, upd, core, registry, buffers, todo,
                              newpath, slaves, stopreq>>

SetRunning == /\ mpc = "run"
              /\ status' = [l \in Lcores |-> IF l \in Slaves THEN "RUNNING"
                                                           ELSE status[l]]
              /\ change_core' = {}
              /\ change_comp' = {}
              /\ mpc' = "idle"
              /\ UNCHANGED <<ref, upd, core, comp, defined, attached, buffers,
                             todo, newpath, slaves, stopreq>>

(* stop_process, the handler of SIGTERM and SIGINT *)
Signal == /\ MaySignal /\ Alive /\ stopreq = "no"
          /\ status' = [l \in Lcores |-> "REQ_STOP"]
          /\ stopreq' = IF mpc \in {"launch", "launched"} THEN "early" ELSE "yes"
          /\ UNCHANGED <<ref, upd, core, registry, buffers, master, slaves>>

Listening == mpc = "idle" /\ status[Master] # "REQ_STOP"

ExitCommand == /\ Listening
               /\ status' = [l \in Lcores |-> IF l \in Slaves THEN "REQ_STOP"
                                                            ELSE status[l]]
               /\ mpc' = "final"
               /\ UNCHANGED <<ref, upd, core, registry, buffers, todo, newpath,
                              slaves, stopreq>>

(* Bug: the loop looks for a status that a signal does not set. *)
QuitLoopMutStatus == /\ mpc = "idle" /\ status[Master] = "STOPPED"
                     /\ mpc' = "final"
                     /\ UNCHANGED <<status, ref, upd, core, registry, buffers,
                                    todo, newpath, slaves, stopreq>>

QuitLoop == /\ mpc = "idle" /\ status[Master] = "REQ_STOP"
            /\ mpc' = "final"
            /\ UNCHANGED <<status, ref, upd, core, registry, buffers, todo,
                           newpath, slaves, stopreq>>

Finalize == /\ mpc = "final"
            /\ status' = [status EXCEPT ![Master] = "STOPPED"]
            /\ mpc' = "stopping"
            /\ UNCHANGED <<ref, upd, core, registry, buffers, todo, newpath,
                           slaves, stopreq>>

(* All slaves have stopped, or the time for that is over. *)
Exit == /\ mpc = "stopping"
        /\ mpc' = "exited"
        /\ UNCHANGED <<status, ref, upd, core, registry, buffers, todo, newpath,
                       slaves, stopreq>>

-----------------------------------------------------------------------------
(* Commands: exec_one_cmd stores the change and flushes.  A command that is *)
(* refused, by the parser or by the function it calls, changes nothing.    *)

get_free_lcore_id == First({i \in Ids : comp[i].type = "none"})
HasFreeId == \E i \in Ids : comp[i].type = "none"
IsUsedName(n) == \E i \in Ids : comp[i].name = n

(* update_comp, SPPWK_ACT_START *)
CompStart(n, l, t) ==
  /\ Listening
  /\ status[l] # "UNUSED"
  /\ ~IsUsedName(n)
  /\ HasFreeId
  /\ LET i == get_free_lcore_id
     IN /\ comp' = [comp EXCEPT ![i] = [name |-> n, type |-> t, lcore |-> l,
                                        rx |-> {}, tx |-> {}]]
        /\ core' = [core EXCEPT ![l][upd[l]] = Append(@, i)]
        /\ change_comp' = change_comp \union {i}
  /\ change_core' = change_core \union {l}
  /\ mpc' = "ports"
  /\ UNCHANGED <<status, ref, upd, defined, attached, buffers, todo, newpath,
                 slaves, stopreq>>

(* del_comp_info: the index of the last match, or the first if there is none *)
DelIndex(i, ids) ==
  LET found == {n \in 1 .. Len(ids) : ids[n] = i}
  IN IF found = {} THEN 1 ELSE CHOOSE n \in found : \A m \in found : m <= n
del_comp_info(i, ids) ==
  LET n == DelIndex(i, ids)
  IN SubSeq(ids, 1, n - 1) \o SubSeq(ids, n + 1, Len(ids))

(* update_comp, SPPWK_ACT_STOP.  The entry is zeroed before its type is     *)
(* looked at, so init_classifier_info is never called.                     *)
CompStop(n) ==
  /\ Listening
  /\ IsUsedName(n)
  /\ LET i == First({j \in Ids : comp[j].name = n})
         l == comp[i].lcore
     IN /\ comp' = [comp EXCEPT ![i] = ZeroComp]
        /\ core' = [core EXCEPT ![l][upd[l]] = del_comp_info(i, @)]
        /\ change_comp' = change_comp \ {i}
        /\ change_core' = change_core \union {l}
  /\ mpc' = "ports"
  /\ UNCHANGED <<status, ref, upd, defined, attached, buffers, todo, newpath,
                 slaves, stopreq>>

(* `component stop' of an unknown name succeeds, and flushes. *)
CompStopUnknown(n) ==
  /\ Listening
  /\ ~IsUsedName(n)
  /\ mpc' = "ports"
  /\ UNCHANGED <<status, ref, upd, core, registry, buffers, todo, newpath,
                 slaves, stopreq>>

(* sppwk_check_used_port *)
UsedPort(p, d) == \E i \in Ids : comp[i].type # "none" /\ p \in comp[i][d]

(* check_vf_port_count, one port more in direction d *)
PortCountOK(c, d) ==
  LET nof_rx == Cardinality(c.rx) + IF d = "rx" THEN 1 ELSE 0
      nof_tx == Cardinality(c.tx) + IF d = "tx" THEN 1 ELSE 0
  IN CASE c.type = "fwd" -> nof_rx <= 1 /\ nof_tx <= 1
       [] c.type = "mrg" -> nof_tx <= 1
       [] c.type = "cls" -> nof_rx <= 1

(* Bug: the parser does not look whether the port is used. *)
PortAddMutUsed(n, p, d, tag) ==
  /\ Listening
  /\ \E i \in Ids :
       /\ comp[i].name = n
       /\ PortCountOK(comp[i], d)
       /\ comp' = [comp EXCEPT ![i][d] = @ \union {p}]
       /\ change_comp' = change_comp \union {i}
  /\ defined' = defined \union {p}
  /\ mpc' = "ports"
  /\ UNCHANGED <<status, ref, upd, core, change_core, attached, buffers, todo,
                 newpath, slaves, stopreq>>

(* update_port, SPPWK_ACT_ADD.  With all VLAN arguments the parser does not *)
(* look whether the port is used; a port the component has already is left *)
(* as it is, and flushed only for its VLAN arguments.                       *)
PortAdd(n, p, d, tag) ==
  /\ Listening
  /\ tag \/ ~UsedPort(p, d)
  /\ \E i \in Ids :
       /\ comp[i].name = n
       /\ PortCountOK(comp[i], d)
       /\ comp' = [comp EXCEPT ![i][d] = @ \union {p}]
       /\ change_comp' = change_comp \union {i}
  /\ defined' = defined \union {p}
  /\ mpc' = "ports"
  /\ UNCHANGED <<status, ref, upd, core, change_core, attached, buffers, todo,
                 newpath, slaves, stopreq>>

(* update_port, SPPWK_ACT_DEL *)
PortDel(n, p, d) ==
  /\ Listening
  /\ \E i \in Ids :
       /\ comp[i].name = n
       /\ comp' = [comp EXCEPT ![i][d] = @ \ {p}]
       /\ change_comp' = change_comp \union {i}
  /\ mpc' = "ports"
  /\ UNCHANGED <<status, ref, upd, core, change_core, defined, attached,
                 buffers, todo, newpath, slaves, stopreq>>

-----------------------------------------------------------------------------
(* flush_cmd                                                               *)

Pending == defined \ attached

(* update_port_info *)
UpdatePorts == /\ mpc = "ports"
               /\ attached' = attached \union Pending
               /\ mpc' = "publish"
               /\ UNCHANGED <<status, ref, upd, core, comp, change_core,
                              change_comp, defined, buffers, todo, newpath,
                              slaves, stopreq>>

(* add_vhost_pmd or add_ring_pmd fails: the flush ends there. *)
UpdatePortsFails == /\ mpc = "ports"
                    /\ "attach" \in MayFail
                    /\ \E S \in SUBSET Pending : /\ S # Pending
                                                /\ attached' = attached \union S
                    /\ mpc' = "idle"
                    /\ UNCHANGED <<status, ref, upd, core, comp, change_core,
                                   change_comp, defined, buffers, todo,
                                   newpath, slaves, stopreq>>

(* update_lcore_info: hand the edited lists over, then wait lcore by lcore. *)
PublishCores == /\ mpc = "publish"
                /\ upd' = [l \in Lcores |-> IF l \in change_core THEN ref[l]
                                                              ELSE upd[l]]
                /\ todo' = change_core
                /\ mpc' = "cores"
                /\ UNCHANGED <<status, ref, core, registry, buffers, newpath,
                               slaves, stopreq>>

(* Bug: the next command is taken before the slave has changed sides. *)
WaitCoreMutNoWait ==
  /\ mpc = "cores" /\ todo # {}
  /\ LET l == First(todo)
     IN /\ core' = [core EXCEPT ![l][upd[l]] = core[l][ref[l]]]
        /\ todo' = todo \ {l}
  /\ UNCHANGED <<status, ref, upd, registry, buffers, mpc, newpath, slaves,
                 stopreq>>

(* Bug: the old list is not brought up to date. *)
WaitCoreMutNoCopy ==
  /\ mpc = "cores" /\ todo # {}
  /\ LET l == First(todo)
     IN /\ ref[l] # upd[l]
        /\ todo' = todo \ {l}
  /\ UNCHANGED <<status, ref, upd, core, registry, buffers, mpc, newpath,
                 slaves, stopreq>>

WaitCore == /\ mpc = "cores" /\ todo # {}
            /\ LET l == First(todo)
               IN /\ ref[l] # upd[l]
                  /\ core' = [core EXCEPT ![l][upd[l]] = core[l][ref[l]]]
                  /\ todo' = todo \ {l}
            /\ UNCHANGED <<status, ref, upd, registry, buffers, mpc, newpath,
                           slaves, stopreq>>

CoresDone == /\ mpc = "cores" /\ todo = {}
             /\ todo' = change_comp
             /\ mpc' = "comps"
             /\ UNCHANGED <<status, ref, upd, core, registry, buffers, newpath,
                            slaves, stopreq>>

KindOf(i) == IF comp[i].type = "cls" THEN "cls" ELSE "fwd"
PathOf(c) == [name |-> c.name, type |-> c.type, rx |-> c.rx, tx |-> c.tx]

(* What filling the update side does to the side in force: nothing, unless *)
(* they are the same (a classifier entry that was never referenced).        *)
Filled(i) == LET k == KindOf(i)
             IN IF i \in swap[k]
                THEN [inforce EXCEPT ![k][i] = PathOf(comp[i])]
                ELSE inforce

(* update_comp_info: update_forwarder or update_classifier, up to upd_index *)
UpdateComp == /\ mpc = "comps" /\ todo # {}
              /\ LET i == First(todo)
                 IN /\ inforce' = Filled(i)
                    /\ newpath' = PathOf(comp[i])
              /\ mpc' = "fill"
              /\ UNCHANGED <<status, ref, upd, core, registry, swap, todo,
                             slaves, stopreq>>

(* update_classifier fails: the loop ends, the change flags are cleared.    *)
UpdateCompFails == /\ mpc = "comps" /\ todo # {}
                   /\ "table" \in MayFail
                   /\ LET i == First(todo)
                      IN /\ comp[i].type = "cls"
                         /\ inforce' = Filled(i)
                   /\ change_core' = {}
                   /\ change_comp' = {}
                   /\ todo' = {}
                   /\ mpc' = "idle"
                   /\ UNCHANGED <<status, ref, upd, core, comp, defined,
                                  attached, swap, newpath, slaves, stopreq>>

(* upd_index = ref_index, which changes nothing if they are equal already:  *)
(* then the side the worker turns to is the empty one.                      *)
PublishComp == /\ mpc = "fill"
               /\ LET i == First(todo)
                      k == KindOf(i)
                  IN /\ newpath' = IF i \in swap[k] THEN ZeroPath ELSE newpath
                     /\ swap' = [swap EXCEPT ![k] = @ \union {i}]
               /\ mpc' = "wait"
               /\ UNCHANGED <<status, ref, upd, core, registry, inforce, todo,
                              slaves, stopreq>>

(* Bug: the update of a component is not waited for. *)
WaitCompMutNoWait ==
  /\ mpc = "wait"
  /\ todo' = todo \ {First(todo)}
  /\ mpc' = "comps"
  /\ UNCHANGED <<status, ref, upd, core, registry, buffers, newpath, slaves,
                 stopreq>>

WaitComp == /\ mpc = "wait"
            /\ LET i == First(todo)
               IN /\ i \notin swap[KindOf(i)]
                  /\ todo' = todo \ {i}
            /\ newpath' = ZeroPath
            /\ mpc' = "comps"
            /\ UNCHANGED <<status, ref, upd, core, registry, buffers, slaves,
                           stopreq>>

(* backup_mng_info, and the reply *)
FlushDone == /\ mpc = "comps" /\ todo = {}
             /\ change_core' = {}
             /\ change_comp' = {}
             /\ mpc' = "idle"
             /\ UNCHANGED <<status, ref, upd, core, comp, defined, attached,
                            buffers, todo, newpath, slaves, stopreq>>

-----------------------------------------------------------------------------
(* slave_main                                                              *)

Boot(l) == /\ spc[l] = "boot"
           /\ status' = [status EXCEPT ![l] = "IDLING"]
           /\ side' = [side EXCEPT ![l] = ref[l]]
           /\ spc' = [spc EXCEPT ![l] = "top"]
           /\ UNCHANGED <<ref, upd, core, registry, buffers, master, pos, kind,
                          stopreq>>

(* Bug: the slave goes on with the list it had. *)
TopMutKeepsSide(l) ==
  /\ spc[l] = "top" /\ status[l] = "RUNNING"
  /\ ref' = [ref EXCEPT ![l] = IF @ = upd[l] THEN (upd[l] + 1) % 2 ELSE @]
  /\ pos' = [pos EXCEPT ![l] = 1]
  /\ spc' = [spc EXCEPT ![l] = IF core[l][side[l]] = <<>> THEN "top" ELSE "call"]
  /\ UNCHANGED <<status, upd, core, registry, buffers, master, side, kind,
                 stopreq>>

(* The head of the loop: a flushed list is taken over. *)
Top(l) == /\ spc[l] = "top" /\ status[l] = "RUNNING"
          /\ LET s == IF ref[l] = upd[l] THEN (upd[l] + 1) % 2 ELSE side[l]
             IN /\ ref' = [ref EXCEPT ![l] = IF @ = upd[l] THEN s ELSE @]
                /\ side' = [side EXCEPT ![l] = s]
                /\ spc' = [spc EXCEPT ![l] = IF core[l][s] = <<>> THEN "top"
                                                                  ELSE "call"]
          /\ pos' = [pos EXCEPT ![l] = 1]
          /\ UNCHANGED <<status, upd, core, registry, buffers, master, kind,
                         stopreq>>

SlaveStop(l) == /\ spc[l] = "top" /\ status[l] = "REQ_STOP"
                /\ status' = [status EXCEPT ![l] = "STOPPED"]
                /\ spc' = [spc EXCEPT ![l] = "out"]
                /\ UNCHANGED <<ref, upd, core, registry, buffers, master, side,
                               pos, kind, stopreq>>

CompId(l) == core[l][side[l]][pos[l]]

(* sppwk_get_comp_type decides which function is called. *)
Call(l) == /\ spc[l] = "call"
           /\ kind' = [kind EXCEPT ![l] = KindOf(CompId(l))]
           /\ spc' = [spc EXCEPT ![l] = "enter"]
           /\ UNCHANGED <<status, ref, upd, core, registry, buffers, master,
                          side, pos, stopreq>>

(* Bug: an update is never taken over. *)
EnterMutNoSwap(l) ==
  /\ spc[l] = "enter"
  /\ spc' = [spc EXCEPT ![l] = "in"]
  /\ UNCHANGED <<status, ref, upd, core, registry, buffers, master, side, pos,
                 kind, stopreq>>

(* change_forward_index or change_classifier_index at the function's start *)
Enter(l) == /\ spc[l] = "enter"
            /\ LET i == CompId(l)
                   k == kind[l]
                   next == IF mpc = "wait" /\ i = First(todo) /\ k = KindOf(i)
                           THEN newpath ELSE ZeroPath
               IN /\ inforce' = IF i \in swap[k]
                                THEN [inforce EXCEPT ![k][i] = next]
                                ELSE inforce
                  /\ swap' = [swap EXCEPT ![k] = @ \ {i}]
            /\ spc' = [spc EXCEPT ![l] = "in"]
            /\ UNCHANGED <<status, ref, upd, core, registry, master, side, pos,
                           kind, stopreq>>

(* One burst later: the next component of the list, or the head again. *)
Leave(l) == /\ spc[l] = "in"
            /\ IF pos[l] < Len(core[l][side[l]])
               THEN /\ pos' = [pos EXCEPT ![l] = @ + 1]
                    /\ spc' = [spc EXCEPT ![l] = "call"]
               ELSE /\ pos' = [pos EXCEPT ![l] = 1]
                    /\ spc' = [spc EXCEPT ![l] = "top"]
            /\ UNCHANGED <<status, ref, upd, core, registry, buffers, master,
                           side, kind, stopreq>>

-----------------------------------------------------------------------------
Command ==
  \/ \E n \in Names, l \in Targets, t \in Types : CompStart(n, l, t)
  \/ \E n \in Names : CompStop(n) \/ CompStopUnknown(n)
  \/ \E n \in Names, p \in Ports, d \in Dirs :
       \/ \E tag \in {FALSE, MayTag} : PortAdd(n, p, d, tag)
       \/ PortDel(n, p, d)
  \/ ExitCommand

Flush == \/ UpdatePorts \/ UpdatePortsFails
         \/ PublishCores \/ WaitCore \/ CoresDone
         \/ UpdateComp \/ UpdateCompFails \/ PublishComp \/ WaitComp
         \/ FlushDone

MainSteps == \/ LaunchSlaves \/ MasterIdling \/ CheckIdling \/ SetRunning
             \/ QuitLoop \/ Finalize \/ Exit

SlaveMain(l) == /\ Alive
                /\ \/ Boot(l) \/ Top(l) \/ SlaveStop(l)
                   \/ Call(l) \/ Enter(l) \/ Leave(l)

Next == \/ Command
        \/ Flush
        \/ MainSteps
        \/ \E l \in Slaves : SlaveMain(l)
        \/ Signal

Spec == Init /\ [][Next]_vars

(* Both kinds of thread run for ever; nobody has to send a command.        *)
FairSpec == /\ Spec
            /\ WF_vars(Flush)
            /\ WF_vars(MainSteps)
            /\ \A l \in Slaves : WF_vars(SlaveMain(l))

-----------------------------------------------------------------------------
(* Properties                                                              *)

Statuses == {"UNUSED", "STOPPED", "IDLING", "RUNNING", "REQ_STOP"}

(* Type correctness: every index of the management data, of the component    *)
(* slots and of their two sides is within its table, also while the slaves  *)
(* and the master run through a flush.                                      *)
TypeOK ==
  /\ status \in [Lcores -> Statuses]
  /\ ref \in [Lcores -> Sides] /\ upd \in [Lcores -> Sides]
  /\ core \in [Lcores -> [Sides -> Seq(Ids)]]
  /\ comp \in [Ids -> [name : Names \union {""}, type : Types \union {"none"},
                        lcore : Lcores \union {0}, rx : SUBSET Ports,
                        tx : SUBSET Ports]]
  /\ change_core \subseteq Lcores /\ change_comp \subseteq Ids
  /\ attached \subseteq defined /\ defined \subseteq Ports
  /\ inforce \in [Kinds -> [Ids -> Paths]]
  /\ swap \in [Kinds -> SUBSET Ids]
  /\ mpc \in {"launch", "launched", "check", "run", "idle", "ports", "publish",
              "cores", "comps", "fill", "wait", "final", "stopping", "exited"}
  /\ todo \subseteq Lcores \union Ids
  /\ newpath \in Paths
  /\ spc \in [Slaves -> {"off", "boot", "top", "call", "enter", "in", "out"}]
  /\ side \in [Slaves -> Sides]
  /\ pos \in [Slaves -> Nat \ {0}]
  /\ kind \in [Slaves -> Kinds]
  /\ stopreq \in {"no", "early", "yes"}

Walking(l) == spc[l] \in {"call", "enter", "in"}
Inside(l) == spc[l] \in {"enter", "in"}
Assigned(l) == {i \in Ids : comp[i].type # "none" /\ comp[i].lcore = l}
Elems(s) == {s[n] : n \in 1 .. Len(s)}

(* forward_packets and classify_packets move packets only for such paths.   *)
Ready(p) == CASE p.type = "fwd" -> Cardinality(p.rx) = 1 /\ Cardinality(p.tx) = 1
              [] p.type = "mrg" -> p.rx # {} /\ Cardinality(p.tx) = 1
              [] p.type = "cls" -> p.rx # {} /\ p.tx # {}
              [] p.type = "none" -> FALSE

Path(l) == inforce[kind[l]][CompId(l)]
Forwarding(l) == spc[l] = "in" /\ Ready(Path(l))
Settled(l) == CompId(l) \in Assigned(l) \ change_comp
(* `status' shows for each worker the core it is running on: no two slaves  *)
(* are ever inside the same component, also when it is stopped and its id   *)
(* given to a component of another lcore.                                   *)
OneLcorePerComponent ==
  \A l, m \in Slaves : l # m /\ Inside(l) /\ Inside(m) => CompId(l) # CompId(m)

(* update_comp and update_lcore_info never change the list of components    *)
(* that a slave is walking through.                                         *)
ListStable ==
  [][\A l \in Slaves : Walking(l) => core'[l][side[l]] = core[l][side[l]]]_vars

(* Between commands the list that the next command edits holds exactly the  *)
(* components registered on that lcore, each once; so del_comp_info finds   *)
(* what it is asked to delete.                                              *)
EditedListComplete ==
  mpc = "idle" => \A l \in Slaves : LET ids == core[l][upd[l]]
                                    IN /\ Elems(ids) = Assigned(l)
                                       /\ Len(ids) = Cardinality(Assigned(l))

(* When a flush has gone through, slaves walk the lists the commands built, *)
(* and each component has the ports it was given.                           *)
FlushedInForce ==
  mpc = "idle" /\ change_core = {} /\ change_comp = {} =>
    /\ \A l \in Slaves : core[l][ref[l]] = core[l][upd[l]]
    /\ \A i \in Ids : comp[i].type # "none" =>
         LET p == inforce[KindOf(i)][i] IN p.rx = comp[i].rx /\ p.tx = comp[i].tx

(* Two slaves that move packets, each for a component of its lcore whose    *)
(* update is over, never use the same queue in the same direction.          *)
SettledQueuesDisjoint ==
  \A l, m \in Slaves : l # m /\ Forwarding(l) /\ Forwarding(m)
                         /\ Settled(l) /\ Settled(m) =>
    Path(l).rx \intersect Path(m).rx = {} /\ Path(l).tx \intersect Path(m).tx = {}

(* Every command is answered, unless a stop signal comes before: also when  *)
(* a port cannot be attached or a table cannot be made, and whatever the    *)
(* slaves are doing.                                                        *)
CommandReturns == mpc \in {"ports", "publish", "cores", "comps", "fill", "wait"}
                    ~> mpc = "idle" \/ stopreq = "yes"

(* A stop signal ends the process, or finds the master in a flush and       *)
(* leaves it waiting there for a slave that has stopped.                    *)
StopEndsOrHangs ==
  stopreq = "yes" ~> (mpc = "exited" \/ [](mpc \in {"cores", "wait"}))

(* "[Press Ctrl-C to quit ...]" (src/vf/spp_vf.c:295): the stop signal ends *)
(* the process.                                                             *)
StopEnds == stopreq = "yes" ~> mpc = "exited"
=============================================================================
