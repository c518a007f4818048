------------------------------ MODULE Primary -------------------------------
(***************************************************************************)
(* src/primary/main.c: spp_primary.  A loop connects to spp-ctl, takes one *)
(* command at a time, runs it and sends the reply.  Commands change the    *)
(* ports in three tables that are kept apart: port_id_list by order of     *)
(* adding, port_map and ports_fwd_array by ethdev id; and the flow rules   *)
(* (FlowRules).  A forwarder is configured; its lcores run the code that   *)
(* module Nfv models.  In spp_primary every port has one queue.            *)
(***************************************************************************)
EXTENDS FlowParser, FiniteSets, FiniteSetsExt, Functions

CONSTANTS NSlots,      \* RTE_MAX_ETHPORTS
          NPhy,        \* phy ports, which hold the first ethdev ids
          NRings,      \* num_rings
          Uids,        \* resource UIDs that commands name
          Pipes,       \* pairs of rings of "add pipe"
          Texts,       \* the words after "flow create phy:n"
          Handles, MaxRuleId,
          FlowPorts,   \* ports that flow commands name
          MayFail,     \* "add", "create", "destroy", "flush", "exec", "send"
          MaxCommands, MaxCrashes

ASSUME PrimaryAssumption ==
  /\ {NSlots, NPhy, NRings, MaxCommands, MaxCrashes} \subseteq Nat
  /\ NPhy < NSlots

Devs == 0 .. NSlots - 1
Reset == 65535                                  \* PORT_RESET, UINT16_MAX
Uid(t, n) == [type |-> t, id |-> n]
Types == {"phy", "ring", "vhost", "pcap", "nullpmd", "tap", "memif", "pipe",
          "UNDEF"}
AnyUid == [type : Types, id : 0 .. Reset]

(* The id 65535 marks a place in the list as free.  The parser lets it      *)
(* pass, so that it is left to the users not to give a port this id.        *)
ASSUME UidsAssumption ==
  /\ NSlots <= Reset
  /\ \A u \in Uids : u \in AnyUid /\ u.id # Reset

None == Uid("UNDEF", Reset)
Phys == {Uid("phy", i) : i \in 0 .. NPhy - 1}
BadUid == Uid("", Reset)                        \* parse_resource_uid fails

VARIABLES
  port_id_list,        \* the port at each index
  rings,               \* rx_ring_id and tx_ring_id of each index
  port_map,            \* the port of each ethdev id
  fwd,                 \* ports_fwd_array: in use, destination
  dev,                 \* the device at each ethdev id
  stopped,             \* ethdev ids whose device was closed
  cmd,                 \* "STOP" or "FORWARD"
  port_list, hw, spoiled,          \* see FlowRules
  mpc, answer,         \* the loop, the reply it has to send
  on, sock, connected, \* sock: none, fresh, used or stale
  peer, link,          \* spp-ctl; the connection: none, up or closed
  asked, patches,      \* the ports and patches that replies promise
  odd,                 \* see Slips
  cut,                 \* a port was deleted while there were patches
  ncmd, ncrash

tables == <<port_id_list, rings, port_map, fwd, dev, stopped>>
flows == <<port_list, hw, spoiled>>
conn == <<on, sock, connected, peer, link, ncrash>>
promises == <<asked, patches, odd, cut>>
vars == <<tables, cmd, flows, mpc, answer, conn, promises, ncmd>>

Attached == {i \in Devs : dev[i] # None}
flow_args == [t \in Texts |-> parse_flow_rule(t)]

(* The steps that commands take from FlowRules, none of which looks at Rules *)
Flow == INSTANCE FlowRules
          WITH Ports <- Devs, Rules <- {}, attached <- Attached

Init == /\ dev = [i \in Devs |-> IF i < NPhy THEN Uid("phy", i) ELSE None]
        /\ port_id_list = dev /\ port_map = dev
        /\ rings = [i \in Devs |-> <<>>]
        /\ fwd = [i \in Devs |-> [in |-> i < NPhy, out |-> Reset]]
        /\ stopped = {} /\ cmd = "STOP"
        /\ port_list = [p \in Devs |-> <<>>]
        /\ hw = [p \in Devs |-> Flow!Nothing]
        /\ spoiled = {}
        /\ mpc = "loop" /\ answer = ""
        /\ on = TRUE /\ sock = "none" /\ connected = FALSE
        /\ peer = "up" /\ link = "none"
        /\ asked = Phys /\ patches = [u \in {} |-> u]
        /\ odd = FALSE /\ cut = FALSE /\ ncmd = 0 /\ ncrash = 0

-----------------------------------------------------------------------------
(* add                                                                     *)

Added == {"vhost", "ring", "pcap", "memif", "nullpmd"}

(* add_vhost_pmd and the others: the id of a device that exists, or the     *)
(* first free one                                                           *)
DevSlots(u) == LET Same == {i \in Devs : dev[i] = u}
                   Free == Devs \ Attached
               IN IF u.type = "ring" /\ u.id >= NRings THEN {}
                  ELSE IF Same # {} THEN Same
                  ELSE IF Free # {} THEN {Min(Free)} ELSE {}

(* The first free index of the list, NSlots if there is none *)
FreeIndex == LET F == {i \in Devs : port_id_list[i].id = Reset}
             IN IF F = {} THEN NSlots ELSE Min(F)

(* Index and ethdev id part ways once an add finds the device of a deleted  *)
(* ring, names a port that is there or one that is no vdev, or fails.       *)
Closed == {dev[i] : i \in Attached} \ asked
Slips(u, ok) == ~ok \/ Closed # {} \/ u \in asked \/ u.type \in {"phy", "tap"}

(* Writing behind the list is undefined; here it is not seen. *)
Listed(u, pair) ==
  /\ port_id_list' = [i \in Devs |-> IF i = FreeIndex THEN u ELSE port_id_list[i]]
  /\ rings' = [i \in Devs |-> IF i = FreeIndex THEN pair ELSE rings[i]]

Mapped(i, u) == /\ port_map' = [port_map EXCEPT ![i] = u]
                /\ fwd' = [fwd EXCEPT ![i].in = TRUE]

AddSucceeds(u, pair) ==
  /\ \E i \in DevSlots(u) : /\ dev' = [dev EXCEPT ![i] = u]
                            /\ stopped' = stopped \ {i}
                            /\ Mapped(i, u)
  /\ Listed(u, pair)
  /\ answer' = "succeeded"
  /\ asked' = asked \cup {u}
  /\ odd' = (odd \/ Slips(u, TRUE))
  /\ UNCHANGED <<flows, patches, cut>>

(* The device may be there although its set-up failed; a pipe has none. *)
AddFails(u) ==
  /\ DevSlots(u) = {} \/ "add" \in MayFail
  /\ \/ dev' = dev
     \/ /\ "add" \in MayFail /\ u.type \in Added \ {"ring"}
        /\ \E i \in DevSlots(u) : dev' = [dev EXCEPT ![i] = u]
  /\ IF u.type = "pipe" THEN UNCHANGED <<port_id_list, rings, odd>>
     ELSE Listed(u, <<>>) /\ odd' = TRUE
  /\ answer' = "failed"
  /\ UNCHANGED <<port_map, fwd, stopped, flows, asked, patches, cut>>

(* A phy or tap port: nothing is attached, and ethdev 0 gets the id, with   *)
(* the type of the free index, which is UNDEF.                              *)
AddNothing(u) ==
  /\ u.type \in {"phy", "tap"}
  /\ Mapped(0, Uid("UNDEF", u.id))
  /\ answer' = "succeeded"
  /\ asked' = asked \cup {u}
  /\ odd' = TRUE
  /\ UNCHANGED <<port_id_list, rings, dev, stopped, flows, patches, cut>>

add_port(u, pair) ==
  /\ \/ u.type \in Added \cup {"pipe"} /\ (AddSucceeds(u, pair) \/ AddFails(u))
     \/ AddNothing(u)
  /\ UNCHANGED cmd

-----------------------------------------------------------------------------
(* del                                                                     *)

(* find_ethdev_id, an index of the list; PORT_RESET if there is none *)
find_ethdev_id(u) == LET F == {i \in Devs : port_id_list[i] = u}
                     IN IF F = {} THEN Reset ELSE Min(F)

(* forward_array_remove: the entry is cleared, and then the first one that  *)
(* is in use or leads to i loses its destination.                           *)
forward_array_remove(i) ==
  LET f == [fwd EXCEPT ![i] = [in |-> FALSE, out |-> Reset]]
      Hit == {j \in Devs : f[j].in \/ f[j].out = i}
  IN [j \in Devs |-> IF Hit # {} /\ j = Min(Hit) THEN [f[j] EXCEPT !.out = Reset]
                                                 ELSE f[j]]

Patched(i) == fwd[i].in /\ fwd[i].out # Reset

(* dev_detach_by_port_id takes the device away, with its flow rules. *)
DetachOrClose(u, i) ==
  IF u.type = "ring"
    THEN /\ stopped' = stopped \cup (Attached \cap {i})
         /\ UNCHANGED <<dev, flows>>
    ELSE IF u.type \in {"phy", "tap"} \/ i \notin Attached
           THEN UNCHANGED <<dev, stopped, flows>>
           ELSE /\ dev' = [dev EXCEPT ![i] = None]
                /\ stopped' = stopped \ {i}
                /\ Flow!Detach(i)

(* Bug: the port stays in the list. *)
ForgottenMutList(i) == /\ fwd' = forward_array_remove(i)
                       /\ port_map' = [port_map EXCEPT ![i] = None]
                       /\ UNCHANGED <<port_id_list, rings>>

Forgotten(i) == /\ port_id_list' = [port_id_list EXCEPT ![i] = None]
                /\ fwd' = forward_array_remove(i)
                /\ port_map' = [port_map EXCEPT ![i] = None]
                /\ UNCHANGED rings

(* An index is taken for an ethdev id; for a phy or tap port it is 0. *)
del_port(u) ==
  LET i == IF u.type \in {"phy", "tap"} THEN 0 ELSE find_ethdev_id(u)
  IN /\ IF i = Reset
          THEN /\ answer' = "failed"
               /\ UNCHANGED <<tables, flows, promises>>
          ELSE /\ DetachOrClose(u, i)
               /\ Forgotten(i)
               /\ answer' = "succeeded"
               /\ asked' = asked \ {u}
               /\ patches' = Restrict(patches, {s \in DOMAIN patches :
                                                  u \notin {s, patches[s]}})
               /\ odd' = (odd \/ u.type \in {"phy", "tap"})
               /\ cut' = (cut \/ \E j \in Devs : Patched(j))
     /\ UNCHANGED cmd

-----------------------------------------------------------------------------
(* patch                                                                   *)

(* find_port_id; get_port_type knows no pipe and makes it UNDEF. *)
find_port_id(u) == LET t == IF u.type = "pipe" THEN "UNDEF" ELSE u.type
                       F == {i \in Devs : port_map[i] = Uid(t, u.id)}
                   IN IF F = {} THEN Reset ELSE Min(F)

(* Bug: the destination's own patch is lost. *)
add_patchMutOut(i, o) == [fwd EXCEPT ![i] = [in |-> TRUE, out |-> o],
                                     ![o] = [in |-> TRUE, out |-> Reset]]

add_patch(i, o) == [fwd EXCEPT ![i] = [in |-> TRUE, out |-> o], ![o].in = TRUE]

Patch(s, d) ==
  LET i == find_port_id(s)
      o == find_port_id(d)
  IN /\ IF Reset \in {i, o}
          THEN answer' = "failed" /\ UNCHANGED <<fwd, patches>>
          ELSE /\ fwd' = add_patch(i, o)
               /\ answer' = "succeeded"
               /\ patches' = [u \in DOMAIN patches \cup {s} |->
                                IF u = s THEN d ELSE patches[u]]
     /\ UNCHANGED <<port_id_list, rings, port_map, dev, stopped, cmd, flows,
                    asked, odd, cut>>

(* "patch reset": the reply is what was received. *)
forward_array_reset ==
  /\ fwd' = [i \in Devs |-> IF fwd[i].in THEN [fwd[i] EXCEPT !.out = Reset]
                                         ELSE fwd[i]]
  /\ patches' = [u \in {} |-> u]
  /\ cut' = FALSE
  /\ answer' = "echo"
  /\ UNCHANGED <<port_id_list, rings, port_map, dev, stopped, cmd, flows,
                 asked, odd>>

-----------------------------------------------------------------------------
(* flow                                                                    *)

(* parse_flow: words that cannot be parsed are refused; see also Killed. *)
Parsed(t) == IsOk(flow_args[t])
ParseRefused(t) == ~Parsed(t) /\ answer' = "error" /\ UNCHANGED flows

(* The device's verdict is passed on. *)
exec_flow_validate == answer' \in {"success", "error"} /\ UNCHANGED flows

(* Bug: a flush is for every port. *)
FlowCommandMutAllPorts(r) ==
  /\ UNCHANGED <<tables, cmd, promises>>
  /\ \/ /\ r.sub = "create"
        /\ Parsed(r.text)
        /\ \E h \in Handles : Flow!Created(r.port, h, flow_args[r.text].val)
        /\ answer' = "success"
     \/ /\ r.sub = "ALL"
        /\ port_list' = [p \in Devs |-> <<>>] /\ hw' = [p \in Devs |-> Flow!Nothing]
        /\ answer' = "success" /\ UNCHANGED spoiled

FlowCommand(r) ==
  /\ UNCHANGED <<tables, cmd, promises>>
  /\ \/ r.sub \in {"create", "validate"} /\ ParseRefused(r.text)
     \/ /\ r.sub = "create" /\ Parsed(r.text)
        /\ LET v == flow_args[r.text].val
           IN \/ \E h \in Handles : Flow!Created(r.port, h, v) /\ answer' = "success"
              \/ \E h \in Handles : Flow!CreateUndone(r.port, h, v)
                                   /\ answer' = "error"
              \/ Flow!CreateRefused(r.port) /\ answer' = "error"
     \/ r.sub = "validate" /\ Parsed(r.text) /\ exec_flow_validate
     \/ /\ r.sub = "destroy"
        /\ \/ Flow!Destroyed(r.port, r.id) /\ answer' = "success"
           \/ Flow!DestroyRefused(r.port, r.id) /\ answer' = "error"
     \/ /\ r.sub = "ALL"
        /\ \/ Flow!Flushed(r.port) /\ answer' = "success"
           \/ Flow!FlushFailed(r.port) /\ answer' = "error"
           \/ Flow!FlushRefused(r.port) /\ answer' = "error"

-----------------------------------------------------------------------------
(* status                                                                  *)

(* forwarder_status_json *)
append_port_info_json == {<<i, port_map[i]>> : i \in {j \in Devs : fwd[j].in}}
append_patch_info_json ==
  {<<port_map[i], port_map[fwd[i].out]>> : i \in {j \in Devs : Patched(j)}}
pipes_json == {<<port_id_list[i].id, rings[i]>> :
                 i \in {j \in Devs : port_id_list[j].type = "pipe"}}

(* append_flow_json: the oldest rule first *)
append_flow_json(p) == LET l == port_list[p]
                       IN [i \in DOMAIN l |-> l[Len(l) + 1 - i]]

-----------------------------------------------------------------------------
(* parse_command                                                           *)

Unchanged == UNCHANGED <<tables, cmd, flows, promises>>

(* These change nothing here: status, clear, and "patch" without ports or   *)
(* an unknown command, whose reply is what was received.                    *)
Plain(r) ==
  \/ r.op = "status" /\ answer' = "json" /\ Unchanged
  \/ r.op = "clear" /\ answer' = "succeeded" /\ Unchanged
  \/ r.op = "other" /\ answer' = "echo" /\ Unchanged

ForwardStop(r) == /\ r.op \in {"forward", "stop"}
                  /\ cmd' = IF r.op = "forward" THEN "FORWARD" ELSE "STOP"
                  /\ answer' = "succeeded"
                  /\ UNCHANGED <<tables, flows, promises>>

(* launch_sec_proc forks, and whatever comes of it the reply is the same. *)
Launch(r) == r.op = "launch" /\ answer' = "succeeded" /\ Unchanged

Runs(r) == \/ Plain(r)
           \/ ForwardStop(r)
           \/ Launch(r)
           \/ r.op = "add" /\ r.uid # BadUid /\ add_port(r.uid, r.pair)
           \/ r.op = "del" /\ r.uid # BadUid /\ del_port(r.uid)
           \/ r.op = "patch" /\ Patch(r.src, r.dst)
           \/ r.op = "reset" /\ forward_array_reset
           \/ r.op = "flow" /\ FlowCommand(r)

(* A negative result ends the process once the reply is sent. *)
Quits(r) == \/ /\ r.op = "exit"
               /\ cmd' = "STOP" /\ answer' = "succeeded"
               /\ UNCHANGED <<tables, flows, promises>>
            \/ /\ r.op \in {"add", "del"} /\ r.uid = BadUid
               /\ answer' = "echo" /\ Unchanged

(* The child's execvp fails: it returns into this loop, and two processes   *)
(* share the connection.  They are not followed further.                    *)
LaunchSplits(r) == r.op = "launch" /\ "exec" \in MayFail
                   /\ UNCHANGED answer /\ Unchanged

(* The parse of a flow rule goes past the end of a list. *)
Killed(r) == /\ r.op = "flow" /\ r.sub \in {"create", "validate"}
             /\ flow_args[r.text].status = "undefined"
             /\ UNCHANGED answer /\ Unchanged

Closes == sock' = "none" /\ connected' = FALSE /\ link' = "none"

parse_command(r) ==
  \/ Runs(r) /\ mpc' = "send" /\ UNCHANGED conn
  \/ Quits(r) /\ mpc' = "last" /\ UNCHANGED conn
  \/ LaunchSplits(r) /\ mpc' = "twin" /\ UNCHANGED conn
  \/ Killed(r) /\ mpc' = "end" /\ Closes /\ UNCHANGED <<on, peer, ncrash>>

-----------------------------------------------------------------------------
(* The loop of main; spp-ctl and the connection are external               *)

data == <<tables, cmd, flows, promises>>
Looping == mpc = "loop" /\ on

(* connect fails for good on a socket that has been connected before. *)
do_connection ==
  /\ Looping /\ ~connected
  /\ sock \in {"none", "fresh"}
  /\ IF peer = "up" THEN sock' = "used" /\ connected' = TRUE /\ link' = "up"
                    ELSE sock' = "fresh" /\ UNCHANGED <<connected, link>>
  /\ UNCHANGED <<data, mpc, answer, on, peer, ncrash, ncmd>>

(* do_receive and parse_command.  What goes on meanwhile, a signal or the   *)
(* loss of spp-ctl, may as well come before or after.                       *)
Receive(r) == /\ Looping /\ connected /\ link = "up"
              /\ ncmd < MaxCommands /\ ncmd' = ncmd + 1
              /\ parse_command(r)

(* Bug: the socket is kept. *)
ReceiveClosedMutKeep ==
  /\ Looping /\ connected /\ link = "closed"
  /\ connected' = FALSE /\ link' = "none"
  /\ UNCHANGED <<data, mpc, answer, on, sock, peer, ncrash, ncmd>>

(* do_receive: recv returns 0 or an error. *)
ReceiveClosed == /\ Looping /\ connected /\ link = "closed"
                 /\ Closes
                 /\ UNCHANGED <<data, mpc, answer, on, peer, ncrash, ncmd>>

Sent == IF mpc = "last" THEN "end" ELSE "loop"

(* A reply to a connection that is closed may still be taken. *)
do_send == /\ mpc \in {"send", "last"}
           /\ mpc' = Sent /\ answer' = ""
           /\ IF mpc = "last" THEN Closes ELSE UNCHANGED <<sock, connected, link>>
           /\ UNCHANGED <<data, on, peer, ncrash, ncmd>>

(* It fails, and the socket stays; or SIGPIPE ends the process. *)
SendFails == /\ mpc \in {"send", "last"}
             /\ link = "closed" /\ "send" \in MayFail
             /\ answer' = ""
             /\ link' = "none" /\ connected' = FALSE
             /\ \/ mpc' = Sent /\ sock' = "stale"
                \/ mpc' = "end" /\ sock' = "none"
             /\ UNCHANGED <<data, on, peer, ncrash, ncmd>>

turn_off == /\ on /\ mpc \notin {"end", "twin"}
            /\ on' = FALSE
            /\ UNCHANGED <<data, mpc, answer, sock, connected, peer, link,
                           ncrash, ncmd>>

Leave == /\ mpc = "loop" /\ ~on
         /\ mpc' = "end"
         /\ Closes
         /\ UNCHANGED <<data, answer, on, peer, ncrash, ncmd>>

PeerGoes == /\ peer = "up" /\ ncrash < MaxCrashes
            /\ peer' = "down" /\ ncrash' = ncrash + 1
            /\ link' = IF link = "up" THEN "closed" ELSE link
            /\ UNCHANGED <<data, mpc, answer, on, sock, connected, ncmd>>

PeerComes == /\ peer = "down"
             /\ peer' = "up"
             /\ UNCHANGED <<data, mpc, answer, on, sock, connected, link,
                            ncrash, ncmd>>

(* What spp-ctl sends *)
Request ==
  LET Op(names) == {[op |-> n] : n \in names}
      Add == {[op |-> "add", uid |-> u, pair |-> <<>>] :
                u \in {v \in Uids : v.type # "pipe"} \cup {BadUid}}
             \cup {[op |-> "add", uid |-> u, pair |-> q] :
                u \in {v \in Uids : v.type = "pipe"}, q \in Pipes}
      Del == {[op |-> "del", uid |-> u] : u \in Uids \cup {BadUid}}
      Patches == {[op |-> "patch", src |-> u, dst |-> v] : u, v \in Uids}
      Make == {[op |-> "flow", sub |-> c, port |-> p, text |-> t] :
                 c \in {"create", "validate"}, p \in FlowPorts, t \in Texts}
      Drop == {[op |-> "flow", sub |-> "destroy", port |-> p, id |-> n] :
                 p \in FlowPorts, n \in 0 .. MaxRuleId}
              \cup {[op |-> "flow", sub |-> "ALL", port |-> p] : p \in FlowPorts}
  IN Op({"status", "clear", "other", "forward", "stop", "launch", "reset", "exit"})
     \cup Add \cup Del \cup Patches \cup Make \cup Drop

Loop == do_connection \/ ReceiveClosed \/ do_send \/ SendFails \/ Leave

Next == \/ Loop \/ turn_off \/ PeerGoes \/ PeerComes
        \/ ncmd < MaxCommands /\ Looping /\ \E r \in Request : Receive(r)

Spec == Init /\ [][Next]_vars

(* The loop never waits for longer than POLL_TIMEOUT_MS. *)
FairSpec == Spec /\ WF_vars(Loop)

-----------------------------------------------------------------------------
At(t, u) == {i \in Devs : t[i] = u}

(* The ports and pipes that status lists are those whose add was answered   *)
(* "succeeded" and that were not deleted since, each with its device at the *)
(* ethdev id of its index, running: del, which takes an index for an ethdev *)
(* id, has then closed or detached the device of the port it named.  It     *)
(* takes an add that fails, repeats a port, names a phy or tap port or      *)
(* comes while a deleted ring's device is there to break this.              *)
PortsAsAsked ==
  ~odd => /\ append_port_info_json = {<<i, dev[i]>> : i \in Attached} \ (Devs \X Closed)
          /\ \A u \in asked : /\ Cardinality(At(dev, u)) = 1
                              /\ At(dev, u) = At(port_map, u)
                              /\ At(dev, u) = At(port_id_list, u)
                              /\ At(dev, u) \cap stopped = {}
          /\ \A u \in Closed : u.type = "ring"
          /\ \A q \in pipes_json : Uid("pipe", q[1]) \in asked

(* The patches that status lists are those answered "succeeded", as long as *)
(* no port is deleted while there are patches: forward_array_remove then    *)
(* takes the patch of the first port in use, and leaves those that lead to  *)
(* the port.  "patch reset" makes good for that.                            *)
PatchesAsAccepted ==
  ~odd /\ ~cut => append_patch_info_json = {<<s, patches[s]>> : s \in DOMAIN patches}

(* Unless a device failed to flush or to undo a creation, or its port was   *)
(* deleted with rules, the rules that status lists for a port are the rules *)
(* in its device (FlowRules), also when ports come and go.                  *)
FlowListed == Flow!FlowListed

(* The rules that status shows of a port, in the order of their ids, are    *)
(* what the words of "flow create" say, read piecewise: a field's words     *)
(* belong to the item that the last "pattern", "actions" or "/" before them *)
(* begins, later words for a field replace earlier ones, and a tci is three *)
(* bits of pcp, one of dei, twelve of vid.  Words with a pcp or a dei are   *)
(* left out: set_pcp_in_tci and set_dei_in_tci put these into the bits of   *)
(* the vid.                                                                 *)
Begins(t, i) == i > 1 /\ t[i - 1] \in {"pattern", "actions", "/"} /\ t[i] # "end"
PartOf(t, j) == Max({i \in 1 .. j : Begins(t, i)})
Words(t, i, step) == {j \in DOMAIN t : /\ j > i /\ PartOf(t, j) = i
                                       /\ t[j] # "/" /\ (j - i) % step = 1
                                       /\ \A k \in i .. j : t[k] # "end"}

Meant(f, w) == CASE f \in {"src", "dst"} -> Mac[w]
                 [] f = "pcp" -> {b + 13 : b \in Bits(Number[w], 3)}
                 [] f = "dei" -> {b + 12 : b \in Bits(Number[w], 1)}
                 [] f = "vid" -> Bits(Number[w], 12)
                 [] OTHER -> Bits(Number[w], 16)

ReadsItem(t, i, it) ==
  LET Of(s, kinds) == {j \in Words(t, i, 3) : Slot(t[j]) = s /\ t[j + 1] \in kinds}
      Value(s, kinds) == UNION {Meant(t[j], t[j + 2]) : j \in
                           {k \in Of(s, kinds) : \A l \in Of(s, kinds) :
                              l > k => t[l] # t[k]}}
      Bit(part, s) == IF part = Null THEN {} ELSE part[s]
  IN /\ it.type = t[i]
     /\ \A s \in ItemSlots(t[i]) :
          /\ Bit(it.spec, s) = Value(s, {"is", "spec"})
          /\ Bit(it.last, s) = Value(s, {"last"})
          /\ Bit(it.mask, s) =
               LET J == Of(s, {"is", "mask", "prefix"})
                   k == t[Max(J) + 1]
               IN IF J = {} THEN {}
                  ELSE IF k = "is" THEN 0 .. Width(s) - 1
                  ELSE IF k = "mask" THEN Meant(t[Max(J)], t[Max(J) + 2])
                  ELSE Width(s) - Number[t[Max(J) + 2]] .. Width(s) - 1

ReadsAction(t, i, a) ==
  /\ a.type = t[i]
  /\ \A f \in ActionFields[t[i]] :
       a.conf[f] = LET J == {j + 1 : j \in {k \in Words(t, i, 2) : t[k] = f}}
                   IN IF J = {} THEN 0 ELSE Number[t[Max(J)]]

Reads(t, r) ==
  LET P == {i \in DOMAIN t : Begins(t, i)}
      split == CHOOSE i \in DOMAIN t : t[i] = "actions"
      Nth(Q, n) == CHOOSE i \in Q : Cardinality({j \in Q : j <= i}) = n
      Items == {i \in P : i < split}
      Acts == P \ Items
      Attr(w) == {i \in DOMAIN t : t[i] = w /\ \A j \in P : i < j}
  IN /\ \A w \in DOMAIN NoAttr : r.attr[w] =
          IF Attr(w) = {} THEN 0
          ELSE IF w \in {"group", "priority"} THEN Number[t[Max(Attr(w)) + 1]] ELSE 1
     /\ Len(r.pattern) = Cardinality(Items)
     /\ \A n \in DOMAIN r.pattern : ReadsItem(t, Nth(Items, n), r.pattern[n])
     /\ Len(r.actions) = Cardinality(Acts)
     /\ \A n \in DOMAIN r.actions : ReadsAction(t, Nth(Acts, n), r.actions[n])

Misread == {flow_args[t].val :
              t \in {x \in Texts : /\ IsOk(flow_args[x])
                                  /\ {"pcp", "dei"} \cap Range(x) = {}
                                  /\ ~Reads(x, flow_args[x].val)}}
RuleAsWritten ==
  \A p \in Devs :
    LET shown == append_flow_json(p)
    IN \A i \in DOMAIN shown :
         /\ shown[i].rule \notin Misread
         /\ \A j \in DOMAIN shown : i < j => shown[i].rule_id < shown[j].rule_id

RulesOf == {flow_args[t].val : t \in {x \in Texts : IsOk(flow_args[x])}}
Abstract == INSTANCE FlowRules
              WITH Ports <- Devs, Rules <- RulesOf, attached <- Attached

(* Whatever commands do to ports, devices and rules, what happens to the    *)
(* rules is a step of FlowRules: each command is about the rules of one     *)
(* port, and add and del leave the lists alone.                             *)
ImplementsFlow == Abstract!FlowSpec

(* While spp-ctl is there, the process comes back to it, unless it ends or  *)
(* a send has failed: that leaves a socket which cannot connect again.      *)
Ended == mpc \in {"end", "twin"} \/ ~on
Reconnects ==
  (peer = "up" /\ link # "up") ~>
    (link = "up" \/ peer = "down" \/ Ended \/ sock = "stale")
=============================================================================
