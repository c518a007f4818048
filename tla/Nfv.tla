-------------------------------- MODULE Nfv ---------------------------------
(***************************************************************************)
(* src/nfv and src/shared/port_manager.c, basic_forwarder.c: spp_nfv.  The *)
(* main thread adds, deletes and patches ports in two global tables, which *)
(* a worker scans without any synchronisation while it forwards.           *)
(* A port is an ethdev id ("slot"); a resource is what a resource UID such *)
(* as ring:0 names.  Replies and statistics are left out.                  *)
(***************************************************************************)
EXTENDS Integers, Sequences, FiniteSets, FiniteSetsExt, Functions

CONSTANTS NSlots,      \* RTE_MAX_ETHPORTS
          Phy,         \* phy:0, phy:1, ..., which hold the first slots
          NTxq,        \* tx queues of a phy port; it has one rx queue
          Rings,       \* ring:n, whose device outlives the port
          Others,      \* vhost:n, pcap:n, memif:n, nullpmd:n
          None         \* no port or device in a slot

ASSUME NfvAssumption ==
  /\ NSlots \in Nat \ {0} /\ NTxq \in Nat \ {0}
  /\ Phy \in Seq(Range(Phy)) /\ IsInjective(Phy) /\ Len(Phy) <= NSlots
  /\ IsFiniteSet(Rings) /\ IsFiniteSet(Others) /\ Rings \cap Others = {}
  /\ Range(Phy) \cap (Rings \cup Others) = {}
  /\ None \notin Range(Phy) \cup Rings \cup Others

Slots == 0 .. NSlots - 1
Phys == Range(Phy)
Added == Rings \cup Others
Resources == Phys \cup Added
Queues == 0 .. NTxq - 1
Entries == Slots \X Queues
Reset == -1                     \* PORT_RESET

VARIABLES
  port_map,            \* the resource of each slot
  fwd,                 \* ports_fwd_array
  dev,                 \* the device in each slot
  cmd,                 \* "STOP" or "FORWARD"
  mpc, arg,            \* the main thread: position, arguments of the command
  spc, entry,          \* the worker: position, entry it is at
  out, outq,           \* where its burst goes
  accepted,            \* the patches the commands asked for
  raced,               \* a command overlapped this pass of forward()
  deleted              \* a port was deleted while there were patches

tables == <<port_map, fwd, dev>>
main == <<cmd, mpc, arg>>
worker == <<spc, entry, out, outq>>
ghosts == <<accepted, raced, deleted>>
vars == <<tables, main, worker, ghosts>>

(* forward_array_init_one leaves the functions of an entry alone. *)
Cleared(e) == [e EXCEPT !.in = FALSE, !.out = Reset, !.outq = 0]

(* get_port_max_queues, is_valid_port_rxq, is_valid_port_txq *)
MaxQueues(i) == IF port_map[i] \in Phys THEN NTxq ELSE 1
Rxq(i) == 1
Txq(i) == MaxQueues(i)

(* main: the phy ports are there from the start. *)
Init == /\ port_map = [i \in Slots |-> IF i < Len(Phy) THEN Phy[i + 1] ELSE None]
        /\ dev = port_map
        /\ fwd = [e \in Entries |-> [in |-> e[1] < Len(Phy), out |-> Reset,
                                     outq |-> 0, tx |-> FALSE]]
        /\ cmd = "STOP" /\ mpc = "idle" /\ arg = <<>>
        /\ spc = "top" /\ entry = <<0, 0>> /\ out = Reset /\ outq = 0
        /\ accepted = [r \in Resources |-> <<>>]
        /\ raced = FALSE /\ deleted = FALSE

(* What the worker sees may be half done. *)
Touches == raced' = (raced \/ spc # "top")

(* find_port_id *)
Holds(i, r) == port_map[i] = r
Known(r) == \E i \in Slots : Holds(i, r)
find_port_id(r) == CHOOSE i \in Slots : Holds(i, r)

-----------------------------------------------------------------------------
(* add                                                                     *)

(* External: the id of a device that exists, or the first free one *)
FreeSlots == {i \in Slots : dev[i] = None}
DevSlots(r) == LET Same == {i \in Slots : dev[i] = r}
               IN IF Same # {} THEN Same
                  ELSE IF FreeSlots # {} THEN {Min(FreeSlots)} ELSE {}

do_add(r) ==
  /\ mpc = "idle"
  /\ \E i \in DevSlots(r) :
       /\ dev' = [dev EXCEPT ![i] = r]
       /\ port_map' = [port_map EXCEPT ![i] = r]
       /\ fwd' = [fwd EXCEPT ![<<i, 0>>].in = TRUE]
       /\ Touches
  /\ UNCHANGED <<main, worker, accepted, deleted>>

-----------------------------------------------------------------------------
(* patch                                                                   *)

(* add_patch: both ports and queues exist. *)
ValidPatch(src, dst, q) ==
  /\ Known(src) /\ Known(dst)
  /\ q < MaxQueues(find_port_id(dst)) /\ q < Txq(find_port_id(dst))
  /\ 0 < Rxq(find_port_id(src))

(* The in port's entry gets its functions and then its destination. *)
PatchIn(src, dst, q) ==
  /\ mpc = "idle"
  /\ ValidPatch(src, dst, q)
  /\ fwd' = [fwd EXCEPT ![<<find_port_id(src), 0>>].in = TRUE,
                        ![<<find_port_id(src), 0>>].tx = TRUE,
                        ![<<find_port_id(src), 0>>].out = find_port_id(dst)]
  /\ mpc' = "patch_queue"
  /\ arg' = <<find_port_id(src), find_port_id(dst), q>>
  /\ accepted' = [accepted EXCEPT ![src] = <<dst, q>>]
  /\ Touches
  /\ UNCHANGED <<port_map, dev, cmd, worker, deleted>>

(* Bug: the queue of the destination is forgotten. *)
PatchQueueMutNone == /\ mpc = "patch_queue"
                     /\ mpc' = "patch_out"
                     /\ Touches
                     /\ UNCHANGED <<tables, cmd, arg, worker, accepted, deleted>>

PatchQueue == /\ mpc = "patch_queue"
              /\ fwd' = [fwd EXCEPT ![<<arg[1], 0>>].outq = arg[3]]
              /\ mpc' = "patch_out"
              /\ Touches
              /\ UNCHANGED <<port_map, dev, cmd, arg, worker, accepted, deleted>>

(* Bug: the destination gets no functions. *)
PatchOutMutNoFunc == /\ mpc = "patch_out"
                     /\ fwd' = [fwd EXCEPT ![<<arg[2], arg[3]>>].in = TRUE]
                     /\ mpc' = "idle" /\ arg' = <<>>
                     /\ Touches
                     /\ UNCHANGED <<port_map, dev, cmd, worker, accepted, deleted>>

(* The functions that the destination is sent to with come last. *)
PatchOut == /\ mpc = "patch_out"
            /\ fwd' = [fwd EXCEPT ![<<arg[2], arg[3]>>].in = TRUE,
                                  ![<<arg[2], arg[3]>>].tx = TRUE]
            /\ mpc' = "idle" /\ arg' = <<>>
            /\ Touches
            /\ UNCHANGED <<port_map, dev, cmd, worker, accepted, deleted>>

Scanned(e) == e[2] < MaxQueues(e[1])
Patched(e) == Scanned(e) /\ fwd[e].in /\ fwd[e].out # Reset

(* Bug: the loop ends before the last port. *)
forward_array_resetMutShort ==
  /\ mpc = "idle"
  /\ fwd' = [e \in Entries |-> IF Scanned(e) /\ fwd[e].in /\ e[1] < NSlots - 1
                                 THEN [fwd[e] EXCEPT !.out = Reset] ELSE fwd[e]]
  /\ accepted' = [r \in Resources |-> <<>>]
  /\ Touches
  /\ UNCHANGED <<port_map, dev, main, worker, deleted>>

(* patch reset *)
forward_array_reset ==
  /\ mpc = "idle"
  /\ fwd' = [e \in Entries |-> IF Scanned(e) /\ fwd[e].in
                                 THEN [fwd[e] EXCEPT !.out = Reset] ELSE fwd[e]]
  /\ accepted' = [r \in Resources |-> <<>>]
  /\ Touches
  /\ UNCHANGED <<port_map, dev, main, worker, deleted>>

-----------------------------------------------------------------------------
(* del                                                                     *)

(* Forwarding stops, and the device goes without waiting for the worker;    *)
(* that of a ring is closed and keeps its id.                               *)
do_del(r) ==
  /\ mpc = "idle"
  /\ Known(r)
  /\ cmd' = "STOP"
  /\ dev' = IF r \in Rings THEN dev
                           ELSE [dev EXCEPT ![find_port_id(r)] = None]
  /\ mpc' = "del" /\ arg' = <<find_port_id(r)>>
  /\ deleted' = (deleted \/ \E e \in Entries : Patched(e))
  /\ accepted' = [s \in Resources |->
        IF s = r \/ (accepted[s] # <<>> /\ accepted[s][1] = r) THEN <<>>
                                                     ELSE accepted[s]]
  /\ Touches
  /\ UNCHANGED <<port_map, fwd, worker>>

do_delUnknown(r) == /\ mpc = "idle"
                    /\ ~Known(r)
                    /\ cmd' = "STOP"
                    /\ UNCHANGED <<tables, mpc, arg, worker, ghosts>>

Before(d, e) == d[1] < e[1] \/ (d[1] = e[1] /\ d[2] < e[2])

(* forward_array_remove after it has cleared the entry of port i: the first *)
(* entry in use, or that leads to queue 0 of i, loses its destination.      *)
Hit(f, i, e) == Scanned(e) /\ (f[e].in \/ (f[e].out = i /\ f[e].outq = 0))
forward_array_remove(f, i) ==
  [e \in Entries |->
     IF Hit(f, i, e) /\ \A d \in Entries : Before(d, e) => ~Hit(f, i, d)
       THEN [f[e] EXCEPT !.out = Reset] ELSE f[e]]

DelTables ==
  /\ mpc = "del"
  /\ fwd' = forward_array_remove(
              [fwd EXCEPT ![<<arg[1], 0>>] = Cleared(@)], arg[1])
  /\ port_map' = [port_map EXCEPT ![arg[1]] = None]
  /\ mpc' = "idle" /\ arg' = <<>>
  /\ Touches
  /\ UNCHANGED <<dev, cmd, worker, accepted, deleted>>

-----------------------------------------------------------------------------
(* The other commands                                                      *)

ForwardStop(c) == /\ mpc = "idle"
                  /\ cmd' = c
                  /\ UNCHANGED <<tables, mpc, arg, worker, ghosts>>

(* parse_command returns a negative value for exit, and also for an add or  *)
(* del whose resource UID it cannot parse.                                  *)
Exit == /\ mpc = "idle"
        /\ mpc' = "exit"
        /\ cmd' \in {"STOP", cmd}
        /\ UNCHANGED <<tables, arg, worker, ghosts>>

parse_command ==
  \/ \E r \in Added : do_add(r) \/ do_del(r) \/ do_delUnknown(r)
  \/ \E src, dst \in Resources, q \in Queues : PatchIn(src, dst, q)
  \/ PatchQueue \/ PatchOut \/ forward_array_reset \/ DelTables
  \/ ForwardStop("FORWARD") \/ ForwardStop("STOP") \/ Exit

-----------------------------------------------------------------------------
(* nfv_loop and forward                                                    *)

Enter == /\ spc = "top" /\ cmd = "FORWARD"
         /\ spc' = "scan" /\ entry' = <<0, 0>>
         /\ raced' = (mpc # "idle")
         /\ UNCHANGED <<tables, main, out, outq, accepted, deleted>>

(* The next entry, or the end of forward() *)
Advance == /\ IF \E e \in Entries : Before(entry, e)
                THEN /\ entry' = IF entry[2] < NTxq - 1
                                   THEN <<entry[1], entry[2] + 1>>
                                   ELSE <<entry[1] + 1, 0>>
                     /\ spc' = "scan" /\ raced' = raced
                ELSE spc' = "top" /\ entry' = <<0, 0>> /\ raced' = FALSE
           /\ out' = Reset /\ outq' = 0

Skip == /\ spc = "scan"
        /\ ~Patched(entry)
        /\ Advance
        /\ UNCHANGED <<tables, main, accepted, deleted>>

Select == /\ spc = "scan"
          /\ Patched(entry)
          /\ out' = fwd[entry].out /\ outq' = fwd[entry].outq
          /\ spc' = "rx"
          /\ UNCHANGED <<tables, main, entry, ghosts>>

(* The driver of a device that is gone, and functions that are not set yet, *)
(* cannot be called.                                                        *)
Crash == spc' = "crashed" /\ UNCHANGED <<tables, main, entry, out, outq, ghosts>>

RxBurst == /\ spc = "rx"
           /\ dev[entry[1]] # None
           /\ spc' = "tx"
           /\ UNCHANGED <<tables, main, entry, out, outq, ghosts>>

RxNothing == /\ spc = "rx"
             /\ dev[entry[1]] # None
             /\ Advance
             /\ UNCHANGED <<tables, main, accepted, deleted>>

RxCrash == spc = "rx" /\ dev[entry[1]] = None /\ Crash

(* What is sent, and what is freed because it was not sent, is left out. *)
TxBurst == /\ spc = "tx"
           /\ fwd[<<out, outq>>].tx /\ dev[out] # None
           /\ Advance
           /\ UNCHANGED <<tables, main, accepted, deleted>>

TxCrash == spc = "tx" /\ ~(fwd[<<out, outq>>].tx /\ dev[out] # None) /\ Crash

forward == Skip \/ Select \/ RxBurst \/ RxNothing \/ RxCrash \/ TxBurst \/ TxCrash

Alive == mpc # "exit" /\ spc # "crashed"
Next == Alive /\ (parse_command \/ Enter \/ forward)

Spec == Init /\ [][Next]_vars

-----------------------------------------------------------------------------
(* Properties                                                              *)

(* Type correctness: what the worker reads from the tables is always a      *)
(* port and a queue that exist, also in the middle of a command.            *)
TypeOK == /\ port_map \in [Slots -> Resources \cup {None}]
          /\ dev \in [Slots -> Resources \cup {None}]
          /\ fwd \in [Entries -> [in : BOOLEAN, out : Slots \cup {Reset},
                                  outq : Queues, tx : BOOLEAN]]
          /\ cmd \in {"STOP", "FORWARD"}
          /\ mpc \in {"idle", "patch_queue", "patch_out", "del", "exit"}
          /\ Len(arg) <= 3
          /\ spc \in {"top", "scan", "rx", "tx", "crashed"}
          /\ entry \in Entries /\ out \in Slots \cup {Reset} /\ outq \in Queues
          /\ accepted \in [Resources -> {<<>>} \cup (Resources \X Queues)]
          /\ raced \in BOOLEAN /\ deleted \in BOOLEAN

(* What status lists (append_port_info_json, append_patch_info_json)        *)
ListedPorts == {e \in Entries : Scanned(e) /\ fwd[e].in}
ListedPatches == {e \in ListedPorts : fwd[e].out # Reset}

(* Between commands, as long as no port was deleted while there were        *)
(* patches, status lists exactly the patches that the commands asked for.   *)
PatchedAsAccepted == mpc = "idle" /\ ~deleted =>
  {<<port_map[e[1]], port_map[fwd[e].out], fwd[e].outq>> : e \in ListedPatches}
    = {<<r, accepted[r][1], accepted[r][2]>> : r \in {s \in Resources : accepted[s] # <<>>}}

(* The worker fails only if a table was changed while it was in forward(),  *)
(* or if a port was deleted while there were patches.                       *)
CrashOnlyIfRaced == spc = "crashed" => raced \/ deleted

(* A burst goes to the port and queue that its source was patched to, if    *)
(* no table was changed during this pass of forward().                      *)
FollowsPatch == spc \in {"rx", "tx"} /\ ~raced /\ ~deleted =>
  accepted[port_map[entry[1]]] = <<port_map[out], outq>>

=============================================================================
