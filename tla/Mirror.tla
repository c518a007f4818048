------------------------------- MODULE Mirror -------------------------------
(***************************************************************************)
(* src/mirror: one component of spp_mirror.  The commands change its ports *)
(* (mir_cmd_runner.c), update_mirror replaces its path, and mirror_proc    *)
(* sends every packet to the first tx port and a copy of it to the second. *)
(* A shallow copy (the default build) shares the data of the original and  *)
(* holds a reference to it; a deep copy is independent of it.              *)
(***************************************************************************)
EXTENDS SeqOps

CONSTANTS Ports,       \* tx ports
          Pkts,        \* buffers that packets are received in
          NCopies,     \* size of g_mirror_pool
          MaxBurst,    \* MAX_PKT_BURST
          Shallow      \* SPP_MIRROR_SHALLOWCOPY

ASSUME MirrorAssumption ==
  /\ IsFiniteSet(Ports) /\ IsFiniteSet(Pkts)
  /\ NCopies \in Nat
  /\ MaxBurst \in Nat \ {0}
  /\ Shallow \in BOOLEAN

Sides == {0, 1}
MaxTx == 2

(* struct mirror_path: is there an rx port, and the tx ports in order. *)
EmptyPath == [rx |-> FALSE, tx |-> <<>>]
NoPath == [null |-> TRUE]

VARIABLES
  comp,                  \* the component's ports: an rx port?, tx ports
  ref_index, upd_index, path,
  mpc,                   \* "idle", "update", "fill", "publish", "wait"
  spc, cur,              \* the worker: position, side in use
  bufs, copies, nb_tx2,  \* the burst, which copies could be made, those sent
  refcnt,                \* references to each buffer
  txq1, txq2,            \* originals and copies that the devices hold
  pool                   \* free buffers of g_mirror_pool

sides == <<ref_index, upd_index, path>>
burst == <<bufs, copies, nb_tx2>>
mbufs == <<refcnt, txq1, txq2, pool>>
vars == <<comp, ref_index, upd_index, path, mpc, spc, cur, bufs, copies, nb_tx2,
          refcnt, txq1, txq2, pool>>

Init == /\ comp = EmptyPath
        /\ ref_index = 0 /\ upd_index = 1
        /\ path = [s \in Sides |-> EmptyPath]
        /\ mpc = "idle"
        /\ spc = "out" /\ cur = 0
        /\ bufs = <<>> /\ copies = <<>> /\ nb_tx2 = 0
        /\ refcnt = [b \in Pkts |-> 0]
        /\ txq1 = {} /\ txq2 = [b \in Pkts |-> 0]
        /\ pool = NCopies

-----------------------------------------------------------------------------
(* update_port: each command is flushed before the next one.               *)

Stored(c) == /\ mpc = "idle"
             /\ comp' = c
             /\ mpc' = "update"
             /\ UNCHANGED <<sides, spc, cur, burst, mbufs>>

(* check_mir_port_count: one rx port *)
RxAdd == ~comp.rx /\ Stored([comp EXCEPT !.rx = TRUE])

RxDel == comp.rx /\ Stored([comp EXCEPT !.rx = FALSE])

(* check_mir_port_count: two tx ports *)
TxAdd(p) == /\ ~Contains(comp.tx, p)
            /\ Len(comp.tx) < MaxTx
            /\ Stored([comp EXCEPT !.tx = Append(@, p)])

(* delete_port_info closes the gap: what was mirrored to is now the first. *)
TxDel(p) == \E i \in DOMAIN comp.tx :
              /\ comp.tx[i] = p
              /\ Stored([comp EXCEPT !.tx = RemoveAt(@, i)])

(* update_mirror: the update side is cleared, then filled. *)
UpdateBegin == /\ mpc = "update"
               /\ path' = [path EXCEPT ![upd_index] = EmptyPath]
               /\ mpc' = "fill"
               /\ UNCHANGED <<comp, ref_index, upd_index, spc, cur, burst, mbufs>>

UpdateFill == /\ mpc = "fill"
              /\ path' = [path EXCEPT ![upd_index] = comp]
              /\ mpc' = "publish"
              /\ UNCHANGED <<comp, ref_index, upd_index, spc, cur, burst, mbufs>>

UpdatePublish == /\ mpc = "publish"
                 /\ upd_index' = ref_index
                 /\ mpc' = "wait"
                 /\ UNCHANGED <<comp, ref_index, path, spc, cur, burst, mbufs>>

(* Bug: update_mirror does not wait for the worker. *)
UpdateReturnMutNoWait == /\ mpc = "wait"
                         /\ mpc' = "idle"
                         /\ UNCHANGED <<comp, sides, spc, cur, burst, mbufs>>

UpdateReturn == /\ mpc = "wait" /\ ref_index # upd_index
                /\ mpc' = "idle"
                /\ UNCHANGED <<comp, sides, spc, cur, burst, mbufs>>

-----------------------------------------------------------------------------
(* mirror_proc                                                             *)

change_mirror_index ==
  /\ spc = "out"
  /\ spc' = "load"
  /\ ref_index' = IF ref_index = upd_index THEN 1 - upd_index ELSE ref_index
  /\ UNCHANGED <<comp, upd_index, path, mpc, cur, burst, mbufs>>

LoadPath == /\ spc = "load"
            /\ cur' = ref_index
            /\ spc' = "check"
            /\ UNCHANGED <<comp, sides, mpc, burst, mbufs>>

Ready(p) == p.rx /\ Len(p.tx) = 2

NotReady == /\ spc = "check" /\ ~Ready(path[cur])
            /\ spc' = "out"
            /\ UNCHANGED <<comp, sides, mpc, cur, burst, mbufs>>

(* rte_eth_rx_burst: any number of packets, up to MaxBurst *)
Receive == /\ spc = "check" /\ Ready(path[cur])
           /\ \E B \in SUBSET {b \in Pkts : refcnt[b] = 0} :
                /\ Cardinality(B) <= MaxBurst
                /\ bufs' = SetToSeq(B)
                /\ refcnt' = [b \in Pkts |-> IF b \in B THEN 1 ELSE refcnt[b]]
                /\ spc' = IF B = {} THEN "out" ELSE "copy"
           /\ copies' = <<>>
           /\ UNCHANGED <<comp, sides, mpc, cur, nb_tx2, txq1, txq2, pool>>

(* The next packet is copied; without a free buffer its copy is NULL.       *)
CopyOne ==
  LET b == bufs[Len(copies) + 1]
      made == pool > 0
  IN /\ spc = "copy" /\ Len(copies) < Len(bufs)
     /\ copies' = Append(copies, made)
     /\ pool' = IF made THEN pool - 1 ELSE pool
     /\ refcnt' = IF made /\ Shallow THEN [refcnt EXCEPT ![b] = @ + 1] ELSE refcnt
     /\ UNCHANGED <<comp, sides, mpc, spc, cur, bufs, nb_tx2, txq1, txq2>>

In(s, b) == Cardinality({n \in 1 .. Len(s) : s[n] = b})
Made(from, to, b) == Cardinality({n \in from .. to : bufs[n] = b /\ copies[n]})

(* The mirror port takes the first k copies; it cannot take a NULL. *)
TxMirror == /\ spc = "copy" /\ Len(copies) = Len(bufs)
            /\ \E k \in 0 .. Len(bufs) :
                 /\ \A n \in 1 .. k : copies[n]
                 /\ nb_tx2' = k
                 /\ txq2' = [b \in Pkts |-> txq2[b] + Made(1, k, b)]
            /\ spc' = "tx1"
            /\ UNCHANGED <<comp, sides, mpc, cur, bufs, copies, refcnt, txq1, pool>>

(* A driver that comes to a NULL among the copies dereferences it. *)
TxMirrorCrash == /\ spc = "copy" /\ Len(copies) = Len(bufs)
                 /\ Contains(copies, FALSE)
                 /\ spc' = "crashed"
                 /\ UNCHANGED <<comp, sides, mpc, cur, burst, mbufs>>

Discard(b, from, copiesFrom) ==
  In(SubSeq(bufs, from, Len(bufs)), b) +
    (IF Shallow THEN Made(copiesFrom, Len(bufs), b) ELSE 0)

FreedCopies(from) == Cardinality({n \in from .. Len(bufs) : copies[n]})

(* Bug: the copies the mirror port did not take are not freed. *)
TxOriginalMutKeepsCopies ==
  /\ spc = "tx1"
  /\ \E j \in 0 .. Len(bufs) :
       /\ txq1' = txq1 \union {bufs[n] : n \in 1 .. j}
       /\ refcnt' = [b \in Pkts |-> refcnt[b] -
                       In(SubSeq(bufs, (IF j < nb_tx2 THEN nb_tx2 ELSE j) + 1,
                                 Len(bufs)), b)]
  /\ spc' = "out" /\ bufs' = <<>> /\ copies' = <<>> /\ nb_tx2' = 0
  /\ UNCHANGED <<comp, sides, mpc, cur, txq2, pool>>

(* Bug: the originals are freed from the first that the mirror port did     *)
(* not take.                                                                *)
TxOriginalMutFreesSent ==
  /\ spc = "tx1"
  /\ \E j \in 0 .. Len(bufs) :
       /\ txq1' = txq1 \union {bufs[n] : n \in 1 .. j}
       /\ refcnt' = [b \in Pkts |-> refcnt[b] - Discard(b, nb_tx2 + 1, nb_tx2 + 1)]
  /\ pool' = pool + FreedCopies(nb_tx2 + 1)
  /\ spc' = "out" /\ bufs' = <<>> /\ copies' = <<>> /\ nb_tx2' = 0
  /\ UNCHANGED <<comp, sides, mpc, cur, txq2>>

(* The first port takes j originals.  The originals behind the larger of    *)
(* the two counts are freed, and the copies the mirror port did not take.   *)
TxOriginal ==
  /\ spc = "tx1"
  /\ \E j \in 0 .. Len(bufs) :
       LET nb_tx == IF j < nb_tx2 THEN nb_tx2 ELSE j
       IN /\ txq1' = txq1 \union {bufs[n] : n \in 1 .. j}
          /\ refcnt' = [b \in Pkts |-> refcnt[b] - Discard(b, nb_tx + 1, nb_tx2 + 1)]
  /\ pool' = pool + FreedCopies(nb_tx2 + 1)
  /\ spc' = "out" /\ bufs' = <<>> /\ copies' = <<>> /\ nb_tx2' = 0
  /\ UNCHANGED <<comp, sides, mpc, cur, txq2>>

(* A device has sent an original, or a copy, and frees it. *)
SentOriginal(b) == /\ b \in txq1
                   /\ txq1' = txq1 \ {b}
                   /\ refcnt' = [refcnt EXCEPT ![b] = @ - 1]
                   /\ UNCHANGED <<comp, sides, mpc, spc, cur, burst, txq2, pool>>

SentCopy(b) == /\ txq2[b] > 0
               /\ txq2' = [txq2 EXCEPT ![b] = @ - 1]
               /\ pool' = pool + 1
               /\ refcnt' = IF Shallow THEN [refcnt EXCEPT ![b] = @ - 1] ELSE refcnt
               /\ UNCHANGED <<comp, sides, mpc, spc, cur, burst, txq1>>

-----------------------------------------------------------------------------
Command == RxAdd \/ RxDel \/ \E p \in Ports : TxAdd(p) \/ TxDel(p)
update_mirror == UpdateBegin \/ UpdateFill \/ UpdatePublish \/ UpdateReturn
mirror_proc == \/ change_mirror_index \/ LoadPath \/ NotReady \/ Receive
               \/ CopyOne \/ TxMirror \/ TxMirrorCrash \/ TxOriginal
Device == \E b \in Pkts : SentOriginal(b) \/ SentCopy(b)

Alive == spc # "crashed"
Next == Alive /\ (Command \/ update_mirror \/ mirror_proc \/ Device)

Spec == Init /\ [][Next]_vars

-----------------------------------------------------------------------------
(* Properties                                                              *)

TxPorts == {s \in Seq(Ports) : Len(s) <= MaxTx}
PathType == [rx : BOOLEAN, tx : TxPorts]

(* Type correctness: never more than two tx ports on a side, and reference   *)
(* counts that never go below zero.                                         *)
TypeOK == /\ comp \in PathType
          /\ ref_index \in Sides /\ upd_index \in Sides
          /\ path \in [Sides -> PathType]
          /\ mpc \in {"idle", "update", "fill", "publish", "wait"}
          /\ spc \in {"out", "load", "check", "copy", "tx1", "crashed"}
          /\ cur \in Sides
          /\ bufs \in Seq(Pkts) /\ Len(bufs) <= MaxBurst
          /\ copies \in Seq(BOOLEAN) /\ Len(copies) <= Len(bufs)
          /\ nb_tx2 \in 0 .. Len(bufs)
          /\ refcnt \in [Pkts -> Nat]
          /\ txq1 \subseteq Pkts /\ txq2 \in [Pkts -> Nat]
          /\ pool \in 0 .. NCopies

(* The copies that mirror_proc holds *)
Held(b) == Made(IF spc = "tx1" THEN nb_tx2 + 1 ELSE 1, Len(copies), b)

(* References to the buffer of a packet: mirror_proc's, the devices', and   *)
(* those of its shallow copies.                                             *)
Holders(b) == In(bufs, b) + (IF b \in txq1 THEN 1 ELSE 0) +
                (IF Shallow THEN txq2[b] + Held(b) ELSE 0)

(* A buffer is never back in its pool, to be received into, while the       *)
(* worker, a device or a shallow copy still refers to it.                   *)
NotFreedEarly == \A b \in Pkts : refcnt[b] >= Holders(b)

(* The copies that are out, numbered for each packet *)
CopiesOut == UNION {{b} \X (1 .. txq2[b] + Held(b)) : b \in Pkts}

(* No buffer of g_mirror_pool is lost or freed twice, whatever the two tx   *)
(* ports take and also when the pool runs empty in the middle of a burst.   *)
CopiesConserved == pool + Cardinality(CopiesOut) = NCopies

InBurst == spc \in {"check", "copy", "tx1"}

Cell == INSTANCE ConfigCell WITH
  Configs <- PathType,
  NoConfig <- NoPath,
  current <- path[ref_index],
  request <- IF mpc = "idle" THEN NoPath ELSE comp,
  phase <- IF mpc = "idle" THEN "idle"
           ELSE IF mpc = "wait" /\ ref_index # upd_index THEN "applied"
           ELSE "requested",
  burst <- IF InBurst THEN path[cur] ELSE NoPath

(* The originals and the copies of one burst go to the two tx ports of one  *)
(* configuration, although both are read from shared memory when they are   *)
(* used; update_mirror returns with its argument in force.                  *)
ImplementsCell == Cell!Spec
=============================================================================
