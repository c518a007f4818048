----------------------------- MODULE PcapProofs -----------------------------
(***************************************************************************)
(* Proofs about spp_pcap, for every number of writers, packets and         *)
(* commands, every ring and burst size, and every combination of file      *)
(* operations that fail: outbuff is owned with the file, the mbufs are     *)
(* conserved, and the files hold the packets once and in order.            *)
(***************************************************************************)
EXTENDS Pcap, TLAPS, FiniteSetTheorems, WellFoundedInduction,
        SequenceTheorems

(* Where a writer may be while it has its file open: from INIT_MODE to      *)
(* CLOSE_MODE its place in the loop and info->status tell.                  *)
FileHeld(w) ==
  \/ pc[w] \in {"boot", "top", "proc"} /\ (compress_fp[w] = "open" <=> status[w] = "running")
  \/ pc[w] \in {"inc", "inc_store", "dequeue", "empty", "write"}
       /\ compress_fp[w] = "open" /\ status[w] = "running"
  \/ pc[w] \in {"dec", "dec_store", "close"} /\ compress_fp[w] = "open" /\ status[w] = "idle"
  \/ pc[w] = "gone" /\ compress_fp[w] = "NULL" /\ status[w] = "idle"

(* The points of the loop that a thread may be at. *)
Points == {"boot", "top", "proc", "inc", "inc_store", "wait", "rx", "dequeue",
           "empty", "write", "dec", "dec_store", "close", "gone"}

(* The inductive invariant. *)
Inv == /\ pc \in [Threads -> Points]
       /\ status \in [Threads -> {"idle", "running"}]
       /\ compress_fp \in [Writers -> {"NULL", "open"}]
       /\ outbuff \in [Writers -> Int]
       /\ OutbuffOwned
       /\ \A w \in Writers : FileHeld(w)

LEMMA ThreadSets == /\ Writers \subseteq Threads
                    /\ Receiver \in Threads
                    /\ Receiver \notin Writers
BY PcapAssumption DEF Writers, Threads, Receiver

LEMMA InitInv == Init => Inv
BY ThreadSets DEF Init, Inv, Points, OutbuffOwned, FileHeld

(* A step of the receiver leaves the files, and the writers' state, alone.  *)
LEMMA ReceiverInv ==
  ASSUME Inv, slave_main(Receiver)
  PROVE  Inv'
<1> USE ThreadSets DEF Inv, Points, OutbuffOwned, FileHeld, files, Goto
<1>1. CASE Boot(Receiver) BY <1>1 DEF Boot
<1>2. CASE Leave(Receiver) BY <1>2 DEF Leave
<1>3. CASE Top(Receiver) BY ZenonT(60), <1>3 DEF Top
<1>4. CASE pcap_proc_receive
  <2>1. CASE ReceiveIdle BY <2>1 DEF ReceiveIdle
  <2>2. CASE ReceiveStop BY <2>2 DEF ReceiveStop
  <2>3. CASE ReceiveStart BY <2>3 DEF ReceiveStart
  <2>4. CASE ReceiveGoesOn BY <2>4 DEF ReceiveGoesOn
  <2>5. CASE StartUpWait BY <2>5 DEF StartUpWait
  <2>6. CASE StartUpDone BY <2>6 DEF StartUpDone
  <2>7. CASE Receive BY <2>7 DEF Receive
  <2>8. CASE IncLoad(Receiver) BY <2>8 DEF IncLoad, Load
  <2>9. CASE IncStore(Receiver, "wait") BY <2>9 DEF IncStore, Store
  <2>10. CASE DecLoad(Receiver, "top") BY <2>10 DEF DecLoad, Load
  <2>11. CASE DecStore(Receiver, "top") BY <2>11 DEF DecStore, Store
  <2> QED BY ZenonT(60), <1>4, <2>1, <2>2, <2>3, <2>4, <2>5, <2>6, <2>7, <2>8, <2>9,
             <2>10, <2>11 DEF pcap_proc_receive
<1> QED BY <1>1, <1>2, <1>3, <1>4 DEF slave_main

(* A step of a writer: INIT_MODE allocates outbuff with the file, CLOSE_MODE *)
(* and the error paths free it with the file, and only when it is open.      *)
LEMMA WriterInv ==
  ASSUME Inv, NEW w \in Writers, slave_main(w)
  PROVE  Inv'
<1> USE ThreadSets DEF Inv, Points, OutbuffOwned, FileHeld, files, Goto
<1>0. w # Receiver OBVIOUS
<1>1. CASE Boot(w) BY <1>1 DEF Boot
<1>2. CASE Leave(w) BY <1>2 DEF Leave
<1>3. CASE Top(w) BY ZenonT(60), <1>3 DEF Top
<1>4. CASE pcap_proc_write(w)
  <2>1. CASE WriteIdle(w) BY <2>1 DEF WriteIdle
  <2>2. CASE WriteStart(w)
    <3>1. /\ pc[w] = "proc" /\ status[w] = "idle"
          /\ status' = [status EXCEPT ![w] = "running"]
          /\ compress_fp' = [compress_fp EXCEPT ![w] = "open"]
          /\ outbuff' = [outbuff EXCEPT ![w] = @ + 1]
          /\ pc' = [pc EXCEPT ![w] = "inc"]
      BY ZenonT(60), <2>2 DEF WriteStart, FileInit
    <3> QED BY <3>1
  <2>3. CASE WriteStartFails(w)
    BY <2>3 DEF WriteStartFails, FileInitFails, EndsThread
  <2>4. CASE WriteGoesOn(w) BY <2>4 DEF WriteGoesOn
  <2>5. CASE Dequeue(w) BY <2>5 DEF Dequeue
  <2>6. CASE WriteStop(w) BY <2>6 DEF WriteStop
  <2>7. CASE WriteClose(w) BY <2>7 DEF WriteClose, FileClose, Closed
  <2>8. CASE WritePacket(w) BY <2>8 DEF WritePacket, PacketWritten
  <2>9. CASE WriteDone(w) BY <2>9 DEF WriteDone
  <2>10. CASE WritePacketFails(w)
    <3>1. /\ pc[w] = "write"
          /\ pc' = [pc EXCEPT ![w] = "gone"]
          /\ status' = [status EXCEPT ![w] = "idle"]
      BY <2>10 DEF WritePacketFails, EndsThread
    <3>2. /\ compress_fp' = [compress_fp EXCEPT ![w] = "NULL"]
          /\ outbuff' = [outbuff EXCEPT ![w] = @ - 1]
      BY <2>10 DEF WritePacketFails, RollFails, WriteFails, Closed
    <3> QED BY <3>1, <3>2
  <2>11. CASE IncLoad(w) BY <2>11 DEF IncLoad, Load
  <2>12. CASE IncStore(w, "dequeue") BY <2>12 DEF IncStore, Store
  <2>13. CASE DecLoad(w, "close") BY <2>13 DEF DecLoad, Load
  <2>14. CASE DecStore(w, "close") BY <2>14 DEF DecStore, Store
  <2> QED BY ZenonT(60), <1>4, <2>1, <2>2, <2>3, <2>4, <2>5, <2>6, <2>7, <2>8, <2>9,
             <2>10, <2>11, <2>12, <2>13, <2>14 DEF pcap_proc_write
<1> QED BY <1>0, <1>1, <1>2, <1>3, <1>4 DEF slave_main

(* The master changes neither the files nor where the threads are. *)
LEMMA MasterInv ==
  ASSUME Inv, Master
  PROVE  Inv'
<1>1. UNCHANGED <<pc, status, compress_fp, outbuff>>
  BY DEF Master, Started, StartTimeout, TakeCommand, StartStop, Exit,
         stop_process, LeaveLoop, Finish, FinishTimeout, files
<1> QED BY ZenonT(60), <1>1 DEF Inv, OutbuffOwned, FileHeld

LEMMA StepInv == Inv /\ [Next]_vars => Inv'
<1> SUFFICES ASSUME Inv, [Next]_vars PROVE Inv'
  OBVIOUS
<1>1. CASE Master BY <1>1, MasterInv
<1>2. ASSUME NEW t \in Threads, slave_main(t) PROVE Inv'
  <2>1. t = Receiver \/ t \in Writers
    BY PcapAssumption DEF Threads, Writers, Receiver
  <2> QED BY <1>2, <2>1, ReceiverInv, WriterInv
<1>3. CASE UNCHANGED vars
  BY <1>3 DEF vars, files, Inv, OutbuffOwned, FileHeld
<1> QED BY <1>1, <1>2, <1>3 DEF Next

(* outbuff is allocated exactly while the file is open: no error path of    *)
(* file_compression_operation, compress_file_packet or pcap_proc_write      *)
(* frees it twice or leaves it allocated.                                   *)
THEOREM PcapOutbuffOwned == Spec => []OutbuffOwned
<1>1. Inv => OutbuffOwned BY DEF Inv
<1> QED BY <1>1, InitInv, StepInv, PTL DEF Spec
-----------------------------------------------------------------------------
(* The mbufs.                                                              *)

OnRing(k) == \E i \in DOMAIN cap_ring : cap_ring[i] = k

(* Where the mbuf of packet k is: not received yet, on the ring, in the     *)
(* burst of one writer, or released.                                        *)
NowhereElse(k, W) == \A w \in Writers \ W : ~Contains(bufs[w], k)
AtOnePlace(k) ==
  \/ k > arrived /\ ~OnRing(k) /\ NowhereElse(k, {}) /\ freed[k] = 0
  \/ k <= arrived /\ OnRing(k) /\ NowhereElse(k, {}) /\ freed[k] = 0
  \/ /\ k <= arrived /\ ~OnRing(k) /\ freed[k] = 0
     /\ \E w \in Writers : Contains(bufs[w], k) /\ NowhereElse(k, {w})
  \/ k <= arrived /\ ~OnRing(k) /\ NowhereElse(k, {}) /\ freed[k] = 1

(* No packet is twice on the ring, and a writer has a burst only while it   *)
(* writes it: the next one does not overwrite it.                           *)
MbufInv ==
  /\ pc = [t \in Threads |-> pc[t]]
  /\ arrived \in Nat
  /\ cap_ring \in Seq(Packets) /\ Len(cap_ring) <= RingSize
  /\ \A i, j \in DOMAIN cap_ring : cap_ring[i] = cap_ring[j] => i = j
  /\ bufs \in [Writers -> Seq(Packets)]
  /\ freed \in [Packets -> Nat]
  /\ \A w \in Writers : pc[w] # "write" => bufs[w] = <<>>
  /\ \A k \in Packets : AtOnePlace(k)
Mbufs == <<arrived, cap_ring, bufs, freed>>

(* A step that does not end a burst. *)
LEMMA MbufsKept ==
  ASSUME MbufInv, UNCHANGED Mbufs, pc' = [t \in Threads |-> pc'[t]],
         \A w \in Writers : pc'[w] # "write" => pc[w] # "write"
  PROVE  MbufInv'
BY Zenon DEF MbufInv, Mbufs, AtOnePlace, OnRing, NowhereElse

LEMMA GotoKeeps ==
  ASSUME MbufInv, UNCHANGED Mbufs, NEW t \in Threads, NEW to, Goto(t, to),
         pc[t] # "write"
  PROVE  MbufInv'
<1>1. pc' = [pc EXCEPT ![t] = to] /\ pc = [u \in Threads |-> pc[u]]
  BY DEF Goto, MbufInv
<1>2. pc' = [u \in Threads |-> pc'[u]] /\ \A u \in Threads : u # t => pc'[u] = pc[u]
  BY <1>1
<1> QED
  BY <1>2, MbufsKept, ThreadSets

(* A burst taken off the ring, and the rest. *)
LEMMA SplitOf ==
  ASSUME NEW s \in Seq(Packets), NEW n \in 0 .. Len(s)
  PROVE  LET a == SubSeq(s, 1, n)
             b == SubSeq(s, n + 1, Len(s))
         IN /\ a \in Seq(Packets) /\ Len(a) = n /\ \A i \in 1 .. n : a[i] = s[i]
            /\ b \in Seq(Packets) /\ Len(b) = Len(s) - n
            /\ \A i \in 1 .. Len(s) - n : b[i] = s[n + i]
<1> DEFINE a == SubSeq(s, 1, n)
           b == SubSeq(s, n + 1, Len(s))
<1>1. Len(s) \in Nat /\ n \in Nat /\ n <= Len(s)
  OBVIOUS
<1>2. a \in Seq(Packets) /\ Len(a) = n
  BY <1>1
<1>3. \A i \in 1 .. n : a[i] = s[i]
  BY <1>1
<1>4. b \in Seq(Packets) /\ Len(b) = Len(s) - n
  BY <1>1
<1>5. \A i \in 1 .. Len(s) - n : b[i] = s[n + i]
  BY <1>1
<1> QED
  BY <1>2, <1>3, <1>4, <1>5
(* n packets arrive after the first a, and m of them go on the ring. *)
Grows(a, n, m) ==
  /\ a = arrived /\ a \in Nat /\ n \in Nat /\ m \in Nat /\ m <= n
  /\ cap_ring \in Seq(Packets) /\ Len(cap_ring) + m <= RingSize
  /\ a + n <= NPackets /\ arrived' = a + n
  /\ freed' = [k \in Packets |-> freed[k] + IF k \in a + m + 1 .. a + n THEN 1 ELSE 0]
  /\ dropped' = dropped \cup (a + m + 1 .. a + n)
  /\ cap_ring' \in Seq(Packets) /\ Len(cap_ring') = Len(cap_ring) + m
  /\ \A i \in 1 .. Len(cap_ring) : cap_ring'[i] = cap_ring[i]
  /\ \A i \in 1 .. m : cap_ring'[Len(cap_ring) + i] = a + i
  /\ \A i \in DOMAIN cap_ring : cap_ring[i] <= a /\ cap_ring[i] \in Nat
  /\ \A i \in DOMAIN cap_ring' :
       \/ i \in DOMAIN cap_ring /\ cap_ring'[i] = cap_ring[i]
       \/ /\ i \notin DOMAIN cap_ring /\ i - Len(cap_ring) \in 1 .. m
          /\ cap_ring'[i] = a + (i - Len(cap_ring))

LEMMA RingGrows ==
  ASSUME MbufInv, Receive
  PROVE  \E a, n, m : Grows(a, n, m)
<1>1. PICK n \in 0 .. MaxBurst :
        LET Room == RingSize - Len(cap_ring)
            nb_tx == IF n < Room THEN n ELSE Room
            Rest == arrived + nb_tx + 1 .. arrived + n
        IN /\ arrived + n <= NPackets
           /\ arrived' = arrived + n
           /\ cap_ring' = cap_ring \o [i \in 1 .. nb_tx |-> arrived + i]
           /\ dropped' = dropped \cup Rest
           /\ freed' = [k \in Packets |-> freed[k] + IF k \in Rest THEN 1 ELSE 0]
  BY Zenon DEF Receive
<1>2. PICK m : m = IF n < RingSize - Len(cap_ring) THEN n ELSE RingSize - Len(cap_ring)
  OBVIOUS
<1>3. PICK a : a = arrived
  OBVIOUS
<1>4. /\ a \in Nat /\ n \in Nat /\ Len(cap_ring) \in Nat /\ cap_ring \in Seq(Packets)
      /\ Len(cap_ring) <= RingSize /\ RingSize \in Nat
  BY <1>3, PcapAssumption DEF MbufInv
<1>5. m \in Nat /\ m <= n /\ Len(cap_ring) + m <= RingSize
  BY <1>2, <1>4
<1>6. /\ a + n <= NPackets /\ arrived' = a + n
      /\ cap_ring' = cap_ring \o [i \in 1 .. m |-> a + i]
      /\ freed' = [k \in Packets |-> freed[k] + IF k \in a + m + 1 .. a + n THEN 1 ELSE 0]
      /\ dropped' = dropped \cup (a + m + 1 .. a + n)
  BY <1>1, <1>2, <1>3
<1>8. a + m <= NPackets
  BY <1>4, <1>5, <1>6, PcapAssumption
<1>9. /\ cap_ring' \in Seq(Packets) /\ Len(cap_ring') = Len(cap_ring) + m
      /\ DOMAIN cap_ring' = 1 .. Len(cap_ring) + m
      /\ DOMAIN cap_ring = 1 .. Len(cap_ring)
      /\ \A i \in 1 .. Len(cap_ring) : cap_ring'[i] = cap_ring[i]
      /\ \A i \in 1 .. m : cap_ring'[Len(cap_ring) + i] = a + i
  <2>1. PICK r : r = [i \in 1 .. m |-> a + i]
    BY Zenon
  <2>2. \A i \in 1 .. m : a + i \in Packets
    BY <1>4, <1>5, <1>8, PcapAssumption DEF Packets
  <2>3. r \in Seq(Packets) /\ Len(r) = m /\ \A i \in 1 .. m : r[i] = a + i
    <3>1. \A i \in 1 .. m : r[i] = a + i
      BY <2>1
    <3>2. m \in Nat /\ r \in [1 .. m -> Packets]
      BY <1>5, <2>1, <2>2
    <3>3. r \in Seq(Packets) /\ Len(r) = m
      BY <3>2
    <3> QED
      BY Zenon, <3>1, <3>3
  <2>4. cap_ring' = cap_ring \o r /\ cap_ring \in Seq(Packets) /\ r \in Seq(Packets)
    BY ZenonT(60), <1>4, <1>6, <2>1, <2>3
  <2>5. /\ cap_ring' \in Seq(Packets) /\ Len(cap_ring') = Len(cap_ring) + Len(r)
        /\ DOMAIN cap_ring' = 1 .. Len(cap_ring) + Len(r)
        /\ DOMAIN cap_ring = 1 .. Len(cap_ring)
        /\ \A i \in 1 .. Len(cap_ring) : cap_ring'[i] = cap_ring[i]
        /\ \A i \in 1 .. Len(r) : cap_ring'[Len(cap_ring) + i] = r[i]
    BY SMT, <2>4
  <2> QED
    BY <2>3, <2>5
<1>10. ASSUME NEW k \in Packets, OnRing(k)
       PROVE  k <= a
  BY <1>3, <1>10 DEF MbufInv, AtOnePlace
<1>11. ASSUME NEW i \in DOMAIN cap_ring
       PROVE  cap_ring[i] <= a /\ cap_ring[i] \in Nat
  <2>1. cap_ring[i] \in Packets
    BY <1>4
  <2> QED
    BY <1>10, <2>1 DEF OnRing, Packets
<1>12. ASSUME NEW i \in DOMAIN cap_ring'
       PROVE  \/ i \in DOMAIN cap_ring /\ cap_ring'[i] = cap_ring[i]
              \/ /\ i \notin DOMAIN cap_ring /\ i - Len(cap_ring) \in 1 .. m
                 /\ cap_ring'[i] = a + (i - Len(cap_ring))
  <2>1. CASE i <= Len(cap_ring)
    BY <1>4, <1>5, <1>9, <2>1
  <2>2. CASE i > Len(cap_ring)
    <3>1. i - Len(cap_ring) \in 1 .. m /\ i = Len(cap_ring) + (i - Len(cap_ring))
      BY SMTT(30), <1>4, <1>5, <1>9, <1>12, <2>2
    <3>2. cap_ring'[Len(cap_ring) + (i - Len(cap_ring))] = a + (i - Len(cap_ring))
      BY <1>9, <3>1
    <3> QED
      BY ZenonT(60), <1>9, <2>2, <3>1, <3>2
  <2> QED
    BY SMTT(30), <1>4, <1>5, <1>9, <2>1, <2>2
<1>13. Grows(a, n, m)
  BY ZenonT(60), <1>3, <1>4, <1>5, <1>6, <1>9, <1>11, <1>12 DEF Grows
<1> QED
  BY <1>13

(* Packets arrive in order, so what is put on the ring was not there: it     *)
(* goes on the ring, or is released at once.                                 *)
LEMMA ReceiveMbufs ==
  ASSUME MbufInv, Receive
  PROVE  MbufInv'
<1>1. PICK a, n, m : Grows(a, n, m)
  BY RingGrows
<1>3. a = arrived
  BY <1>1 DEF Grows
<1>4. /\ a \in Nat /\ n \in Nat /\ Len(cap_ring) \in Nat /\ cap_ring \in Seq(Packets)
      /\ Len(cap_ring) <= RingSize /\ RingSize \in Nat
  BY <1>1, PcapAssumption DEF Grows, MbufInv
<1>5. m \in Nat /\ m <= n /\ Len(cap_ring) + m <= RingSize
  BY <1>1 DEF Grows
<1>6. /\ a + n <= NPackets /\ arrived' = a + n
      /\ freed' = [k \in Packets |-> freed[k] + IF k \in a + m + 1 .. a + n THEN 1 ELSE 0]
  BY Zenon, <1>1 DEF Grows
<1>7. pc' = [pc EXCEPT ![Receiver] = "top"] /\ bufs' = bufs
  BY DEF Receive, Goto
<1>9. /\ cap_ring' \in Seq(Packets) /\ Len(cap_ring') = Len(cap_ring) + m
      /\ DOMAIN cap_ring' = 1 .. Len(cap_ring) + m
      /\ DOMAIN cap_ring = 1 .. Len(cap_ring)
      /\ \A i \in 1 .. Len(cap_ring) : cap_ring'[i] = cap_ring[i]
      /\ \A i \in 1 .. m : cap_ring'[Len(cap_ring) + i] = a + i
  BY <1>1 DEF Grows
<1>11. \A i \in DOMAIN cap_ring : cap_ring[i] <= a /\ cap_ring[i] \in Nat
  BY Zenon, <1>1 DEF Grows
<1>12. \A i \in DOMAIN cap_ring' :
         \/ i \in DOMAIN cap_ring /\ cap_ring'[i] = cap_ring[i]
         \/ /\ i \notin DOMAIN cap_ring /\ i - Len(cap_ring) \in 1 .. m
            /\ cap_ring'[i] = a + (i - Len(cap_ring))
  BY Zenon, <1>1 DEF Grows
<1>13. \A i, j \in DOMAIN cap_ring' : cap_ring'[i] = cap_ring'[j] => i = j
  <2> SUFFICES ASSUME NEW i \in DOMAIN cap_ring', NEW j \in DOMAIN cap_ring',
                      cap_ring'[i] = cap_ring'[j]
               PROVE  i = j
    OBVIOUS
  <2>1. i \in Nat /\ j \in Nat
    BY SMTT(30), <1>4, <1>5, <1>9
  <2>2. CASE i \in DOMAIN cap_ring /\ j \in DOMAIN cap_ring
    BY <1>12, <2>2 DEF MbufInv
  <2>3. CASE i \in DOMAIN cap_ring /\ j \notin DOMAIN cap_ring
    BY SMTT(30), <1>4, <1>11, <1>12, <2>3
  <2>4. CASE i \notin DOMAIN cap_ring /\ j \in DOMAIN cap_ring
    BY SMTT(30), <1>4, <1>11, <1>12, <2>4
  <2>5. CASE i \notin DOMAIN cap_ring /\ j \notin DOMAIN cap_ring
    BY SMTT(30), <1>4, <1>12, <2>1, <2>5
  <2> QED
    BY ZenonT(60), <2>2, <2>3, <2>4, <2>5
<1>14. ASSUME NEW k \in Packets
       PROVE  OnRing(k)' <=> OnRing(k) \/ k \in a + 1 .. a + m
  <2>1. OnRing(k)' => OnRing(k) \/ k \in a + 1 .. a + m
    BY SMTT(30), <1>4, <1>5, <1>12 DEF OnRing
  <2>2. OnRing(k) => OnRing(k)'
    BY <1>4, <1>5, <1>9 DEF OnRing
  <2>3. ASSUME k \in a + 1 .. a + m
        PROVE  OnRing(k)'
    <3>1. k - a \in 1 .. m /\ k = a + (k - a) /\ Len(cap_ring) + (k - a) \in DOMAIN cap_ring'
      BY <1>4, <1>5, <1>9, <2>3
    <3>2. cap_ring'[Len(cap_ring) + (k - a)] = a + (k - a)
      BY <1>9, <3>1
    <3> QED
      BY <3>1, <3>2 DEF OnRing
  <2> QED
    BY SMTT(30), <2>1, <2>2, <2>3
<1>15. ASSUME NEW k \in Packets
       PROVE  AtOnePlace(k)'
  <2>1. k \in Nat /\ freed[k] \in Nat
    BY DEF Packets, MbufInv
  <2>2. NowhereElse(k, {})' <=> NowhereElse(k, {})
    BY <1>7 DEF NowhereElse
  <2>3. AtOnePlace(k)
    BY DEF MbufInv
  <2>4. freed'[k] = freed[k] + IF k \in a + m + 1 .. a + n THEN 1 ELSE 0
    BY ZenonT(60), <1>6
  <2>5. CASE k <= a
    <3>1. freed'[k] = freed[k] /\ (OnRing(k)' <=> OnRing(k)) /\ k <= arrived'
      BY SMTT(30), <1>4, <1>5, <1>6, <1>14, <2>1, <2>4, <2>5
    <3> QED
      BY SMTT(30), <1>3, <1>4, <1>7, <2>1, <2>2, <2>3, <2>5, <3>1 DEF AtOnePlace, NowhereElse
  <2>6. CASE k > a
    <3>1. ~OnRing(k) /\ NowhereElse(k, {}) /\ freed[k] = 0
      BY SMTT(30), <1>3, <1>4, <2>1, <2>3, <2>6 DEF AtOnePlace
    <3>2. CASE k \in a + 1 .. a + m
      <4>1. OnRing(k)' /\ freed'[k] = 0 /\ k <= arrived'
        BY SMTT(30), <1>4, <1>5, <1>6, <1>14, <2>1, <2>4, <3>1, <3>2
      <4> QED
        BY ZenonT(60), <2>2, <3>1, <4>1 DEF AtOnePlace
    <3>3. CASE k \in a + m + 1 .. a + n
      <4>1. ~OnRing(k)' /\ freed'[k] = 1 /\ k <= arrived'
        BY SMTT(30), <1>4, <1>5, <1>6, <1>14, <2>1, <2>4, <3>1, <3>3
      <4> QED
        BY ZenonT(60), <2>2, <3>1, <4>1 DEF AtOnePlace
    <3>4. CASE k > a + n
      <4>1. ~OnRing(k)' /\ freed'[k] = 0 /\ k > arrived'
        BY SMTT(30), <1>4, <1>5, <1>6, <1>14, <2>1, <2>4, <3>1, <3>4
      <4> QED
        BY ZenonT(60), <2>2, <3>1, <4>1 DEF AtOnePlace
    <3> QED
      BY SMTT(30), <1>4, <1>5, <2>1, <2>6, <3>2, <3>3, <3>4
  <2> QED
    BY <1>4, <2>1, <2>5, <2>6
<1>16. /\ pc' = [t \in Threads |-> pc'[t]]
       /\ \A w \in Writers : pc'[w] # "write" => bufs'[w] = <<>>
  BY Zenon, <1>7, ThreadSets DEF MbufInv
<1>17. arrived' \in Nat /\ freed' \in [Packets -> Nat]
  BY <1>4, <1>6 DEF MbufInv
<1>18. Len(cap_ring') <= RingSize
  BY ZenonT(60), <1>5, <1>9
<1> QED
  BY ZenonT(60), <1>7, <1>9, <1>13, <1>15, <1>16, <1>17, <1>18 DEF MbufInv

LEMMA DequeueMbufs ==
  ASSUME MbufInv, NEW w \in Writers, Dequeue(w)
  PROVE  MbufInv'
<1>1. PICK n : n = IF Len(cap_ring) < MaxBurst THEN Len(cap_ring) ELSE MaxBurst
  OBVIOUS
<1>2. PICK s : s = cap_ring
  OBVIOUS
<1>3. /\ s \in Seq(Packets) /\ Len(s) <= RingSize /\ Len(s) \in Nat
      /\ DOMAIN s = 1 .. Len(s) /\ \A i, j \in 1 .. Len(s) : s[i] = s[j] => i = j
  BY <1>2 DEF MbufInv
<1>4. n \in 0 .. Len(s) /\ n \in Nat
  BY <1>1, <1>2, <1>3, PcapAssumption
<1>5. PICK a, b : a = SubSeq(s, 1, n) /\ b = SubSeq(s, n + 1, Len(s))
  BY Zenon
<1>6. /\ bufs' = [bufs EXCEPT ![w] = a] /\ cap_ring' = b
      /\ pc' = [pc EXCEPT ![w] = IF n = 0 THEN "empty" ELSE "write"]
      /\ UNCHANGED <<arrived, freed>> /\ pc[w] = "dequeue"
  BY ZenonT(60), <1>1, <1>2, <1>5 DEF Dequeue, Goto
<1>7. /\ a \in Seq(Packets) /\ Len(a) = n /\ \A i \in 1 .. n : a[i] = s[i]
      /\ b \in Seq(Packets) /\ Len(b) = Len(s) - n
      /\ \A i \in 1 .. Len(s) - n : b[i] = s[n + i]
  BY ZenonT(60), <1>3, <1>4, <1>5, SplitOf
<1>8. w \in Threads /\ bufs[w] = <<>>
  BY Zenon, <1>6, ThreadSets DEF MbufInv
<1>9. /\ bufs' \in [Writers -> Seq(Packets)] /\ bufs'[w] = a
      /\ \A v \in Writers \ {w} : bufs'[v] = bufs[v]
  BY <1>6, <1>7 DEF MbufInv
<1>10. ASSUME NEW k \in Packets
       PROVE  /\ OnRing(k) <=> \E i \in 1 .. Len(s) : s[i] = k
              /\ OnRing(k)' <=> \E i \in n + 1 .. Len(s) : s[i] = k
              /\ Contains(a, k) <=> \E i \in 1 .. n : s[i] = k
              /\ ~Contains(bufs[w], k)
  <2>1. OnRing(k) <=> \E i \in 1 .. Len(s) : s[i] = k
    BY <1>2, <1>3 DEF OnRing
  <2>2. OnRing(k)' <=> \E i \in 1 .. Len(s) - n : s[n + i] = k
    <3>1. DOMAIN b = 1 .. Len(s) - n
      BY <1>7
    <3>2. OnRing(k)' <=> \E i \in DOMAIN b : b[i] = k
      BY <1>6 DEF OnRing
    <3> QED
      BY ZenonT(60), <1>7, <3>1, <3>2
  <2>3. (\E i \in 1 .. Len(s) - n : s[n + i] = k) <=> \E i \in n + 1 .. Len(s) : s[i] = k
    <3>1. \A i \in 1 .. Len(s) - n : n + i \in n + 1 .. Len(s)
      BY <1>3, <1>4
    <3>2. \A i \in n + 1 .. Len(s) : i - n \in 1 .. Len(s) - n /\ n + (i - n) = i
      BY <1>3, <1>4
    <3> QED
      BY <3>1, <3>2
  <2>4. Contains(a, k) <=> \E i \in 1 .. n : s[i] = k
    BY Zenon, <1>7 DEF Contains
  <2> QED
    BY <1>8, <2>1, <2>2, <2>3, <2>4 DEF Contains
<1>11. ASSUME NEW k \in Packets
       PROVE  \/ OnRing(k) /\ OnRing(k)' /\ ~Contains(a, k)
              \/ OnRing(k) /\ ~OnRing(k)' /\ Contains(a, k)
              \/ ~OnRing(k) /\ ~OnRing(k)' /\ ~Contains(a, k)
  <2>1. ~(OnRing(k)' /\ Contains(a, k))
    BY <1>3, <1>4, <1>10
  <2>2. OnRing(k) => OnRing(k)' \/ Contains(a, k)
    BY <1>3, <1>4, <1>10
  <2>3. OnRing(k)' \/ Contains(a, k) => OnRing(k)
    BY <1>3, <1>4, <1>10
  <2> QED
    BY ZenonT(60), <2>1, <2>2, <2>3
<1>12. ASSUME NEW k \in Packets
       PROVE  AtOnePlace(k)'
  <2>1. AtOnePlace(k) /\ ~Contains(bufs[w], k)
    BY <1>10 DEF MbufInv
  <2>2. CASE OnRing(k) /\ ~OnRing(k)' /\ Contains(a, k)
    <3>1. k <= arrived /\ NowhereElse(k, {}) /\ freed[k] = 0
      BY <2>1, <2>2 DEF AtOnePlace
    <3>2. Contains(bufs'[w], k) /\ NowhereElse(k, {w})'
      BY ZenonT(60), <1>9, <2>2, <3>1 DEF NowhereElse
    <3> QED
      BY ZenonT(60), <1>6, <2>2, <3>1, <3>2 DEF AtOnePlace
  <2>3. CASE (OnRing(k)' <=> OnRing(k)) /\ ~Contains(a, k)
    <3>1. \A v \in Writers : Contains(bufs'[v], k) <=> Contains(bufs[v], k)
      BY ZenonT(60), <1>9, <2>1, <2>3
    <3>2. \A W : NowhereElse(k, W)' <=> NowhereElse(k, W)
      BY ZenonT(60), <3>1 DEF NowhereElse
    <3> QED
      BY ZenonT(60), <1>6, <2>1, <2>3, <3>1, <3>2 DEF AtOnePlace
  <2> QED
    BY ZenonT(60), <1>11, <2>2, <2>3
<1>13. \A i, j \in DOMAIN b : b[i] = b[j] => i = j
  <2>1. DOMAIN b = 1 .. Len(s) - n
    BY <1>7
  <2>2. \A i \in 1 .. Len(s) - n : n + i \in 1 .. Len(s) /\ i \in Nat
    BY <1>3, <1>4
  <2> QED
    BY <1>3, <1>4, <1>7, <2>1, <2>2
<1>14. \A v \in Writers : pc'[v] # "write" => bufs'[v] = <<>>
  <2>1. pc'[w] # "write" => a = <<>>
    BY <1>6, <1>7, <1>8 DEF MbufInv
  <2>2. \A v \in Writers \ {w} : pc'[v] = pc[v]
    BY ZenonT(60), <1>6, <1>8, ThreadSets DEF MbufInv
  <2> QED
    BY ZenonT(60), <1>9, <2>1, <2>2 DEF MbufInv
<1>15. pc' = [t \in Threads |-> pc'[t]]
  BY ZenonT(60), <1>6 DEF MbufInv
<1>16. Len(b) <= RingSize
  BY SMTT(30), <1>3, <1>4, <1>7, PcapAssumption
<1> QED
  BY ZenonT(60), <1>6, <1>7, <1>9, <1>12, <1>13, <1>14, <1>15, <1>16 DEF MbufInv

(* The burst of a writer is released once, whether it was written or not. *)
LEMMA FreeMbufs ==
  ASSUME MbufInv, NEW w \in Writers, FreeBurst(w), NEW to, Goto(w, to),
         UNCHANGED <<arrived, cap_ring>>
  PROVE  MbufInv'
<1>1. /\ freed' = [k \in Packets |-> freed[k] + IF Contains(bufs[w], k) THEN 1 ELSE 0]
      /\ bufs' = [bufs EXCEPT ![w] = <<>>] /\ pc' = [pc EXCEPT ![w] = to]
  BY DEF FreeBurst, Goto
<1>2. w \in Threads
  BY ThreadSets
<1>3. /\ bufs' \in [Writers -> Seq(Packets)] /\ bufs'[w] = <<>>
      /\ \A v \in Writers \ {w} : bufs'[v] = bufs[v]
  BY <1>1 DEF MbufInv
<1>4. freed' \in [Packets -> Nat]
  BY <1>1 DEF MbufInv
<1>5. ASSUME NEW k \in Packets
      PROVE  AtOnePlace(k)'
  <2>1. AtOnePlace(k) /\ freed[k] \in Nat
    BY DEF MbufInv
  <2>2. ~Contains(bufs'[w], k)
    BY <1>3 DEF Contains
  <2>3. OnRing(k)' <=> OnRing(k)
    BY DEF OnRing
  <2>4. freed'[k] = freed[k] + IF Contains(bufs[w], k) THEN 1 ELSE 0
    BY <1>1
  <2>5. CASE Contains(bufs[w], k)
    <3>1. k <= arrived /\ ~OnRing(k) /\ freed[k] = 0 /\ NowhereElse(k, {w})
      BY <2>1, <2>5 DEF AtOnePlace, NowhereElse
    <3>2. freed'[k] = 1
      BY <2>4, <2>5, <3>1
    <3>3. NowhereElse(k, {})'
      BY ZenonT(60), <1>3, <2>2, <3>1 DEF NowhereElse
    <3> QED
      BY ZenonT(60), <2>3, <3>1, <3>2, <3>3 DEF AtOnePlace
  <2>6. CASE ~Contains(bufs[w], k)
    <3>1. freed'[k] = freed[k]
      BY SMTT(30), <2>1, <2>4, <2>6
    <3>2. \A v \in Writers : Contains(bufs'[v], k) <=> Contains(bufs[v], k)
      BY ZenonT(60), <1>3, <2>2, <2>6
    <3>3. \A W : NowhereElse(k, W)' <=> NowhereElse(k, W)
      BY <3>2 DEF NowhereElse
    <3> QED
      BY ZenonT(60), <2>1, <2>3, <3>1, <3>2, <3>3 DEF AtOnePlace
  <2> QED
    BY <2>5, <2>6
<1>6. \A v \in Writers \ {w} : pc'[v] = pc[v]
  BY <1>1, <1>2, ThreadSets DEF MbufInv
<1>7. /\ pc' = [t \in Threads |-> pc'[t]]
      /\ \A v \in Writers : pc'[v] # "write" => bufs'[v] = <<>>
  BY ZenonT(60), <1>1, <1>3, <1>6 DEF MbufInv
<1> QED
  BY ZenonT(60), <1>3, <1>4, <1>5, <1>7 DEF MbufInv

LEMMA InitMbufs == Init => MbufInv
<1> SUFFICES ASSUME Init PROVE MbufInv
  OBVIOUS
<1>1. \A k \in Packets : ~OnRing(k) /\ NowhereElse(k, {}) /\ freed[k] = 0 /\ k > arrived
  BY DEF Init, OnRing, NowhereElse, Contains, Packets
<1>2. \A k \in Packets : AtOnePlace(k)
  BY <1>1 DEF AtOnePlace
<1> QED
  BY <1>2, PcapAssumption DEF Init, MbufInv

LEMMA ReceiverMbufs ==
  ASSUME MbufInv, slave_main(Receiver)
  PROVE  MbufInv'
<1> USE ThreadSets DEF ring, burst, Mbufs
<1>0. \A to : UNCHANGED Mbufs /\ Goto(Receiver, to) => MbufInv'
  <2> SUFFICES ASSUME NEW to, UNCHANGED Mbufs, Goto(Receiver, to)
               PROVE  MbufInv'
    OBVIOUS
  <2>1. pc' = [t \in Threads |-> pc'[t]] /\ \A w \in Writers : pc'[w] = pc[w]
    BY Zenon DEF Goto, MbufInv
  <2> QED
    BY <2>1, MbufsKept
<1>1. CASE Boot(Receiver) BY ZenonT(60), <1>0, <1>1 DEF Boot
<1>2. CASE Leave(Receiver) BY ZenonT(60), <1>0, <1>2 DEF Leave
<1>3. CASE Top(Receiver) BY <1>0, <1>3 DEF Top
<1>4. CASE pcap_proc_receive
  <2>1. CASE ReceiveIdle BY <1>0, <2>1 DEF ReceiveIdle
  <2>2. CASE ReceiveStop BY <1>0, <2>2 DEF ReceiveStop
  <2>3. CASE ReceiveStart BY ZenonT(60), <1>0, <2>3 DEF ReceiveStart
  <2>4. CASE ReceiveGoesOn BY <1>0, <2>4 DEF ReceiveGoesOn
  <2>5. CASE StartUpWait BY <1>0, <2>5 DEF StartUpWait
  <2>6. CASE StartUpDone BY <1>0, <2>6 DEF StartUpDone
  <2>7. CASE Receive BY ZenonT(60), <2>7, ReceiveMbufs
  <2>8. CASE IncLoad(Receiver) BY <1>0, <2>8 DEF IncLoad, Load
  <2>9. CASE IncStore(Receiver, "wait") BY <1>0, <2>9 DEF IncStore, Store
  <2>10. CASE DecLoad(Receiver, "top") BY ZenonT(60), <1>0, <2>10 DEF DecLoad, Load
  <2>11. CASE DecStore(Receiver, "top") BY <1>0, <2>11 DEF DecStore, Store
  <2> QED BY ZenonT(60), <1>4, <2>1, <2>2, <2>3, <2>4, <2>5, <2>6, <2>7, <2>8, <2>9,
             <2>10, <2>11 DEF pcap_proc_receive
<1> QED BY ZenonT(60), <1>1, <1>2, <1>3, <1>4 DEF slave_main

LEMMA WriterMbufs ==
  ASSUME MbufInv, NEW w \in Writers, slave_main(w)
  PROVE  MbufInv'
<1> USE ThreadSets DEF ring, burst, Mbufs
<1>0. w # Receiver /\ \A to : UNCHANGED Mbufs /\ Goto(w, to) /\ pc[w] # "write" => MbufInv'
  BY GotoKeeps
<1>1. CASE Boot(w) BY ZenonT(60), <1>0, <1>1 DEF Boot
<1>2. CASE Leave(w) BY ZenonT(60), <1>0, <1>2 DEF Leave
<1>3. CASE Top(w) BY ZenonT(60), <1>0, <1>3 DEF Top
<1>4. CASE pcap_proc_write(w)
  <2>1. CASE WriteIdle(w) BY <1>0, <2>1 DEF WriteIdle
  <2>2. CASE WriteStart(w) BY ZenonT(60), <1>0, <2>2 DEF WriteStart
  <2>3. CASE WriteStartFails(w) BY ZenonT(60), <1>0, <2>3 DEF WriteStartFails, EndsThread
  <2>4. CASE WriteGoesOn(w) BY <1>0, <2>4 DEF WriteGoesOn
  <2>5. CASE Dequeue(w) BY <2>5, DequeueMbufs
  <2>6. CASE WriteStop(w)
    <3>1. UNCHANGED Mbufs /\ pc[w] = "empty" /\ (Goto(w, "dec") \/ Goto(w, "top"))
      BY <2>6 DEF WriteStop
    <3> QED BY <1>0, <3>1
  <2>7. CASE WriteClose(w) BY <1>0, <2>7 DEF WriteClose
  <2>8. CASE WritePacket(w)
    <3>1. UNCHANGED <<Mbufs, pc>> BY ZenonT(60), <2>8 DEF WritePacket
    <3> QED BY ZenonT(60), <3>1, MbufsKept DEF MbufInv
  <2>9. CASE WriteDone(w) BY ZenonT(60), <2>9, FreeMbufs DEF WriteDone
  <2>10. CASE WritePacketFails(w)
    BY <2>10, FreeMbufs DEF WritePacketFails, EndsThread
  <2>11. CASE IncLoad(w) BY ZenonT(60), <1>0, <2>11 DEF IncLoad, Load
  <2>12. CASE IncStore(w, "dequeue") BY ZenonT(60), <1>0, <2>12 DEF IncStore, Store
  <2>13. CASE DecLoad(w, "close") BY ZenonT(60), <1>0, <2>13 DEF DecLoad, Load
  <2>14. CASE DecStore(w, "close") BY <1>0, <2>14 DEF DecStore, Store
  <2> QED BY ZenonT(60), <1>4, <2>1, <2>2, <2>3, <2>4, <2>5, <2>6, <2>7, <2>8, <2>9,
             <2>10, <2>11, <2>12, <2>13, <2>14 DEF pcap_proc_write
<1> QED BY ZenonT(60), <1>0, <1>1, <1>2, <1>3, <1>4 DEF slave_main

LEMMA StepMbufs == MbufInv /\ [Next]_vars => MbufInv'
<1> SUFFICES ASSUME MbufInv, [Next]_vars PROVE MbufInv'
  OBVIOUS
<1>1. CASE Master \/ UNCHANGED vars
  <2>1. UNCHANGED <<Mbufs, pc>>
    BY ZenonT(60), <1>1 DEF Master, Started, StartTimeout, TakeCommand, StartStop, Exit,
         stop_process, LeaveLoop, Finish, FinishTimeout, vars, ring, burst, Mbufs
  <2> QED BY ZenonT(60), <2>1, MbufsKept DEF MbufInv
<1>2. ASSUME NEW t \in Threads, slave_main(t) PROVE MbufInv'
  <2>1. t = Receiver \/ t \in Writers
    BY PcapAssumption DEF Threads, Writers, Receiver
  <2> QED BY <1>2, <2>1, ReceiverMbufs, WriterMbufs
<1> QED BY ZenonT(60), <1>1, <1>2 DEF Next

LEMMA PlacesCounted == MbufInv => MbufsConserved
<1> SUFFICES ASSUME MbufInv, NEW k \in Packets
             PROVE  Places(k) + freed[k] = IF k <= arrived THEN 1 ELSE 0
  BY DEF MbufsConserved
<1> DEFINE R == {i \in DOMAIN cap_ring : cap_ring[i] = k}
           W == {w \in Writers : Contains(bufs[w], k)}
<1>1. ~OnRing(k) => R = {}
  BY DEF OnRing
<1>2. OnRing(k) => \E i : R = {i}
  <2> SUFFICES ASSUME NEW i \in DOMAIN cap_ring, cap_ring[i] = k
               PROVE  R = {i}
    BY Zenon DEF OnRing
  <2> QED
    BY DEF MbufInv
<1>3. NowhereElse(k, {}) => W = {}
  BY DEF NowhereElse
<1>4. \A w \in Writers : Contains(bufs[w], k) /\ NowhereElse(k, {w}) => W = {w}
  BY DEF NowhereElse
<1>5. Places(k) = Cardinality(R) + Cardinality(W)
  BY DEF Places
<1>6. AtOnePlace(k) /\ k \in Nat /\ arrived \in Nat
  BY DEF MbufInv, Packets
<1> HIDE DEF R, W
<1>7. Cardinality({}) = 0 /\ \A x : Cardinality({x}) = 1
  BY Zenon, FS_EmptySet, FS_Singleton
<1>8. /\ OnRing(k) => Cardinality(R) = 1
      /\ ~OnRing(k) => Cardinality(R) = 0
      /\ NowhereElse(k, {}) => Cardinality(W) = 0
      /\ \A w \in Writers : Contains(bufs[w], k) /\ NowhereElse(k, {w})
                            => Cardinality(W) = 1
  BY ZenonT(60), <1>1, <1>2, <1>3, <1>4, <1>7
<1>9. \/ k <= arrived /\ Cardinality(R) + Cardinality(W) + freed[k] = 1
      \/ k > arrived /\ Cardinality(R) + Cardinality(W) + freed[k] = 0
  <2>1. CASE k > arrived /\ ~OnRing(k) /\ NowhereElse(k, {}) /\ freed[k] = 0
    BY <1>8, <2>1
  <2>2. CASE k <= arrived /\ OnRing(k) /\ NowhereElse(k, {}) /\ freed[k] = 0
    BY <1>8, <2>2
  <2>3. CASE /\ k <= arrived /\ ~OnRing(k) /\ freed[k] = 0
             /\ \E w \in Writers : Contains(bufs[w], k) /\ NowhereElse(k, {w})
    BY <1>8, <2>3
  <2>4. CASE k <= arrived /\ ~OnRing(k) /\ NowhereElse(k, {}) /\ freed[k] = 1
    BY <1>8, <2>4
  <2> QED
    BY ZenonT(60), <1>6, <2>1, <2>2, <2>3, <2>4 DEF AtOnePlace
<1> QED
  BY <1>5, <1>6, <1>9

(* Every mbuf that was received is on the ring, in the burst of one writer, *)
(* or was released exactly once: however the receiver and the writers       *)
(* interleave, when the ring is full, and when a writer gives up.           *)
THEOREM PcapMbufsConserved == Spec => []MbufsConserved
BY InitMbufs, StepMbufs, PlacesCounted, PTL DEF Spec

-----------------------------------------------------------------------------
(* What is in the files.                                                   *)

Ordered(s) == \A i, j \in DOMAIN s : i < j => s[i] < s[j]

(* Packet k is one of the burst that w has written already. *)
Passed(w, k) == \E i \in 1 .. pos[w] : bufs[w][i] = k

(* What a writer has written comes before what is left of its burst, and    *)
(* this and the burst come before what is on the ring.  A file that is not  *)
(* open holds nothing.                                                      *)
WriterOrder(w) ==
  /\ FlattenSeq(saved[w]) \in Seq(Packets) /\ file[w] \in Seq(Packets)
  /\ pos[w] \in 0 .. Len(bufs[w])
  /\ compress_fp[w] = "NULL" => file[w] = <<>>
  /\ Ordered(Written(w)) /\ Ordered(bufs[w])
  /\ \A k \in Packets : Contains(Written(w), k) =>
       /\ \A j \in pos[w] + 1 .. Len(bufs[w]) : k < bufs[w][j]
       /\ \A j \in DOMAIN cap_ring : k < cap_ring[j]
       /\ freed[k] = 1 \/ Passed(w, k)
  /\ \A i \in DOMAIN bufs[w] : \A j \in DOMAIN cap_ring : bufs[w][i] < cap_ring[j]

(* No packet is in the files of two writers; while nothing has failed, what *)
(* a writer has passed and what was released is in a file.                  *)
FileInv ==
  /\ saved \in [Writers -> Seq(Seq(Packets))]
  /\ file = [w \in Writers |-> file[w]] /\ pos = [w \in Writers |-> pos[w]]
  /\ compress_fp = [w \in Writers |-> compress_fp[w]]
  /\ Ordered(cap_ring)
  /\ \A w \in Writers : WriterOrder(w)
  /\ \A k \in Packets : \A v, w \in Writers :
       Contains(Written(v), k) /\ Contains(Written(w), k) => v = w
  /\ ~failed => \A k \in Packets :
       /\ \A w \in Writers : Passed(w, k) => Contains(Written(w), k)
       /\ freed[k] = 1 /\ k \notin dropped => \E w \in Writers : Contains(Written(w), k)

LEMMA LeastNat ==
  ASSUME NEW S, S \subseteq Nat, S # {}
  PROVE  \E m \in S : \A k \in S : m <= k
<1>1. PICK m \in S : \A k \in S : ~(<<k, m>> \in OpToRel(<, Nat))
  BY Zenon, NatLessThanWellFounded, WFMin
<1>2. \A k \in S : ~(k < m)
  BY Zenon, <1>1 DEF OpToRel
<1> QED
  BY <1>2

(* FlattenSeq as it is computed: f[i] is what the first i sequences make.   *)
Flattens(f, ss, n) == f = [i \in 1 .. n |-> IF i = 1 THEN ss[i] ELSE f[i - 1] \o ss[i]]

LEMMA FlattensExist ==
  ASSUME NEW ss, NEW n \in Nat
  PROVE  \E f : Flattens(f, ss, n)
<1> DEFINE S == {m \in Nat : ~\E f : Flattens(f, ss, m)}
<1> SUFFICES ASSUME S # {} PROVE FALSE
  OBVIOUS
<1>1. PICK m \in S : \A k \in S : m <= k
  BY Zenon, LeastNat
<1>2. m # 0
  <2>1. Flattens([i \in 1 .. 0 |-> i], ss, 0)
    BY DEF Flattens
  <2> QED
    BY <2>1
<1>3. m - 1 \in Nat /\ m - 1 \notin S
  BY <1>1, <1>2
<1>4. PICK f : Flattens(f, ss, m - 1)
  BY <1>3
<1>5. PICK g : g = [i \in 1 .. m |-> IF i = m THEN IF m = 1 THEN ss[m] ELSE f[m - 1] \o ss[m]
                                              ELSE f[i]]
  BY Zenon
<1>6. \A i \in 1 .. m - 1 : f[i] = IF i = 1 THEN ss[i] ELSE f[i - 1] \o ss[i]
  BY ZenonT(60), <1>4 DEF Flattens
<1>7. ASSUME NEW i \in 1 .. m
      PROVE  g[i] = IF i = 1 THEN ss[i] ELSE g[i - 1] \o ss[i]
  <2>1. CASE i = m
    <3>1. m # 1 => m - 1 \in 1 .. m /\ m - 1 # m
      BY <1>2
    <3>2. m # 1 => g[m - 1] = f[m - 1]
      BY ZenonT(60), <1>5, <3>1
    <3> QED
      BY ZenonT(60), <1>2, <1>5, <2>1, <3>2
  <2>2. CASE i # m
    <3>1. i \in 1 .. m - 1
      BY <2>2
    <3>2. g[i] = f[i]
      BY <1>5, <2>2
    <3>3. i # 1 => i - 1 \in 1 .. m /\ i - 1 # m
      BY <3>1
    <3>4. i # 1 => g[i - 1] = f[i - 1]
      BY <1>5, <3>3
    <3> QED
      BY ZenonT(60), <1>6, <3>1, <3>2, <3>4
  <2> QED
    BY ZenonT(60), <2>1, <2>2
<1>8. g = [i \in 1 .. m |-> g[i]]
  BY Zenon, <1>5
<1>9. Flattens(g, ss, m)
  BY Zenon, <1>7, <1>8 DEF Flattens
<1> QED
  BY <1>9

LEMMA FlattenIs ==
  ASSUME NEW ss, Len(ss) \in Nat \ {0}
  PROVE  \E f : Flattens(f, ss, Len(ss)) /\ FlattenSeq(ss) = f[Len(ss)]
<1> DEFINE f == CHOOSE g : Flattens(g, ss, Len(ss))
<1>1. Flattens(f, ss, Len(ss))
  BY Zenon, FlattensExist
<1>2. ss # <<>>
  BY Len(<<>>) = 0
<1>3. FlattenSeq(ss) = f[Len(ss)]
  BY <1>2 DEF FlattenSeq, Flattens
<1> QED
  BY Zenon, <1>1, <1>3

LEMMA LenZero ==
  ASSUME NEW T, NEW s \in Seq(T), Len(s) = 0
  PROVE  s = <<>>
OBVIOUS

LEMMA FlattenNone == FlattenSeq(<<>>) = <<>>
BY DEF FlattenSeq

(* One file more. *)
LEMMA FlattenAppend ==
  ASSUME NEW T, NEW ss \in Seq(Seq(T)), NEW s \in Seq(T)
  PROVE  FlattenSeq(Append(ss, s)) = FlattenSeq(ss) \o s
<1>1. PICK n, t : n = Len(ss) /\ t = Append(ss, s)
  BY Zenon
<1>2. /\ n \in Nat /\ t \in Seq(Seq(T)) /\ Len(t) = n + 1 /\ t[n + 1] = s
      /\ \A i \in 1 .. n : t[i] = ss[i]
  BY <1>1
<1>3. PICK g : Flattens(g, t, n + 1) /\ FlattenSeq(t) = g[n + 1]
  BY <1>2, FlattenIs
<1>4. \A i \in 1 .. n + 1 : g[i] = IF i = 1 THEN t[i] ELSE g[i - 1] \o t[i]
  BY Zenon, <1>3 DEF Flattens
<1>5. n + 1 \in 1 .. n + 1 /\ (n + 1) - 1 = n
  BY <1>2
<1>6. CASE n = 0
  <2>1. ss = <<>>
    BY ZenonT(60), <1>1, <1>6, LenZero
  <2>2. FlattenSeq(ss) \o s = s
    BY <2>1, FlattenNone
  <2>3. g[n + 1] = t[n + 1]
    BY <1>4, <1>5, <1>6
  <2> QED
    BY ZenonT(60), <1>1, <1>2, <1>3, <2>2, <2>3
<1>7. CASE n # 0
  <2>1. PICK f : Flattens(f, ss, n) /\ FlattenSeq(ss) = f[n]
    BY ZenonT(60), <1>1, <1>2, <1>7, FlattenIs
  <2>2. \A i \in 1 .. n : f[i] = IF i = 1 THEN ss[i] ELSE f[i - 1] \o ss[i]
    BY ZenonT(60), <2>1 DEF Flattens
  <2> DEFINE S == {i \in 1 .. n : f[i] # g[i]}
  <2>3. S = {}
    <3> SUFFICES ASSUME S # {} PROVE FALSE
      OBVIOUS
    <3>1. S \subseteq Nat
      BY <1>2
    <3>2. PICK m \in S : \A k \in S : m <= k
      BY ZenonT(60), <3>1, LeastNat
    <3>3. m \in 1 .. n /\ m \in 1 .. n + 1 /\ f[m] # g[m]
      BY <1>2, <3>2
    <3>4. m # 1 => m - 1 \in 1 .. n /\ m - 1 \notin S
      BY <1>2, <3>2, <3>3
    <3>5. m # 1 => f[m - 1] = g[m - 1]
      BY ZenonT(60), <3>4
    <3>6. f[m] = IF m = 1 THEN ss[m] ELSE f[m - 1] \o ss[m]
      BY ZenonT(60), <2>2, <3>3
    <3>7. g[m] = IF m = 1 THEN ss[m] ELSE g[m - 1] \o ss[m]
      BY ZenonT(60), <1>2, <1>4, <3>3
    <3> QED
      BY ZenonT(60), <3>3, <3>5, <3>6, <3>7
  <2>4. n \in 1 .. n /\ n + 1 # 1 /\ ss # <<>>
    BY <1>1, <1>2, <1>7
  <2>5. f[n] = g[n]
    BY <2>3, <2>4
  <2>6. g[n + 1] = g[n] \o t[n + 1]
    BY ZenonT(60), <1>4, <1>5, <2>4
  <2> QED
    BY ZenonT(60), <1>1, <1>2, <1>3, <2>1, <2>4, <2>5, <2>6
<1> QED
  BY <1>6, <1>7

LEMMA WrittenTyped ==
  ASSUME NEW w, WriterOrder(w)
  PROVE  /\ Written(w) \in Seq(Packets)
         /\ \A k : Contains(Written(w), k) => k \in Packets
<1>1. FlattenSeq(saved[w]) \in Seq(Packets) /\ file[w] \in Seq(Packets)
  BY DEF WriterOrder
<1>2. Written(w) \in Seq(Packets)
  BY Zenon, <1>1, ConcatProperties DEF Written
<1> QED
  BY <1>2 DEF Contains

(* A file that ends, and is saved, has its packets where they were. *)
LEMMA SavedConcat ==
  ASSUME NEW ss \in Seq(Seq(Packets)), NEW f \in Seq(Packets),
         FlattenSeq(ss) \in Seq(Packets)
  PROVE  /\ Append(ss, f) \in Seq(Seq(Packets))
         /\ FlattenSeq(Append(ss, f)) = FlattenSeq(ss) \o f
         /\ FlattenSeq(Append(ss, f)) \in Seq(Packets)
         /\ FlattenSeq(Append(ss, f)) \o <<>> = FlattenSeq(ss) \o f
         /\ FlattenSeq(ss) \o <<>> = FlattenSeq(ss)
<1>1. FlattenSeq(Append(ss, f)) = FlattenSeq(ss) \o f
  BY Zenon, FlattenAppend
<1>2. FlattenSeq(ss) \o f \in Seq(Packets)
  BY Zenon, ConcatProperties
<1>3. Append(ss, f) \in Seq(Seq(Packets))
  BY Zenon, AppendProperties
<1> QED
  BY ZenonT(60), <1>1, <1>2, <1>3, ConcatEmptySeq

(* Then a packet is added, to the same file or to the next. *)
LEMMA OnePacketMore ==
  ASSUME NEW g \in Seq(Packets), NEW f \in Seq(Packets), NEW k \in Packets
  PROVE  /\ g \o Append(f, k) = Append(g \o f, k)
         /\ (g \o f) \o <<k>> = Append(g \o f, k)
         /\ Append(f, k) \in Seq(Packets) /\ <<k>> \in Seq(Packets)
<1>1. <<k>> \in Seq(Packets) /\ Append(f, k) \in Seq(Packets)
  OBVIOUS
<1>2. g \o f \in Seq(Packets)
  BY Zenon, ConcatProperties
<1>3. Append(f, k) = f \o <<k>> /\ Append(g \o f, k) = (g \o f) \o <<k>>
  BY ZenonT(60), <1>2, AppendIsConcat
<1>4. (g \o f) \o <<k>> = g \o (f \o <<k>>)
  <2>1. PICK u : u = <<k>>
    BY Zenon
  <2>2. u \in Seq(Packets)
    BY <1>1, <2>1
  <2>3. (g \o f) \o u = g \o (f \o u)
    BY SMTT(30), <2>2, ConcatAssociative
  <2> QED
    BY <2>1, <2>3
<1> QED
  BY Zenon, <1>1, <1>3, <1>4

LEMMA AppendOrdered ==
  ASSUME NEW s \in Seq(Packets), NEW k \in Packets, Ordered(s),
         \A x \in Packets : Contains(s, x) => x < k
  PROVE  /\ Ordered(Append(s, k))
         /\ \A x : Contains(Append(s, k), x) <=> Contains(s, x) \/ x = k
<1>1. PICK t : t = Append(s, k)
  BY Zenon
<1>2. /\ t \in Seq(Packets) /\ Len(t) = Len(s) + 1 /\ t[Len(s) + 1] = k
      /\ \A i \in 1 .. Len(s) : t[i] = s[i]
      /\ Len(s) \in Nat /\ DOMAIN s = 1 .. Len(s) /\ DOMAIN t = 1 .. Len(s) + 1
  BY <1>1
<1>3. \A i \in 1 .. Len(s) : s[i] < k
  BY <1>2 DEF Contains
<1>4. Ordered(t)
  <2> SUFFICES ASSUME NEW i \in 1 .. Len(s) + 1, NEW j \in 1 .. Len(s) + 1, i < j
               PROVE  t[i] < t[j]
    BY <1>2 DEF Ordered
  <2>1. i \in 1 .. Len(s)
    BY <1>2
  <2>2. CASE j = Len(s) + 1
    BY ZenonT(60), <1>2, <1>3, <2>1, <2>2
  <2>3. CASE j # Len(s) + 1
    <3>1. j \in 1 .. Len(s)
      BY <1>2, <2>3
    <3> QED
      BY ZenonT(60), <1>2, <2>1, <3>1 DEF Ordered
  <2> QED
    BY ZenonT(60), <2>2, <2>3
<1>5. \A x : Contains(t, x) <=> Contains(s, x) \/ x = k
  <2>1. \A i \in 1 .. Len(s) + 1 : i \in 1 .. Len(s) \/ i = Len(s) + 1
    BY <1>2
  <2>2. \A i \in 1 .. Len(s) : i \in 1 .. Len(s) + 1
    BY <1>2
  <2>3. Len(s) + 1 \in 1 .. Len(s) + 1
    BY <1>2
  <2> QED
    BY ZenonT(60), <1>2, <2>1, <2>2, <2>3 DEF Contains
<1> QED
  BY Zenon, <1>1, <1>4, <1>5

LEMMA PrefixOrdered ==
  ASSUME NEW g \in Seq(Packets), NEW f \in Seq(Packets), Ordered(g \o f)
  PROVE  Ordered(g) /\ \A x : Contains(g, x) => Contains(g \o f, x)
<1>1. PICK t : t = g \o f
  BY Zenon
<1>2. /\ Len(t) = Len(g) + Len(f) /\ Len(g) \in Nat /\ Len(f) \in Nat
      /\ DOMAIN g = 1 .. Len(g) /\ DOMAIN t = 1 .. Len(t)
      /\ \A i \in 1 .. Len(g) : i \in 1 .. Len(t) /\ t[i] = g[i]
  BY <1>1
<1>3. Ordered(g)
  BY <1>1, <1>2 DEF Ordered
<1> QED
  BY ZenonT(60), <1>1, <1>2, <1>3 DEF Contains

Bursts == <<cap_ring, bufs, pos, freed, dropped>>

(* The files change, but not what is in them. *)
LEMMA FilesMoved ==
  ASSUME FileInv, UNCHANGED Bursts, failed => failed',
         saved' \in [Writers -> Seq(Seq(Packets))],
         file' = [w \in Writers |-> file'[w]],
         compress_fp' = [w \in Writers |-> compress_fp'[w]],
         \A w \in Writers :
           /\ FlattenSeq(saved'[w]) \in Seq(Packets) /\ file'[w] \in Seq(Packets)
           /\ compress_fp'[w] = "NULL" => file'[w] = <<>>
           /\ Written(w)' = Written(w)
  PROVE  FileInv'
<1> USE DEF Bursts
<1>0. \A w \in Writers : \A k : Contains(Written(w)', k) <=> Contains(Written(w), k)
  BY Zenon
<1>1. \A w \in Writers : \A k : Passed(w, k)' <=> Passed(w, k)
  BY DEF Passed
<1>2. ASSUME NEW w \in Writers
      PROVE  WriterOrder(w)'
  <2>1. WriterOrder(w) /\ Written(w)' = Written(w)
    BY DEF FileInv
  <2>2. \A k \in Packets : Contains(Written(w)', k) =>
          /\ \A j \in pos'[w] + 1 .. Len(bufs'[w]) : k < bufs'[w][j]
          /\ \A j \in DOMAIN cap_ring' : k < cap_ring'[j]
          /\ freed'[k] = 1 \/ Passed(w, k)'
    BY ZenonT(60), <1>1, <2>1 DEF WriterOrder
  <2> QED
    BY ZenonT(60), <2>1, <2>2 DEF WriterOrder
<1>3. \A k \in Packets : \A v, w \in Writers :
        Contains(Written(v)', k) /\ Contains(Written(w)', k) => v = w
  BY ZenonT(60), <1>0 DEF FileInv
<1>4. ~failed' => \A k \in Packets :
        /\ \A w \in Writers : Passed(w, k)' => Contains(Written(w)', k)
        /\ freed'[k] = 1 /\ k \notin dropped' => \E w \in Writers : Contains(Written(w)', k)
  BY <1>0, <1>1 DEF FileInv
<1> QED
  BY ZenonT(60), <1>2, <1>3, <1>4 DEF FileInv

LEMMA FilesSame ==
  ASSUME FileInv, UNCHANGED <<Bursts, compress_fp, file, saved>>, failed => failed'
  PROVE  FileInv'
<1>1. \A w \in Writers : /\ WriterOrder(w) /\ Written(w)' = Written(w)
                         /\ file'[w] = file[w] /\ saved'[w] = saved[w]
                         /\ compress_fp'[w] = compress_fp[w]
  BY DEF FileInv, Written
<1>2. \A w \in Writers :
        /\ FlattenSeq(saved'[w]) \in Seq(Packets) /\ file'[w] \in Seq(Packets)
        /\ compress_fp'[w] = "NULL" => file'[w] = <<>>
  BY Zenon, <1>1 DEF WriterOrder
<1> QED
  BY ZenonT(60), <1>1, <1>2, FilesMoved DEF FileInv

(* INIT_MODE: the file was not open, and held nothing. *)
LEMMA InitFiles ==
  ASSUME FileInv, UNCHANGED Bursts, NEW w \in Writers, compress_fp[w] = "NULL", FileInit(w)
  PROVE  FileInv'
<1>1. file[w] = <<>>
  BY ZenonT(60) DEF FileInv, WriterOrder
<1>2. file' = file /\ saved' = saved /\ failed' = failed
  BY <1>1 DEF FileInit, FileInv
<1>3. /\ compress_fp' = [v \in Writers |-> compress_fp'[v]]
      /\ compress_fp'[w] = "open" /\ \A v \in Writers \ {w} : compress_fp'[v] = compress_fp[v]
  BY ZenonT(60) DEF FileInit, FileInv
<1>4. \A v \in Writers : WriterOrder(v) /\ Written(v)' = Written(v)
  BY ZenonT(60), <1>2 DEF FileInv, Written
<1>5. \A v \in Writers :
        /\ FlattenSeq(saved'[v]) \in Seq(Packets) /\ file'[v] \in Seq(Packets)
        /\ compress_fp'[v] = "NULL" => file'[v] = <<>>
  BY ZenonT(60), <1>2, <1>3, <1>4 DEF WriterOrder
<1> QED
  BY ZenonT(60), <1>2, <1>3, <1>4, <1>5, FilesMoved DEF FileInv

(* CLOSE_MODE: the file is saved. *)
LEMMA CloseFiles ==
  ASSUME FileInv, UNCHANGED Bursts, NEW w \in Writers, FileClose(w)
  PROVE  FileInv'
<1>1. CASE compress_fp[w] # "open"
  <2>1. UNCHANGED files
    BY <1>1 DEF FileClose
  <2> QED
    BY <2>1, FilesSame DEF files
<1>2. CASE compress_fp[w] = "open"
  <2>1. /\ compress_fp' = [compress_fp EXCEPT ![w] = "NULL"]
        /\ file' = [file EXCEPT ![w] = <<>>]
        /\ saved' = [saved EXCEPT ![w] = Append(saved[w], file[w])]
        /\ failed' = failed
    BY ZenonT(60), <1>2 DEF FileClose, Closed
  <2>2. PICK ss, f : ss = saved[w] /\ f = file[w]
    BY ZenonT(60)
  <2>3. ss \in Seq(Seq(Packets)) /\ f \in Seq(Packets) /\ FlattenSeq(ss) \in Seq(Packets)
    BY <2>2 DEF FileInv, WriterOrder
  <2>4. /\ compress_fp' = [v \in Writers |-> compress_fp'[v]]
        /\ file' = [v \in Writers |-> file'[v]]
        /\ saved'[w] = Append(ss, f) /\ file'[w] = <<>>
        /\ \A v \in Writers \ {w} : /\ saved'[v] = saved[v] /\ file'[v] = file[v]
                                    /\ compress_fp'[v] = compress_fp[v]
    BY Zenon, <2>1, <2>2 DEF FileInv
  <2>5. /\ Append(ss, f) \in Seq(Seq(Packets))
        /\ FlattenSeq(Append(ss, f)) \in Seq(Packets)
        /\ FlattenSeq(Append(ss, f)) \o <<>> = FlattenSeq(ss) \o f
    BY ZenonT(60), <2>3, SavedConcat
  <2>6. saved' \in [Writers -> Seq(Seq(Packets))]
    BY ZenonT(60), <2>1, <2>2, <2>5 DEF FileInv
  <2>7. ASSUME NEW v \in Writers
        PROVE  /\ FlattenSeq(saved'[v]) \in Seq(Packets) /\ file'[v] \in Seq(Packets)
               /\ compress_fp'[v] = "NULL" => file'[v] = <<>>
               /\ Written(v)' = Written(v)
    <3>1. CASE v = w
      <4>1. <<>> \in Seq(Packets)
        OBVIOUS
      <4>2. Written(v)' = Written(v)
        BY ZenonT(60), <2>2, <2>4, <2>5, <3>1 DEF Written
      <4> QED
        BY ZenonT(60), <2>4, <2>5, <3>1, <4>1, <4>2
    <3>2. CASE v # w
      BY Zenon, <2>4, <3>2 DEF FileInv, WriterOrder, Written
    <3> QED
      BY <3>1, <3>2
  <2> QED
    BY ZenonT(60), <2>1, <2>4, <2>6, <2>7, FilesMoved
<1> QED
  BY <1>1, <1>2

(* What is in a burst or in a file has arrived. *)
LEMMA OnlyArrived ==
  ASSUME MbufInv, FileInv, NEW w \in Writers, NEW k \in Packets
  PROVE  /\ Contains(bufs[w], k) => k <= arrived
         /\ Passed(w, k) => Contains(bufs[w], k)
         /\ Contains(Written(w), k) => k <= arrived
<1>1. AtOnePlace(k) /\ WriterOrder(w)
  BY ZenonT(60) DEF MbufInv, FileInv
<1>2. Contains(bufs[w], k) => k <= arrived
  BY <1>1 DEF AtOnePlace, NowhereElse
<1>3. Passed(w, k) => Contains(bufs[w], k)
  <2>1. pos[w] \in 0 .. Len(bufs[w]) /\ Len(bufs[w]) \in Nat
    BY <1>1 DEF WriterOrder, MbufInv
  <2>2. \A i \in 1 .. pos[w] : i \in 1 .. Len(bufs[w])
    BY <2>1
  <2> QED
    BY ZenonT(60), <2>2 DEF Passed, Contains
<1>4. freed[k] = 1 => k <= arrived
  BY <1>1 DEF AtOnePlace
<1> QED
  BY ZenonT(60), <1>1, <1>2, <1>3, <1>4 DEF WriterOrder

LEMMA ReceiveFiles ==
  ASSUME MbufInv, FileInv, Receive
  PROVE  FileInv'
<1>1. PICK a, n, m : Grows(a, n, m)
  BY ZenonT(60), RingGrows
<1>2. UNCHANGED <<bufs, pos, compress_fp, file, saved, failed>>
  BY ZenonT(60) DEF Receive, files
<1>3. /\ a = arrived /\ a \in Nat /\ n \in Nat /\ m \in Nat /\ m <= n
      /\ Len(cap_ring) \in Nat /\ DOMAIN cap_ring = 1 .. Len(cap_ring)
      /\ DOMAIN cap_ring' = 1 .. Len(cap_ring) + m
      /\ freed' = [k \in Packets |-> freed[k] + IF k \in a + m + 1 .. a + n THEN 1 ELSE 0]
      /\ dropped' = dropped \cup (a + m + 1 .. a + n)
      /\ \A i \in DOMAIN cap_ring : cap_ring[i] <= a /\ cap_ring[i] \in Nat
  BY <1>1 DEF Grows
<1>4. ASSUME NEW j \in DOMAIN cap_ring'
      PROVE  \/ j \in DOMAIN cap_ring /\ cap_ring'[j] = cap_ring[j]
             \/ /\ j \notin DOMAIN cap_ring /\ j > Len(cap_ring) /\ j \in Nat
                /\ cap_ring'[j] = a + (j - Len(cap_ring)) /\ cap_ring'[j] > a
  <2>1. \/ j \in DOMAIN cap_ring /\ cap_ring'[j] = cap_ring[j]
        \/ /\ j \notin DOMAIN cap_ring /\ j - Len(cap_ring) \in 1 .. m
           /\ cap_ring'[j] = a + (j - Len(cap_ring))
    BY ZenonT(60), <1>1 DEF Grows
  <2>2. j \in Nat
    BY <1>3
  <2> QED
    BY <1>3, <2>1, <2>2
<1>5. \A w \in Writers : /\ WriterOrder(w) /\ Written(w)' = Written(w)
                         /\ \A k : Passed(w, k)' <=> Passed(w, k)
  BY <1>2 DEF FileInv, Written, Passed
<1>6. \A k \in Packets : k \in Nat /\ freed[k] \in Nat
  BY DEF Packets, MbufInv
<1>7. \A k \in Packets : k <= a => freed'[k] = freed[k]
  BY <1>3, <1>6
<1>8. Ordered(cap_ring')
  <2> SUFFICES ASSUME NEW i \in DOMAIN cap_ring', NEW j \in DOMAIN cap_ring', i < j
               PROVE  cap_ring'[i] < cap_ring'[j]
    BY DEF Ordered
  <2>1. i \in Nat /\ j \in Nat
    BY <1>3
  <2>2. CASE i \in DOMAIN cap_ring /\ j \in DOMAIN cap_ring
    BY ZenonT(60), <1>4, <2>2 DEF FileInv, Ordered
  <2>3. CASE i \in DOMAIN cap_ring /\ j \notin DOMAIN cap_ring
    <3>1. cap_ring'[i] <= a /\ cap_ring'[i] \in Nat
      BY ZenonT(60), <1>3, <1>4, <2>3
    <3>2. cap_ring'[j] = a + (j - Len(cap_ring)) /\ j > Len(cap_ring)
      BY ZenonT(60), <1>4, <2>3
    <3> QED
      BY <1>3, <2>1, <3>1, <3>2
  <2>4. CASE i \notin DOMAIN cap_ring
    <3>1. cap_ring'[i] = a + (i - Len(cap_ring)) /\ i > Len(cap_ring)
      BY ZenonT(60), <1>4, <2>4
    <3>2. j \notin DOMAIN cap_ring
      BY <1>3, <2>1, <3>1
    <3>3. cap_ring'[j] = a + (j - Len(cap_ring))
      BY ZenonT(60), <1>4, <3>2
    <3> QED
      BY <1>3, <2>1, <3>1, <3>3
  <2> QED
    BY ZenonT(60), <2>2, <2>3, <2>4
<1>9. ASSUME NEW x \in Packets, x <= a, \A j \in DOMAIN cap_ring : x < cap_ring[j]
      PROVE  \A j \in DOMAIN cap_ring' : x < cap_ring'[j]
  <2> TAKE j \in DOMAIN cap_ring'
  <2>1. CASE j \in DOMAIN cap_ring
    BY ZenonT(60), <1>4, <1>9, <2>1
  <2>2. CASE j \notin DOMAIN cap_ring
    <3>1. cap_ring'[j] = a + (j - Len(cap_ring)) /\ j > Len(cap_ring) /\ j \in Nat
      BY <1>4, <2>2
    <3> QED
      BY <1>3, <1>6, <1>9, <3>1
  <2> QED
    BY <2>1, <2>2
<1>10. ASSUME NEW w \in Writers
       PROVE  WriterOrder(w)'
  <2>1. WriterOrder(w) /\ Written(w)' = Written(w) /\ \A k : Passed(w, k)' <=> Passed(w, k)
    BY <1>5
  <2>2. ASSUME NEW k \in Packets, Contains(Written(w), k)
        PROVE  /\ \A j \in pos[w] + 1 .. Len(bufs[w]) : k < bufs[w][j]
               /\ \A j \in DOMAIN cap_ring' : k < cap_ring'[j]
               /\ freed'[k] = 1 \/ Passed(w, k)
    <3>1. k <= a
      BY ZenonT(60), <1>3, <2>2, OnlyArrived
    <3>2. /\ \A j \in pos[w] + 1 .. Len(bufs[w]) : k < bufs[w][j]
          /\ \A j \in DOMAIN cap_ring : k < cap_ring[j]
          /\ freed[k] = 1 \/ Passed(w, k)
      BY Zenon, <2>1, <2>2 DEF WriterOrder
    <3> QED
      BY ZenonT(60), <1>7, <1>9, <3>1, <3>2
  <2>3. ASSUME NEW i \in DOMAIN bufs[w]
        PROVE  \A j \in DOMAIN cap_ring' : bufs[w][i] < cap_ring'[j]
    <3>1. bufs[w][i] \in Packets /\ Contains(bufs[w], bufs[w][i])
      <4>1. bufs[w] \in Seq(Packets)
        BY DEF MbufInv
      <4>2. DOMAIN bufs[w] = 1 .. Len(bufs[w]) /\ bufs[w][i] \in Packets
        BY <4>1
      <4> QED
        BY ZenonT(60), <4>2 DEF Contains
    <3>2. bufs[w][i] <= a
      BY ZenonT(60), <1>3, <3>1, OnlyArrived
    <3>3. \A j \in DOMAIN cap_ring : bufs[w][i] < cap_ring[j]
      BY Zenon, <2>1 DEF WriterOrder
    <3> QED
      BY ZenonT(60), <1>9, <3>1, <3>2, <3>3
  <2>4. bufs' = bufs /\ pos' = pos /\ file' = file /\ saved' = saved /\ compress_fp' = compress_fp
    BY <1>2
  <2>5. WriterOrder(w)
    BY ZenonT(60), <2>1
  <2> QED
    BY ZenonT(60), <2>1, <2>2, <2>3, <2>4, <2>5 DEF WriterOrder
<1>11. ASSUME ~failed', NEW k \in Packets
       PROVE  /\ \A w \in Writers : Passed(w, k)' => Contains(Written(w)', k)
              /\ freed'[k] = 1 /\ k \notin dropped' => \E w \in Writers : Contains(Written(w)', k)
  <2>1. k \notin dropped' => freed'[k] = freed[k] /\ k \notin dropped
    BY <1>3, <1>6
  <2>2. /\ \A w \in Writers : Passed(w, k) => Contains(Written(w), k)
        /\ freed[k] = 1 /\ k \notin dropped => \E w \in Writers : Contains(Written(w), k)
    BY ZenonT(60), <1>2, <1>11 DEF FileInv
  <2>3. \A w \in Writers : Written(w)' = Written(w) /\ (Passed(w, k)' <=> Passed(w, k))
    BY ZenonT(60), <1>5
  <2> QED
    BY ZenonT(60), <2>1, <2>2, <2>3
<1>12. \A k \in Packets : \A v, w \in Writers :
         Contains(Written(v)', k) /\ Contains(Written(w)', k) => v = w
  BY <1>5 DEF FileInv
<1> QED
  BY ZenonT(60), <1>2, <1>8, <1>10, <1>11, <1>12 DEF FileInv

LEMMA DequeueFiles ==
  ASSUME MbufInv, FileInv, NEW w \in Writers, Dequeue(w)
  PROVE  FileInv'
<1>1. PICK n : n = IF Len(cap_ring) < MaxBurst THEN Len(cap_ring) ELSE MaxBurst
  OBVIOUS
<1>2. PICK s : s = cap_ring
  OBVIOUS
<1>3. /\ s \in Seq(Packets) /\ Len(s) \in Nat /\ DOMAIN s = 1 .. Len(s) /\ Ordered(s)
      /\ \A i \in 1 .. Len(s) : s[i] \in Packets /\ s[i] \in Nat
  <2>1. s \in Seq(Packets) /\ Ordered(s)
    BY Zenon, <1>2 DEF MbufInv, FileInv
  <2>2. \A k \in Packets : k \in Nat
    BY DEF Packets
  <2> QED
    BY <2>1, <2>2
<1>4. n \in 0 .. Len(s) /\ n \in Nat
  BY <1>1, <1>2, <1>3, PcapAssumption
<1>5. PICK a, b : a = SubSeq(s, 1, n) /\ b = SubSeq(s, n + 1, Len(s))
  BY ZenonT(60)
<1>6. /\ bufs' = [bufs EXCEPT ![w] = a] /\ cap_ring' = b
      /\ UNCHANGED <<pos, freed, dropped, compress_fp, file, saved, failed>>
      /\ pc[w] = "dequeue"
  BY ZenonT(60), <1>1, <1>2, <1>5 DEF Dequeue, files
<1>7. /\ a \in Seq(Packets) /\ Len(a) = n /\ \A i \in 1 .. n : a[i] = s[i]
      /\ b \in Seq(Packets) /\ Len(b) = Len(s) - n
      /\ \A i \in 1 .. Len(s) - n : b[i] = s[n + i]
      /\ DOMAIN a = 1 .. n /\ DOMAIN b = 1 .. Len(s) - n
  <2>1. /\ a \in Seq(Packets) /\ Len(a) = n /\ \A i \in 1 .. n : a[i] = s[i]
        /\ b \in Seq(Packets) /\ Len(b) = Len(s) - n
        /\ \A i \in 1 .. Len(s) - n : b[i] = s[n + i]
    <3>1. s \in Seq(Packets) /\ n \in 0 .. Len(s)
      BY ZenonT(60), <1>3, <1>4
    <3> QED
      BY ZenonT(60), <1>5, <3>1, SplitOf
  <2> QED
    BY <2>1
<1>8. bufs[w] = <<>> /\ pos[w] = 0
  <2>1. bufs[w] = <<>>
    BY Zenon, <1>6 DEF MbufInv
  <2>2. pos[w] \in 0 .. Len(bufs[w])
    BY ZenonT(60) DEF FileInv, WriterOrder
  <2> QED
    BY <2>1, <2>2
<1>9. bufs'[w] = a /\ \A v \in Writers \ {w} : bufs'[v] = bufs[v]
  BY <1>6 DEF MbufInv
<1>10. /\ \A i \in 1 .. n : i \in 1 .. Len(s)
       /\ \A i \in 1 .. Len(s) - n : n + i \in 1 .. Len(s) /\ n + i > n
  BY <1>3, <1>4
<1>11. Ordered(a) /\ Ordered(b)
  <2>1. \A i, j \in 1 .. Len(s) : i < j => s[i] < s[j]
    BY ZenonT(60), <1>3 DEF Ordered
  <2>2. Ordered(a)
    BY ZenonT(60), <1>7, <1>10, <2>1 DEF Ordered
  <2>3. \A i, j \in 1 .. Len(s) - n : i < j => n + i < n + j
    BY <1>3, <1>4
  <2>4. Ordered(b)
    BY ZenonT(60), <1>7, <1>10, <2>1, <2>3 DEF Ordered
  <2> QED
    BY ZenonT(60), <2>2, <2>4
<1>12. \A i \in 1 .. n : \A j \in DOMAIN b : a[i] < b[j]
  <2>1. \A i \in 1 .. n : \A j \in 1 .. Len(s) - n : i < n + j
    BY <1>3, <1>4
  <2> QED
    BY ZenonT(60), <1>3, <1>7, <1>10, <2>1 DEF Ordered
<1>13. ASSUME NEW x, \A j \in DOMAIN s : x < s[j]
       PROVE  (\A j \in 1 .. n : x < a[j]) /\ \A j \in DOMAIN b : x < b[j]
  BY ZenonT(60), <1>3, <1>7, <1>10, <1>13
<1>14. \A v \in Writers : /\ WriterOrder(v) /\ Written(v)' = Written(v)
                          /\ \A k : Passed(v, k)' <=> Passed(v, k)
  <2>1. \A v \in Writers : WriterOrder(v) /\ Written(v)' = Written(v)
    BY ZenonT(60), <1>6 DEF FileInv, Written
  <2>2. \A k : Passed(w, k)' <=> Passed(w, k)
    BY <1>6, <1>8 DEF Passed
  <2>3. \A v \in Writers \ {w} : \A k : Passed(v, k)' <=> Passed(v, k)
    BY <1>6, <1>9 DEF Passed
  <2> QED
    BY ZenonT(60), <2>1, <2>2, <2>3
<1>15. ASSUME NEW v \in Writers
       PROVE  WriterOrder(v)'
  <2>1. WriterOrder(v) /\ Written(v)' = Written(v) /\ \A k : Passed(v, k)' <=> Passed(v, k)
    BY Zenon, <1>14
  <2>2. ASSUME NEW k \in Packets, Contains(Written(v), k)
        PROVE  /\ \A j \in pos[v] + 1 .. Len(bufs'[v]) : k < bufs'[v][j]
               /\ \A j \in DOMAIN b : k < b[j]
               /\ freed[k] = 1 \/ Passed(v, k)
    <3>1. /\ \A j \in pos[v] + 1 .. Len(bufs[v]) : k < bufs[v][j]
          /\ \A j \in DOMAIN s : k < s[j]
          /\ freed[k] = 1 \/ Passed(v, k)
      BY ZenonT(60), <1>2, <2>1, <2>2 DEF WriterOrder
    <3>2. (\A j \in 1 .. n : k < a[j]) /\ \A j \in DOMAIN b : k < b[j]
      BY ZenonT(60), <1>13, <3>1
    <3>3. \A j \in pos[v] + 1 .. Len(bufs'[v]) : k < bufs'[v][j]
      <4>1. CASE v = w
        BY SMTT(30), <1>7, <1>8, <1>9, <3>2, <4>1
      <4>2. CASE v # w
        BY ZenonT(60), <1>9, <3>1, <4>2
      <4> QED
        BY ZenonT(60), <4>1, <4>2
    <3> QED
      BY ZenonT(60), <3>1, <3>2, <3>3
  <2>3. /\ pos[v] \in 0 .. Len(bufs'[v]) /\ Ordered(bufs'[v])
        /\ \A i \in DOMAIN bufs'[v] : \A j \in DOMAIN b : bufs'[v][i] < b[j]
    <3>1. CASE v = w
      <4>1. bufs'[v] = a /\ pos[v] = 0 BY ZenonT(60), <1>8, <1>9, <3>1
      <4>2. 0 \in 0 .. Len(a) BY <1>4, <1>7
      <4>3. Ordered(a) /\ \A i \in DOMAIN a : \A j \in DOMAIN b : a[i] < b[j]
        BY ZenonT(60), <1>7, <1>11, <1>12
      <4> QED BY ZenonT(60), <4>1, <4>2, <4>3
    <3>2. CASE v # w
      <4>1. \A i \in DOMAIN bufs[v] : \A j \in DOMAIN s : bufs[v][i] < s[j]
        BY ZenonT(60), <1>2, <2>1 DEF WriterOrder
      <4>2. \A i \in DOMAIN bufs[v] : \A j \in DOMAIN b : bufs[v][i] < b[j]
        BY ZenonT(60), <1>13, <4>1
      <4> QED
        BY ZenonT(60), <1>9, <2>1, <3>2, <4>2 DEF WriterOrder
    <3> QED
      BY ZenonT(60), <3>1, <3>2
  <2>4. /\ pos' = pos /\ file' = file /\ saved' = saved /\ compress_fp' = compress_fp
        /\ cap_ring' = b /\ freed' = freed
    BY ZenonT(60), <1>6
  <2> QED
    BY ZenonT(60), <2>1, <2>2, <2>3, <2>4 DEF WriterOrder
<1>16. Ordered(cap_ring')
  BY ZenonT(60), <1>6, <1>11
<1>17. \A k \in Packets : \A u, v \in Writers :
         Contains(Written(u)', k) /\ Contains(Written(v)', k) => u = v
  BY <1>14 DEF FileInv
<1>18. ~failed' => \A k \in Packets :
         /\ \A v \in Writers : Passed(v, k)' => Contains(Written(v)', k)
         /\ freed'[k] = 1 /\ k \notin dropped' => \E v \in Writers : Contains(Written(v)', k)
  BY <1>6, <1>14 DEF FileInv
<1> QED
  BY ZenonT(60), <1>6, <1>15, <1>16, <1>17, <1>18 DEF FileInv

(* A packet is written, to the file that is open or to a new one: it comes   *)
(* after all that w has written, and is in no file yet.                      *)
LEMMA WriteFiles ==
  ASSUME Inv, MbufInv, FileInv, NEW w \in Writers, WritePacket(w)
  PROVE  FileInv'
<1>1. PICK k, n : k = bufs[w][pos[w] + 1] /\ n = pos[w]
  BY Zenon
<1>2. /\ pos' = [pos EXCEPT ![w] = n + 1]
      /\ UNCHANGED <<cap_ring, dropped, bufs, freed, compress_fp, failed>>
      /\ n < Len(bufs[w]) /\ PacketWritten(w, k)
  BY ZenonT(60), <1>1 DEF WritePacket, ring, PacketWritten
<1>3. /\ WriterOrder(w) /\ bufs[w] \in Seq(Packets) /\ Len(bufs[w]) \in Nat
      /\ DOMAIN bufs[w] = 1 .. Len(bufs[w])
  BY DEF MbufInv, FileInv
<1>4. n \in 0 .. Len(bufs[w]) /\ n \in Nat
  BY <1>1, <1>3 DEF WriterOrder
<1>5. n + 1 \in 1 .. Len(bufs[w]) /\ k \in Packets /\ Contains(bufs[w], k)
  <2>1. n + 1 \in 1 .. Len(bufs[w])
    BY <1>2, <1>3, <1>4
  <2>2. k \in Packets
    BY <1>1, <1>3, <2>1
  <2> QED
    BY ZenonT(60), <1>1, <2>1, <2>2 DEF Contains
<1>6. PICK ss, f, g : ss = saved[w] /\ f = file[w] /\ g = FlattenSeq(saved[w])
  BY ZenonT(60)
<1>7. ss \in Seq(Seq(Packets)) /\ f \in Seq(Packets) /\ g \in Seq(Packets) /\ g = FlattenSeq(ss)
  BY ZenonT(60), <1>3, <1>6 DEF FileInv, WriterOrder
<1>8. /\ file' = [v \in Writers |-> file'[v]] /\ saved' \in [Writers -> Seq(Seq(Packets))]
      /\ FlattenSeq(saved'[w]) \in Seq(Packets) /\ file'[w] \in Seq(Packets)
      /\ Written(w)' = Append(Written(w), k)
      /\ \A v \in Writers \ {w} : saved'[v] = saved[v] /\ file'[v] = file[v]
  <2>1. /\ Append(ss, f) \in Seq(Seq(Packets)) /\ FlattenSeq(Append(ss, f)) = g \o f
        /\ FlattenSeq(Append(ss, f)) \in Seq(Packets)
    BY Zenon, <1>7, SavedConcat
  <2>2. /\ g \o Append(f, k) = Append(g \o f, k) /\ (g \o f) \o <<k>> = Append(g \o f, k)
        /\ Append(f, k) \in Seq(Packets) /\ <<k>> \in Seq(Packets)
    BY ZenonT(60), <1>5, <1>7, OnePacketMore
  <2>3. CASE Rolls(w)
    <3>1. /\ saved' = [saved EXCEPT ![w] = Append(ss, f)]
          /\ file' = [file EXCEPT ![w] = <<k>>]
      BY ZenonT(60), <1>2, <1>6, <2>3 DEF PacketWritten
    <3>2. /\ file' = [v \in Writers |-> file'[v]] /\ saved'[w] = Append(ss, f)
          /\ file'[w] = <<k>>
          /\ \A v \in Writers \ {w} : saved'[v] = saved[v] /\ file'[v] = file[v]
      BY ZenonT(30), <3>1 DEF FileInv
    <3>3. saved' \in [Writers -> Seq(Seq(Packets))]
      BY ZenonT(60), <2>1, <3>1 DEF FileInv
    <3>4. Written(w)' = FlattenSeq(Append(ss, f)) \o <<k>> /\ Written(w) = g \o f
      BY <1>6, <3>2 DEF Written
    <3> QED
      BY ZenonT(60), <2>1, <2>2, <3>2, <3>3, <3>4
  <2>4. CASE ~Rolls(w)
    <3>1. saved' = saved /\ file' = [file EXCEPT ![w] = Append(f, k)]
      BY ZenonT(60), <1>2, <1>6, <2>4 DEF PacketWritten
    <3>2. /\ file' = [v \in Writers |-> file'[v]] /\ saved'[w] = ss
          /\ file'[w] = Append(f, k)
          /\ \A v \in Writers \ {w} : saved'[v] = saved[v] /\ file'[v] = file[v]
      BY ZenonT(60), <1>6, <3>1 DEF FileInv
    <3>3. Written(w)' = g \o Append(f, k) /\ Written(w) = g \o f
      BY ZenonT(60), <1>6, <1>7, <3>2 DEF Written
    <3>4. saved' \in [Writers -> Seq(Seq(Packets))]
      BY <3>1 DEF FileInv
    <3> QED
      BY ZenonT(60), <1>7, <2>2, <3>2, <3>3, <3>4
  <2> QED
    BY <2>3, <2>4
<1>9. \A v \in Writers \ {w} : Written(v)' = Written(v)
  BY ZenonT(60), <1>8 DEF Written
<1>10. Written(w) \in Seq(Packets)
  BY ZenonT(60), <1>3, WrittenTyped
<1>11. /\ Ordered(Written(w)')
       /\ \A x : Contains(Written(w)', x) <=> Contains(Written(w), x) \/ x = k
  <2>1. \A x \in Packets : Contains(Written(w), x) => x < k
    BY SMTT(30), <1>1, <1>3, <1>4, <1>5 DEF WriterOrder
  <2>2. Ordered(Written(w))
    BY ZenonT(60), <1>3 DEF WriterOrder
  <2>3. /\ Ordered(Append(Written(w), k))
        /\ \A x : Contains(Append(Written(w), k), x) <=> Contains(Written(w), x) \/ x = k
    BY ZenonT(60), <1>5, <1>10, <2>1, <2>2, AppendOrdered
  <2> QED
    BY ZenonT(60), <1>8, <2>3
<1>12. /\ pos' = [v \in Writers |-> pos'[v]] /\ pos'[w] = n + 1
       /\ \A v \in Writers \ {w} : pos'[v] = pos[v]
  BY Zenon, <1>2 DEF FileInv
<1>13. \A x : Passed(w, x)' <=> Passed(w, x) \/ x = k
  <2>1. \A i : i \in 1 .. n + 1 <=> i \in 1 .. n \/ i = n + 1
    BY <1>4
  <2> QED
    BY ZenonT(60), <1>1, <1>2, <1>12, <2>1 DEF Passed
<1>14. \A v \in Writers \ {w} : \A x : Passed(v, x)' <=> Passed(v, x)
  BY ZenonT(60), <1>2, <1>12 DEF Passed
<1>15. freed[k] = 0 /\ \A v \in Writers \ {w} : ~Contains(bufs[v], k)
  <2>1. AtOnePlace(k)
    BY ZenonT(60), <1>5 DEF MbufInv
  <2> QED
    BY ZenonT(60), <1>5, <2>1 DEF AtOnePlace, NowhereElse
<1>16. \A v \in Writers \ {w} : ~Contains(Written(v), k)
  <2> SUFFICES ASSUME NEW v \in Writers \ {w}, Contains(Written(v), k)
               PROVE  FALSE
    BY ZenonT(60)
  <2>1. WriterOrder(v)
    BY DEF FileInv
  <2>2. freed[k] = 1 \/ Passed(v, k)
    BY ZenonT(60), <1>5, <2>1 DEF WriterOrder
  <2> QED
    BY <1>5, <1>15, <2>2, OnlyArrived
<1>17. WriterOrder(w)'
  <2>1. \A j \in n + 2 .. Len(bufs[w]) : k < bufs[w][j]
    <3>1. \A j \in n + 2 .. Len(bufs[w]) : j \in 1 .. Len(bufs[w]) /\ n + 1 < j
      BY SMTT(30), <1>3, <1>4
    <3>2. Ordered(bufs[w])
      BY ZenonT(60), <1>3 DEF WriterOrder
    <3> QED
      BY ZenonT(60), <1>1, <1>3, <1>5, <3>1, <3>2 DEF Ordered
  <2>2. \A j \in (n + 1) + 1 .. Len(bufs[w]) : j \in n + 2 .. Len(bufs[w]) /\ j \in n + 1 .. Len(bufs[w])
    BY SMTT(30), <1>3, <1>4
  <2>3. ASSUME NEW x \in Packets, Contains(Written(w)', x)
        PROVE  /\ \A j \in (n + 1) + 1 .. Len(bufs[w]) : x < bufs[w][j]
               /\ \A j \in DOMAIN cap_ring : x < cap_ring[j]
               /\ freed[x] = 1 \/ Passed(w, x)'
    <3>1. CASE x = k
      <4>1. \A j \in DOMAIN cap_ring : k < cap_ring[j]
        BY ZenonT(60), <1>1, <1>3, <1>5 DEF WriterOrder
      <4> QED
        BY ZenonT(60), <1>13, <2>1, <2>2, <3>1, <4>1
    <3>2. CASE x # k
      <4>1. Contains(Written(w), x)
        BY ZenonT(60), <1>11, <2>3, <3>2
      <4>2. /\ \A j \in n + 1 .. Len(bufs[w]) : x < bufs[w][j]
            /\ \A j \in DOMAIN cap_ring : x < cap_ring[j]
            /\ freed[x] = 1 \/ Passed(w, x)
        BY ZenonT(60), <1>1, <1>3, <4>1 DEF WriterOrder
      <4> QED
        BY ZenonT(60), <1>13, <2>2, <4>2
    <3> QED
      BY ZenonT(60), <3>1, <3>2
  <2>4. compress_fp'[w] # "NULL"
    BY ZenonT(60), <1>2 DEF WritePacket, Inv, FileHeld
  <2>5. /\ n + 1 \in 0 .. Len(bufs[w]) /\ Ordered(bufs[w])
        /\ \A i \in DOMAIN bufs[w] : \A j \in DOMAIN cap_ring : bufs[w][i] < cap_ring[j]
    BY <1>3, <1>4, <1>5 DEF WriterOrder
  <2> QED
    BY ZenonT(60), <1>2, <1>8, <1>11, <1>12, <2>3, <2>4, <2>5 DEF WriterOrder
<1>18. ASSUME NEW v \in Writers \ {w}
       PROVE  WriterOrder(v)'
  <2>1. /\ WriterOrder(v) /\ Written(v)' = Written(v) /\ pos'[v] = pos[v]
        /\ saved'[v] = saved[v] /\ file'[v] = file[v]
        /\ \A x : Passed(v, x)' <=> Passed(v, x)
    BY ZenonT(60), <1>8, <1>9, <1>12, <1>14 DEF FileInv
  <2> QED
    BY ZenonT(60), <1>2, <2>1 DEF WriterOrder
<1>19. \A x \in Packets : \A u, v \in Writers :
         Contains(Written(u)', x) /\ Contains(Written(v)', x) => u = v
  <2> SUFFICES ASSUME NEW x \in Packets, NEW u \in Writers, NEW v \in Writers,
                      Contains(Written(u)', x), Contains(Written(v)', x), u # v
               PROVE  FALSE
    BY Zenon
  <2>1. \A y \in Writers : Contains(Written(y)', x) => Contains(Written(y), x) \/ (y = w /\ x = k)
    BY ZenonT(60), <1>9, <1>11
  <2>2. ~(Contains(Written(u), x) /\ Contains(Written(v), x))
    BY Zenon DEF FileInv
  <2> QED
    BY ZenonT(60), <1>16, <2>1, <2>2
<1>20. ASSUME ~failed', NEW x \in Packets
       PROVE  /\ \A v \in Writers : Passed(v, x)' => Contains(Written(v)', x)
              /\ freed'[x] = 1 /\ x \notin dropped' => \E v \in Writers : Contains(Written(v)', x)
  <2>1. /\ \A v \in Writers : Passed(v, x) => Contains(Written(v), x)
        /\ freed[x] = 1 /\ x \notin dropped => \E v \in Writers : Contains(Written(v), x)
    BY ZenonT(60), <1>2, <1>20 DEF FileInv
  <2>2. \A v \in Writers : Contains(Written(v), x) => Contains(Written(v)', x)
    BY ZenonT(60), <1>9, <1>11
  <2>3. \A v \in Writers : Passed(v, x)' => Passed(v, x) \/ (v = w /\ x = k)
    BY ZenonT(60), <1>13, <1>14
  <2> QED
    BY ZenonT(60), <1>2, <1>11, <2>1, <2>2, <2>3
<1>21. \A v \in Writers : WriterOrder(v)'
  BY ZenonT(60), <1>17, <1>18
<1>22. Ordered(cap_ring') /\ compress_fp' = [v \in Writers |-> compress_fp'[v]]
  BY <1>2 DEF FileInv
<1> QED
  BY ZenonT(60), <1>8, <1>12, <1>19, <1>20, <1>21, <1>22 DEF FileInv

(* A burst is released.  What it held is in the files by now, unless a file  *)
(* operation failed; then the file that was open may be lost.                *)
LEMMA FreeFiles ==
  ASSUME MbufInv, FileInv, NEW w \in Writers, FreeBurst(w), UNCHANGED <<cap_ring, dropped>>,
         \A v \in Writers \ {w} :
           saved'[v] = saved[v] /\ file'[v] = file[v] /\ compress_fp'[v] = compress_fp[v],
         saved' \in [Writers -> Seq(Seq(Packets))],
         file' = [v \in Writers |-> file'[v]],
         compress_fp' = [v \in Writers |-> compress_fp'[v]],
         FlattenSeq(saved'[w]) \in Seq(Packets), file'[w] \in Seq(Packets),
         compress_fp'[w] = "NULL" => file'[w] = <<>>,
         Ordered(Written(w)'),
         \A k : Contains(Written(w)', k) => Contains(Written(w), k),
         \/ failed'
         \/ failed' = failed /\ Written(w)' = Written(w) /\ pos[w] = Len(bufs[w])
  PROVE  FileInv'
<1>1. /\ freed' = [k \in Packets |-> freed[k] + IF Contains(bufs[w], k) THEN 1 ELSE 0]
      /\ bufs' = [bufs EXCEPT ![w] = <<>>] /\ pos' = [pos EXCEPT ![w] = 0]
  BY DEF FreeBurst
<1>2. /\ bufs'[w] = <<>> /\ \A v \in Writers \ {w} : bufs'[v] = bufs[v]
      /\ pos' = [v \in Writers |-> pos'[v]] /\ pos'[w] = 0
      /\ \A v \in Writers \ {w} : pos'[v] = pos[v]
  BY Zenon, <1>1 DEF FileInv, MbufInv
<1>3. \A v \in Writers \ {w} : /\ Written(v)' = Written(v)
                               /\ \A k : Passed(v, k)' <=> Passed(v, k)
  BY ZenonT(60), <1>2 DEF Written, Passed
<1>4. \A k : ~Passed(w, k)'
  BY <1>2 DEF Passed
<1>5. ASSUME NEW k \in Packets
      PROVE  /\ Contains(bufs[w], k) => freed'[k] = 1
             /\ ~Contains(bufs[w], k) => freed'[k] = freed[k]
             /\ freed[k] = 1 => freed'[k] = 1
  <2>1. AtOnePlace(k) /\ freed[k] \in Nat
    BY ZenonT(60) DEF MbufInv
  <2>2. Contains(bufs[w], k) => freed[k] = 0
    BY ZenonT(60), <2>1 DEF AtOnePlace, NowhereElse
  <2>3. freed'[k] = freed[k] + IF Contains(bufs[w], k) THEN 1 ELSE 0
    BY <1>1
  <2> QED
    BY SMTT(30), <2>1, <2>2, <2>3
<1>6. WriterOrder(w)'
  <2>1. WriterOrder(w)
    BY DEF FileInv
  <2>2. ASSUME NEW k \in Packets, Contains(Written(w)', k)
        PROVE  (\A j \in DOMAIN cap_ring : k < cap_ring[j]) /\ freed'[k] = 1
    <3>1. Contains(Written(w), k)
      BY Zenon, <2>2
    <3>2. (\A j \in DOMAIN cap_ring : k < cap_ring[j]) /\ (freed[k] = 1 \/ Passed(w, k))
      BY ZenonT(60), <2>1, <3>1 DEF WriterOrder
    <3> QED
      BY ZenonT(60), <1>5, <3>2, OnlyArrived
  <2>3. /\ 0 \in 0 .. Len(bufs'[w]) /\ Ordered(bufs'[w]) /\ DOMAIN bufs'[w] = {}
        /\ pos'[w] + 1 .. Len(bufs'[w]) = {}
    BY <1>2 DEF Ordered
  <2> QED
    BY ZenonT(60), <1>2, <2>2, <2>3 DEF WriterOrder
<1>7. ASSUME NEW v \in Writers \ {w}
      PROVE  WriterOrder(v)'
  <2>1. /\ WriterOrder(v) /\ Written(v)' = Written(v) /\ pos'[v] = pos[v] /\ bufs'[v] = bufs[v]
        /\ \A x : Passed(v, x)' <=> Passed(v, x)
    BY ZenonT(60), <1>2, <1>3 DEF FileInv
  <2>2. \A k \in Packets : freed[k] = 1 => freed'[k] = 1
    BY Zenon, <1>5
  <2> QED
    BY Zenon, <2>1, <2>2 DEF WriterOrder
<1>8. \A k \in Packets : \A u, v \in Writers :
        Contains(Written(u)', k) /\ Contains(Written(v)', k) => u = v
  <2>1. \A v \in Writers : \A k : Contains(Written(v)', k) => Contains(Written(v), k)
    BY Zenon, <1>3
  <2> QED
    BY Zenon, <2>1 DEF FileInv
<1>9. ASSUME ~failed', NEW k \in Packets
      PROVE  /\ \A v \in Writers : Passed(v, k)' => Contains(Written(v)', k)
             /\ freed'[k] = 1 /\ k \notin dropped' => \E v \in Writers : Contains(Written(v)', k)
  <2>1. failed' = failed /\ Written(w)' = Written(w) /\ pos[w] = Len(bufs[w])
    BY <1>9
  <2>2. /\ \A v \in Writers : Passed(v, k) => Contains(Written(v), k)
        /\ freed[k] = 1 /\ k \notin dropped => \E v \in Writers : Contains(Written(v), k)
    BY ZenonT(60), <1>9, <2>1 DEF FileInv
  <2>3. Contains(bufs[w], k) => Passed(w, k)
    BY Zenon, <2>1 DEF Contains, Passed
  <2>4. \A v \in Writers : Contains(Written(v), k) => Contains(Written(v)', k)
    BY ZenonT(60), <1>3, <2>1
  <2>5. \A v \in Writers : Passed(v, k)' => Passed(v, k)
    BY Zenon, <1>3, <1>4
  <2> QED
    BY ZenonT(60), <1>5, <2>2, <2>3, <2>4, <2>5
<1>10. \A v \in Writers : WriterOrder(v)'
  BY ZenonT(60), <1>6, <1>7
<1>11. Ordered(cap_ring')
  BY DEF FileInv
<1> QED
  BY ZenonT(60), <1>2, <1>8, <1>9, <1>10, <1>11 DEF FileInv

(* UPDATE_MODE or CLOSE_MODE ends the writer: the file is saved or lost. *)
LEMMA FailFiles ==
  ASSUME MbufInv, FileInv, NEW w \in Writers, WritePacketFails(w)
  PROVE  FileInv'
<1>1. PICK ss, f, g : ss = saved[w] /\ f = file[w] /\ g = FlattenSeq(saved[w])
  BY ZenonT(60)
<1>2. /\ ss \in Seq(Seq(Packets)) /\ f \in Seq(Packets) /\ g \in Seq(Packets)
      /\ g = FlattenSeq(ss) /\ Written(w) = g \o f /\ Ordered(g \o f)
  BY ZenonT(60), <1>1 DEF FileInv, WriterOrder, Written
<1>3. /\ compress_fp' = [compress_fp EXCEPT ![w] = "NULL"]
      /\ file' = [file EXCEPT ![w] = <<>>]
      /\ saved' = saved \/ saved' = [saved EXCEPT ![w] = Append(ss, f)]
      /\ failed' = TRUE
  BY ZenonT(60), <1>1 DEF WritePacketFails, RollFails, WriteFails, Closed
<1>4. FreeBurst(w) /\ UNCHANGED <<cap_ring, dropped>>
  BY DEF WritePacketFails, ring
<1>5. /\ file' = [v \in Writers |-> file'[v]] /\ file'[w] = <<>>
      /\ compress_fp' = [v \in Writers |-> compress_fp'[v]]
      /\ \A v \in Writers \ {w} : file'[v] = file[v] /\ compress_fp'[v] = compress_fp[v]
  BY Zenon, <1>3 DEF FileInv
<1>6. <<>> \in Seq(Packets)
  OBVIOUS
<1>7. /\ Append(ss, f) \in Seq(Seq(Packets)) /\ FlattenSeq(Append(ss, f)) \in Seq(Packets)
      /\ FlattenSeq(Append(ss, f)) \o <<>> = g \o f /\ g \o <<>> = g
  BY ZenonT(60), <1>2, SavedConcat
<1>8. CASE saved' = saved
  <2>1. /\ saved' \in [Writers -> Seq(Seq(Packets))] /\ saved'[w] = ss
        /\ \A v \in Writers \ {w} : saved'[v] = saved[v]
    BY <1>1, <1>8 DEF FileInv
  <2>2. Written(w)' = g
    BY ZenonT(60), <1>2, <1>5, <1>7, <2>1 DEF Written
  <2>3. Ordered(g) /\ \A x : Contains(g, x) => Contains(g \o f, x)
    BY ZenonT(60), <1>2, PrefixOrdered
  <2>4. Ordered(Written(w)') /\ \A x : Contains(Written(w)', x) => Contains(Written(w), x)
    BY ZenonT(60), <1>2, <2>2, <2>3
  <2>5. FlattenSeq(saved'[w]) \in Seq(Packets) /\ file'[w] \in Seq(Packets)
    BY ZenonT(60), <1>2, <1>5, <1>6, <2>1
  <2> QED
    BY ZenonT(60), <1>3, <1>4, <1>5, <2>1, <2>4, <2>5, FreeFiles
<1>9. CASE saved' = [saved EXCEPT ![w] = Append(ss, f)]
  <2>1. saved' \in [Writers -> Seq(Seq(Packets))]
    BY ZenonT(60), <1>7, <1>9 DEF FileInv
  <2>2. saved'[w] = Append(ss, f) /\ \A v \in Writers \ {w} : saved'[v] = saved[v]
    BY <1>9 DEF FileInv
  <2>3. Written(w)' = Written(w)
    BY ZenonT(60), <1>2, <1>5, <1>7, <2>2 DEF Written
  <2>4. Ordered(Written(w)') /\ \A x : Contains(Written(w)', x) => Contains(Written(w), x)
    BY ZenonT(60), <1>2, <2>3
  <2>5. FlattenSeq(saved'[w]) \in Seq(Packets) /\ file'[w] \in Seq(Packets)
    BY ZenonT(60), <1>5, <1>6, <1>7, <2>2
  <2> QED
    BY ZenonT(60), <1>3, <1>4, <1>5, <2>1, <2>2, <2>4, <2>5, FreeFiles
<1> QED
  BY ZenonT(60), <1>3, <1>8, <1>9

LEMMA DoneFiles ==
  ASSUME MbufInv, FileInv, NEW w \in Writers, WriteDone(w)
  PROVE  FileInv'
<1>1. /\ FreeBurst(w) /\ pos[w] = Len(bufs[w])
      /\ UNCHANGED <<cap_ring, dropped, saved, file, compress_fp, failed>>
  BY ZenonT(60) DEF WriteDone, ring, files
<1>2. /\ WriterOrder(w) /\ Written(w)' = Written(w)
      /\ \A v \in Writers : saved'[v] = saved[v] /\ file'[v] = file[v]
                            /\ compress_fp'[v] = compress_fp[v]
  BY <1>1 DEF FileInv, Written
<1>3. /\ FlattenSeq(saved'[w]) \in Seq(Packets) /\ file'[w] \in Seq(Packets)
      /\ compress_fp'[w] = "NULL" => file'[w] = <<>>
      /\ Ordered(Written(w)')
      /\ \A k : Contains(Written(w)', k) => Contains(Written(w), k)
  BY ZenonT(60), <1>2 DEF WriterOrder
<1>4. /\ saved' \in [Writers -> Seq(Seq(Packets))]
      /\ file' = [v \in Writers |-> file'[v]]
      /\ compress_fp' = [v \in Writers |-> compress_fp'[v]]
  BY <1>1 DEF FileInv
<1> QED
  BY ZenonT(60), <1>1, <1>2, <1>3, <1>4, FreeFiles

LEMMA InitFileInv == Init => FileInv
<1> SUFFICES ASSUME Init PROVE FileInv
  OBVIOUS
<1>1. /\ \A w \in Writers : /\ saved[w] = <<>> /\ file[w] = <<>> /\ pos[w] = 0
                            /\ bufs[w] = <<>>
      /\ cap_ring = <<>> /\ \A k \in Packets : freed[k] = 0
      /\ saved = [w \in Writers |-> saved[w]] /\ file = [w \in Writers |-> file[w]]
      /\ pos = [w \in Writers |-> pos[w]]
      /\ compress_fp = [w \in Writers |-> compress_fp[w]]
  BY DEF Init
<1>2. /\ <<>> \in Seq(Seq(Packets)) /\ <<>> \in Seq(Packets) /\ Ordered(<<>>)
      /\ \A k : ~Contains(<<>>, k)
      /\ Len(<<>>) = 0 /\ DOMAIN <<>> = {}
  BY DEF Ordered, Contains
<1>3. \A w \in Writers : Written(w) = <<>> /\ FlattenSeq(saved[w]) = <<>>
  <2>1. <<>> \o <<>> = <<>>
    BY ZenonT(60), <1>2, ConcatEmptySeq
  <2> QED
    BY ZenonT(60), <1>1, <2>1, FlattenNone DEF Written
<1>4. \A w \in Writers : \A k : ~Passed(w, k)
  BY <1>1 DEF Passed
<1>5. \A w \in Writers : WriterOrder(w)
  <2>1. 0 \in 0 .. 0
    OBVIOUS
  <2> QED
    BY ZenonT(60), <1>1, <1>2, <1>3, <2>1 DEF WriterOrder
<1>6. saved \in [Writers -> Seq(Seq(Packets))]
  BY ZenonT(60), <1>1, <1>2
<1>7. \A k \in Packets : freed[k] # 1
  BY <1>1
<1> QED
  BY ZenonT(60), <1>1, <1>2, <1>3, <1>4, <1>5, <1>6, <1>7 DEF FileInv

LEMMA ReceiverFiles ==
  ASSUME MbufInv, FileInv, slave_main(Receiver)
  PROVE  FileInv'
<1> USE DEF ring, burst, files, Bursts
<1>0. UNCHANGED <<ring, burst, files>> => FileInv'
  BY FilesSame
<1>1. CASE Boot(Receiver) BY ZenonT(60), <1>0, <1>1 DEF Boot
<1>2. CASE Leave(Receiver) BY ZenonT(60), <1>0, <1>2 DEF Leave
<1>3. CASE Top(Receiver) BY ZenonT(60), <1>0, <1>3 DEF Top
<1>4. CASE pcap_proc_receive
  <2>1. CASE ReceiveIdle BY ZenonT(60), <1>0, <2>1 DEF ReceiveIdle
  <2>2. CASE ReceiveStop BY ZenonT(60), <1>0, <2>2 DEF ReceiveStop
  <2>3. CASE ReceiveStart BY ZenonT(60), <1>0, <2>3 DEF ReceiveStart
  <2>4. CASE ReceiveGoesOn BY ZenonT(60), <1>0, <2>4 DEF ReceiveGoesOn
  <2>5. CASE StartUpWait BY ZenonT(60), <1>0, <2>5 DEF StartUpWait
  <2>6. CASE StartUpDone BY <1>0, <2>6 DEF StartUpDone
  <2>7. CASE Receive BY ZenonT(60), <2>7, ReceiveFiles
  <2>8. CASE IncLoad(Receiver) BY ZenonT(60), <1>0, <2>8 DEF IncLoad, Load
  <2>9. CASE IncStore(Receiver, "wait") BY ZenonT(60), <1>0, <2>9 DEF IncStore, Store
  <2>10. CASE DecLoad(Receiver, "top") BY ZenonT(60), <1>0, <2>10 DEF DecLoad, Load
  <2>11. CASE DecStore(Receiver, "top") BY ZenonT(60), <1>0, <2>11 DEF DecStore, Store
  <2> QED BY ZenonT(60), <1>4, <2>1, <2>2, <2>3, <2>4, <2>5, <2>6, <2>7, <2>8, <2>9,
             <2>10, <2>11 DEF pcap_proc_receive
<1> QED BY ZenonT(60), <1>1, <1>2, <1>3, <1>4, ThreadSets DEF slave_main

LEMMA WriterFiles ==
  ASSUME Inv, MbufInv, FileInv, NEW w \in Writers, slave_main(w)
  PROVE  FileInv'
<1> USE DEF ring, burst, files, Bursts
<1>0. UNCHANGED <<ring, burst, files>> => FileInv'
  BY FilesSame
<1>1. CASE Boot(w) BY ZenonT(60), <1>0, <1>1 DEF Boot
<1>2. CASE Leave(w) BY ZenonT(60), <1>0, <1>2 DEF Leave
<1>3. CASE Top(w) BY ZenonT(60), <1>0, <1>3 DEF Top
<1>4. CASE pcap_proc_write(w)
  <2>1. CASE WriteIdle(w) BY <1>0, <2>1 DEF WriteIdle
  <2>2. CASE WriteStart(w)
    <3>1. UNCHANGED Bursts /\ FileInit(w) /\ pc[w] = "proc" /\ status[w] = "idle"
      BY ZenonT(60), <2>2 DEF WriteStart
    <3>2. compress_fp[w] = "NULL"
      BY SMTT(30), <3>1 DEF Inv, FileHeld
    <3> QED BY ZenonT(60), <3>1, <3>2, InitFiles
  <2>3. CASE WriteStartFails(w)
    BY ZenonT(60), <2>3, FilesSame DEF WriteStartFails, FileInitFails
  <2>4. CASE WriteGoesOn(w) BY ZenonT(60), <1>0, <2>4 DEF WriteGoesOn
  <2>5. CASE Dequeue(w) BY ZenonT(60), <2>5, DequeueFiles
  <2>6. CASE WriteStop(w) BY <1>0, <2>6 DEF WriteStop
  <2>7. CASE WriteClose(w)
    <3>1. UNCHANGED Bursts /\ FileClose(w) BY <2>7 DEF WriteClose
    <3> QED BY ZenonT(60), <3>1, CloseFiles
  <2>8. CASE WritePacket(w) BY ZenonT(60), <2>8, WriteFiles
  <2>9. CASE WriteDone(w) BY <2>9, DoneFiles
  <2>10. CASE WritePacketFails(w) BY <2>10, FailFiles
  <2>11. CASE IncLoad(w) BY ZenonT(60), <1>0, <2>11 DEF IncLoad, Load
  <2>12. CASE IncStore(w, "dequeue") BY ZenonT(60), <1>0, <2>12 DEF IncStore, Store
  <2>13. CASE DecLoad(w, "close") BY ZenonT(60), <1>0, <2>13 DEF DecLoad, Load
  <2>14. CASE DecStore(w, "close") BY ZenonT(60), <1>0, <2>14 DEF DecStore, Store
  <2> QED BY ZenonT(60), <1>4, <2>1, <2>2, <2>3, <2>4, <2>5, <2>6, <2>7, <2>8, <2>9,
             <2>10, <2>11, <2>12, <2>13, <2>14 DEF pcap_proc_write
<1>5. w # Receiver BY ThreadSets
<1> QED BY ZenonT(60), <1>1, <1>2, <1>3, <1>4, <1>5 DEF slave_main

LEMMA StepFiles == Inv /\ MbufInv /\ FileInv /\ [Next]_vars => FileInv'
<1> SUFFICES ASSUME Inv, MbufInv, FileInv, [Next]_vars PROVE FileInv'
  OBVIOUS
<1>1. CASE Master \/ UNCHANGED vars
  <2>1. UNCHANGED <<Bursts, compress_fp, file, saved, failed>>
    BY ZenonT(60), <1>1 DEF Master, Started, StartTimeout, TakeCommand, StartStop, Exit,
         stop_process, LeaveLoop, Finish, FinishTimeout, vars, ring, burst, files, Bursts
  <2> QED BY ZenonT(60), <2>1, FilesSame
<1>2. ASSUME NEW t \in Threads, slave_main(t) PROVE FileInv'
  <2>1. t = Receiver \/ t \in Writers
    BY PcapAssumption DEF Threads, Writers, Receiver
  <2> QED BY ZenonT(60), <1>2, <2>1, ReceiverFiles, WriterFiles
<1> QED BY <1>1, <1>2 DEF Next

LEMMA FilesInOrder == FileInv => CapturedOnceInOrder
<1> SUFFICES ASSUME FileInv PROVE CapturedOnceInOrder
  OBVIOUS
<1>1. \A w \in Writers : \A i, j \in DOMAIN Written(w) :
        i < j => Written(w)[i] < Written(w)[j]
  BY Zenon DEF FileInv, WriterOrder, Ordered
<1>2. ASSUME ~failed, NEW k \in Packets, freed[k] = 1, k \notin dropped
      PROVE  Cardinality({w \in Writers : Contains(Written(w), k)}) = 1
  <2>1. PICK w \in Writers : Contains(Written(w), k)
    BY Zenon, <1>2 DEF FileInv
  <2>2. \A v \in Writers : Contains(Written(v), k) => v = w
    BY Zenon, <2>1 DEF FileInv
  <2>3. {v \in Writers : Contains(Written(v), k)} = {w}
    BY Zenon, <2>1, <2>2
  <2> QED
    BY Zenon, <2>3, FS_Singleton
<1> QED
  BY ZenonT(60), <1>1, <1>2 DEF CapturedOnceInOrder

(* The files of a writer, one after the other, hold packets in the order    *)
(* they arrived; and unless a file operation fails, every packet that was   *)
(* released is in exactly one file or was dropped because the ring was full.*)
(* Stop, start, changes of file and the race for the ring do not matter.    *)
THEOREM PcapCapturedOnceInOrder == Spec => []CapturedOnceInOrder
BY InitInv, StepInv, InitMbufs, StepMbufs, InitFileInv, StepFiles, FilesInOrder,
   PTL DEF Spec
=============================================================================
