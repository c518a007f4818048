-------------------------------- MODULE Pcap --------------------------------
(***************************************************************************)
(* src/pcap: spp_pcap.  The master takes commands and signals, thread 0    *)
(* receives packets and puts them on cap_ring, and the other threads write *)
(* them to compressed files.  The threads share two flags and a count of   *)
(* the threads that have started, none of them protected.                  *)
(* Packets are numbered in the order they arrive.  File names and the      *)
(* contents of packets are left out.                                       *)
(***************************************************************************)
EXTENDS SeqOps

CONSTANTS NWriters,    \* slave lcores - 1
          NPackets,    \* bound: packets that arrive
          NCommands,   \* bound: start and stop commands
          RingSize,    \* RING_SIZE
          MaxBurst,    \* MAX_PCAP_BURST
          FileLimit,   \* packets that make file_size exceed fsize_limit
          MayFail      \* file operations that may fail

ASSUME PcapAssumption ==
  /\ NWriters \in Nat \ {0} /\ NPackets \in Nat /\ NCommands \in Nat
  /\ RingSize \in Nat \ {0} /\ MaxBurst \in Nat \ {0} /\ FileLimit \in Nat
  /\ MayFail \subseteq {"init", "roll", "write"}

Receiver == 0
Writers == 1 .. NWriters
Threads == 0 .. NWriters
Packets == 1 .. NPackets

VARIABLES
  capture_request, capture_status,  \* g_capture_request, g_capture_status
  start_up_cnt, reg,   \* g_pcap_thread_info.start_up_cnt, a thread's copy of it
  status,              \* pcap_mng_info.status
  core_status,         \* g_core_info[].status
  pc,                  \* where each thread is
  cap_ring, arrived,   \* the ring, and how many packets have arrived
  bufs, pos,           \* a writer's burst, and the packets of it written
  compress_fp, file,   \* the file pointer, the packets in the file
  saved,               \* the files a writer has renamed to their final name
  outbuff,             \* outbuff: allocations less frees
  freed, dropped,      \* frees of each mbuf; packets the ring had no room for
  mpc, mstatus,        \* the master: position, status
  commands,            \* commands taken
  stopreq, failed      \* a stop was requested; a file operation has failed

flags == <<capture_request, capture_status>>
count == <<start_up_cnt, reg>>
ring == <<cap_ring, arrived, dropped>>
burst == <<bufs, pos, freed>>
files == <<compress_fp, file, saved, outbuff, failed>>
master == <<mpc, mstatus, commands, stopreq>>
vars == <<flags, count, status, core_status, pc, ring, burst, files, master>>

(* main, up to the launch of the slaves *)
Init == /\ capture_request = "idle" /\ capture_status = "idle"
        /\ start_up_cnt = 0 /\ reg = [t \in Threads |-> 0]
        /\ status = [t \in Threads |-> "idle"]
        /\ core_status = [t \in Threads |-> "stopped"]
        /\ pc = [t \in Threads |-> "boot"]
        /\ cap_ring = <<>> /\ arrived = 0 /\ dropped = {}
        /\ bufs = [w \in Writers |-> <<>>] /\ pos = [w \in Writers |-> 0]
        /\ freed = [k \in Packets |-> 0]
        /\ compress_fp = [w \in Writers |-> "NULL"]
        /\ file = [w \in Writers |-> <<>>]
        /\ saved = [w \in Writers |-> <<>>]
        /\ outbuff = [w \in Writers |-> 0] /\ failed = FALSE
        /\ mpc = "boot" /\ mstatus = "idling" /\ commands = 0
        /\ stopreq = "none"

Goto(t, to) == pc' = [pc EXCEPT ![t] = to]

-----------------------------------------------------------------------------
(* slave_main                                                              *)

Boot(t) == /\ pc[t] = "boot"
           /\ core_status' = [core_status EXCEPT ![t] = "idling"]
           /\ Goto(t, "top")
           /\ UNCHANGED <<flags, count, status, ring, burst, files, master>>

Leave(t) == /\ pc[t] = "top"
            /\ core_status[t] = "reqstop" /\ status[t] = "idle"
            /\ core_status' = [core_status EXCEPT ![t] = "stopped"]
            /\ Goto(t, "gone")
            /\ UNCHANGED <<flags, count, status, ring, burst, files, master>>

(* Bug: a stop request does not stop the capture. *)
TopMutKeepsCapturing(t) ==
  /\ pc[t] = "top"
  /\ ~(core_status[t] = "reqstop" /\ status[t] = "idle")
  /\ Goto(t, "proc")
  /\ UNCHANGED <<flags, count, status, core_status, ring, burst, files, master>>

(* The receiver turns a stop request into the end of the capture. *)
Top(t) == /\ pc[t] = "top"
          /\ ~(core_status[t] = "reqstop" /\ status[t] = "idle")
          /\ capture_request' = IF core_status[t] = "reqstop" /\ t = Receiver
                                  THEN "idle" ELSE capture_request
          /\ Goto(t, "proc")
          /\ UNCHANGED <<capture_status, count, status, core_status, ring,
                         burst, files, master>>

-----------------------------------------------------------------------------
(* start_up_cnt is an int that every thread changes without a lock: a load *)
(* and a store, between which other threads load and store it too.         *)

Load(t, from, to) == /\ pc[t] = from
                     /\ reg' = [reg EXCEPT ![t] = start_up_cnt]
                     /\ Goto(t, to)
                     /\ UNCHANGED <<flags, start_up_cnt, status, core_status,
                                    ring, burst, files, master>>

Store(t, from, n, to) == /\ pc[t] = from
                         /\ start_up_cnt' = n
                         /\ reg' = [reg EXCEPT ![t] = 0]
                         /\ Goto(t, to)
                         /\ UNCHANGED <<flags, status, core_status, ring,
                                        burst, files, master>>

(* start_up_cnt += 1 *)
IncLoad(t) == Load(t, "inc", "inc_store")
IncStore(t, to) == Store(t, "inc_store", reg[t] + 1, to)

(* if (start_up_cnt != 0) start_up_cnt -= 1 *)
DecLoad(t, to) == Load(t, "dec", IF start_up_cnt = 0 THEN to ELSE "dec_store")
DecStore(t, to) == Store(t, "dec_store", reg[t] - 1, to)

-----------------------------------------------------------------------------
(* pcap_proc_receive                                                       *)

ReceiveIdle == /\ pc[Receiver] = "proc"
               /\ capture_request = "idle" /\ status[Receiver] = "idle"
               /\ Goto(Receiver, "top")
               /\ UNCHANGED <<flags, count, status, core_status, ring, burst,
                              files, master>>

ReceiveStop == /\ pc[Receiver] = "proc"
               /\ capture_request = "idle" /\ status[Receiver] = "running"
               /\ status' = [status EXCEPT ![Receiver] = "idle"]
               /\ capture_status' = "idle"
               /\ Goto(Receiver, "dec")
               /\ UNCHANGED <<capture_request, count, core_status, ring, burst,
                              files, master>>

(* Bug: the writers are not told that the capture has begun. *)
ReceiveStartMutStatus ==
  /\ pc[Receiver] = "proc"
  /\ capture_request = "running" /\ status[Receiver] = "idle"
  /\ status' = [status EXCEPT ![Receiver] = "running"]
  /\ Goto(Receiver, "inc")
  /\ UNCHANGED <<flags, count, core_status, ring, burst, files, master>>

ReceiveStart == /\ pc[Receiver] = "proc"
                /\ capture_request = "running" /\ status[Receiver] = "idle"
                /\ status' = [status EXCEPT ![Receiver] = "running"]
                /\ capture_status' = "running"
                /\ Goto(Receiver, "inc")
                /\ UNCHANGED <<capture_request, count, core_status, ring,
                               burst, files, master>>

ReceiveGoesOn == /\ pc[Receiver] = "proc"
                 /\ capture_request = "running" /\ status[Receiver] = "running"
                 /\ Goto(Receiver, "wait")
                 /\ UNCHANGED <<flags, count, status, core_status, ring, burst,
                                files, master>>

(* "Write thread start up wait" *)
StartUpWait == /\ pc[Receiver] = "wait"
               /\ NWriters + 1 > start_up_cnt
               /\ Goto(Receiver, "top")
               /\ UNCHANGED <<flags, count, status, core_status, ring, burst,
                              files, master>>

StartUpDone == /\ pc[Receiver] = "wait"
               /\ NWriters + 1 <= start_up_cnt
               /\ Goto(Receiver, "rx")
               /\ UNCHANGED <<flags, count, status, core_status, ring, burst,
                              files, master>>

(* Bug: what the ring has no room for is not released. *)
ReceiveMutNoFree ==
  /\ pc[Receiver] = "rx"
  /\ \E n \in 0 .. MaxBurst :
       LET Room == RingSize - Len(cap_ring)
           nb_tx == IF n < Room THEN n ELSE Room
       IN /\ arrived + n <= NPackets
          /\ arrived' = arrived + n
          /\ cap_ring' = cap_ring \o [i \in 1 .. nb_tx |-> arrived + i]
          /\ dropped' = dropped \cup (arrived + nb_tx + 1 .. arrived + n)
  /\ Goto(Receiver, "top")
  /\ UNCHANGED <<flags, count, status, core_status, burst, files, master>>

(* A burst goes to the ring; what there is no room for is released. *)
Receive ==
  /\ pc[Receiver] = "rx"
  /\ \E n \in 0 .. MaxBurst :
       LET Room == RingSize - Len(cap_ring)
           nb_tx == IF n < Room THEN n ELSE Room
           Rest == arrived + nb_tx + 1 .. arrived + n
       IN /\ arrived + n <= NPackets
          /\ arrived' = arrived + n
          /\ cap_ring' = cap_ring \o [i \in 1 .. nb_tx |-> arrived + i]
          /\ dropped' = dropped \cup Rest
          /\ freed' = [k \in Packets |-> freed[k] + IF k \in Rest THEN 1 ELSE 0]
  /\ Goto(Receiver, "top")
  /\ UNCHANGED <<flags, count, status, core_status, bufs, pos, files, master>>

pcap_proc_receive == \/ ReceiveIdle \/ ReceiveStop \/ ReceiveStart
                     \/ ReceiveGoesOn \/ StartUpWait \/ StartUpDone \/ Receive
                     \/ IncLoad(Receiver) \/ IncStore(Receiver, "wait")
                     \/ DecLoad(Receiver, "top") \/ DecStore(Receiver, "top")

-----------------------------------------------------------------------------
(* file_compression_operation and compress_file_packet                     *)

(* INIT_MODE succeeds. *)
FileInit(w) == /\ compress_fp' = [compress_fp EXCEPT ![w] = "open"]
               /\ file' = [file EXCEPT ![w] = <<>>]
               /\ outbuff' = [outbuff EXCEPT ![w] = @ + 1]
               /\ UNCHANGED <<saved, failed>>

(* INIT_MODE fails: outbuff is allocated and freed. *)
FileInitFails == /\ "init" \in MayFail
                 /\ failed' = TRUE
                 /\ UNCHANGED <<compress_fp, file, saved, outbuff>>

(* CLOSE_MODE: nothing to do if the file is closed already *)
Closed(w) == /\ compress_fp' = [compress_fp EXCEPT ![w] = "NULL"]
             /\ file' = [file EXCEPT ![w] = <<>>]
             /\ outbuff' = [outbuff EXCEPT ![w] = @ - 1]

FileClose(w) == IF compress_fp[w] = "open"
                THEN /\ Closed(w)
                     /\ saved' = [saved EXCEPT ![w] = Append(@, file[w])]
                     /\ UNCHANGED failed
                ELSE UNCHANGED files

Rolls(w) == Len(file[w]) > FileLimit

(* Bug: a file that is full is opened again instead of a new one. *)
PacketWrittenMutTruncates(w, k) ==
  /\ file' = [file EXCEPT ![w] = IF Rolls(w) THEN <<k>> ELSE Append(@, k)]
  /\ UNCHANGED <<compress_fp, saved, outbuff, failed>>

(* A packet is written, after UPDATE_MODE if the file is full. *)
PacketWritten(w, k) ==
  /\ IF Rolls(w)
       THEN /\ saved' = [saved EXCEPT ![w] = Append(@, file[w])]
            /\ file' = [file EXCEPT ![w] = <<k>>]
       ELSE /\ file' = [file EXCEPT ![w] = Append(@, k)]
            /\ UNCHANGED saved
  /\ UNCHANGED <<compress_fp, outbuff, failed>>

(* UPDATE_MODE fails when it ends the full file, which keeps its temporary  *)
(* name, or when it opens the next one.                                     *)
RollFails(w) == /\ "roll" \in MayFail /\ Rolls(w)
                /\ Closed(w)
                /\ saved' \in {saved, [saved EXCEPT ![w] = Append(@, file[w])]}
                /\ failed' = TRUE

(* Bug: the file is not closed here but only by pcap_proc_write, and        *)
(* outbuff is released twice.                                               *)
WriteFailsMutFreeTwice(w) ==
  /\ "write" \in MayFail
  /\ compress_fp' = [compress_fp EXCEPT ![w] = "NULL"]
  /\ file' = [file EXCEPT ![w] = <<>>]
  /\ outbuff' = [outbuff EXCEPT ![w] = @ - 2]
  /\ saved' = [saved EXCEPT ![w] = Append(@, file[w])]
  /\ failed' = TRUE

(* A packet is not written: CLOSE_MODE saves the file as it is. *)
WriteFails(w) == /\ "write" \in MayFail
                 /\ Closed(w)
                 /\ saved' = [saved EXCEPT ![w] = Append(@, file[w])]
                 /\ failed' = TRUE

-----------------------------------------------------------------------------
(* pcap_proc_write                                                         *)

WriteIdle(w) == /\ pc[w] = "proc"
                /\ capture_status = "idle" /\ status[w] = "idle"
                /\ Goto(w, "top")
                /\ UNCHANGED <<flags, count, status, core_status, ring, burst,
                               files, master>>

WriteStart(w) == /\ pc[w] = "proc"
                 /\ capture_status = "running" /\ status[w] = "idle"
                 /\ status' = [status EXCEPT ![w] = "running"]
                 /\ FileInit(w)
                 /\ Goto(w, "inc")
                 /\ UNCHANGED <<flags, count, core_status, ring, burst, master>>

(* slave_main ends when pcap_proc_write fails. *)
EndsThread(w) == /\ core_status' = [core_status EXCEPT ![w] = "stopped"]
                 /\ Goto(w, "gone")

WriteStartFails(w) == /\ pc[w] = "proc"
                      /\ capture_status = "running" /\ status[w] = "idle"
                      /\ FileInitFails
                      /\ EndsThread(w)
                      /\ UNCHANGED <<flags, count, status, ring, burst, master>>

WriteGoesOn(w) == /\ pc[w] = "proc"
                  /\ status[w] = "running"
                  /\ Goto(w, "dequeue")
                  /\ UNCHANGED <<flags, count, status, core_status, ring, burst,
                                 files, master>>

Dequeue(w) ==
  /\ pc[w] = "dequeue"
  /\ LET n == IF Len(cap_ring) < MaxBurst THEN Len(cap_ring) ELSE MaxBurst
     IN /\ bufs' = [bufs EXCEPT ![w] = SubSeq(cap_ring, 1, n)]
        /\ cap_ring' = SubSeq(cap_ring, n + 1, Len(cap_ring))
        /\ Goto(w, IF n = 0 THEN "empty" ELSE "write")
  /\ UNCHANGED <<flags, count, status, core_status, arrived, dropped, pos,
                 freed, files, master>>

(* The ring was empty: has the capture ended? *)
WriteStop(w) == /\ pc[w] = "empty"
                /\ IF capture_status = "idle"
                     THEN /\ status' = [status EXCEPT ![w] = "idle"]
                          /\ Goto(w, "dec")
                     ELSE /\ Goto(w, "top")
                          /\ UNCHANGED status
                /\ UNCHANGED <<flags, count, core_status, ring, burst, files,
                               master>>

WriteClose(w) == /\ pc[w] = "close"
                 /\ FileClose(w)
                 /\ Goto(w, "top")
                 /\ UNCHANGED <<flags, count, status, core_status, ring, burst,
                                master>>

WritePacket(w) == /\ pc[w] = "write"
                  /\ pos[w] < Len(bufs[w])
                  /\ PacketWritten(w, bufs[w][pos[w] + 1])
                  /\ pos' = [pos EXCEPT ![w] = @ + 1]
                  /\ UNCHANGED <<flags, count, status, core_status, pc, ring,
                                 bufs, freed, master>>

FreeBurst(w) == /\ freed' = [k \in Packets |->
                      freed[k] + IF Contains(bufs[w], k) THEN 1 ELSE 0]
                /\ bufs' = [bufs EXCEPT ![w] = <<>>]
                /\ pos' = [pos EXCEPT ![w] = 0]

WriteDone(w) == /\ pc[w] = "write"
                /\ pos[w] = Len(bufs[w])
                /\ FreeBurst(w)
                /\ Goto(w, "top")
                /\ UNCHANGED <<flags, count, status, core_status, ring, files,
                               master>>

(* The rest of the burst is released unwritten; start_up_cnt stays. *)
WritePacketFails(w) == /\ pc[w] = "write"
                       /\ pos[w] < Len(bufs[w])
                       /\ RollFails(w) \/ WriteFails(w)
                       /\ status' = [status EXCEPT ![w] = "idle"]
                       /\ FreeBurst(w)
                       /\ EndsThread(w)
                       /\ UNCHANGED <<flags, count, ring, master>>

pcap_proc_write(w) ==
  \/ WriteIdle(w) \/ WriteStart(w) \/ WriteStartFails(w) \/ WriteGoesOn(w)
  \/ Dequeue(w) \/ WriteStop(w) \/ WriteClose(w)
  \/ WritePacket(w) \/ WriteDone(w) \/ WritePacketFails(w)
  \/ IncLoad(w) \/ IncStore(w, "dequeue")
  \/ DecLoad(w, "close") \/ DecStore(w, "close")

-----------------------------------------------------------------------------
(* The master                                                              *)

AllCores(s) == core_status' = [t \in Threads |-> s]

(* check_core_status_wait(IDLING), then all slaves run *)
Started == /\ mpc = "boot"
           /\ \A t \in Threads : core_status[t] = "idling"
           /\ AllCores("running")
           /\ mpc' = "loop"
           /\ UNCHANGED <<flags, count, status, pc, ring, burst, files,
                          mstatus, commands, stopreq>>

(* The slaves were not all idle within SPP_CORE_STATUS_CHECK_MAX seconds. *)
StartTimeout == /\ mpc = "boot"
                /\ \E t \in Threads : core_status[t] # "idling"
                /\ mpc' = "final" /\ mstatus' = "stopped"
                /\ UNCHANGED <<flags, count, status, core_status, pc, ring,
                               burst, files, commands, stopreq>>

(* sppwk_run_cmd: a command is taken, and then has its effect. *)
TakeCommand == /\ mpc = "loop" /\ mstatus # "reqstop"
               /\ commands < NCommands
               /\ commands' = commands + 1
               /\ mpc' = "command"
               /\ UNCHANGED <<flags, count, status, core_status, pc, ring,
                              burst, files, mstatus, stopreq>>

(* start and stop, in send_command_result_response *)
StartStop(request) == /\ mpc = "command"
                      /\ capture_request' = request
                      /\ mpc' = "loop"
                      /\ UNCHANGED <<capture_status, count, status, core_status,
                                     pc, ring, burst, files, mstatus, commands,
                                     stopreq>>

Exit == /\ mpc = "command"
        /\ AllCores("reqstop")
        /\ stopreq' = "yes"
        /\ mpc' = "final" /\ mstatus' = "stopped"
        /\ UNCHANGED <<flags, count, status, pc, ring, burst, files, commands>>

(* stop_process, the handler of SIGINT and SIGTERM.  Requests that come     *)
(* while the slaves start are overwritten.                                  *)
stop_process == /\ stopreq = "none"
                /\ mpc \in {"boot", "loop", "command"}
                /\ mstatus' = "reqstop"
                /\ AllCores("reqstop")
                /\ stopreq' = IF mpc = "boot" THEN "early" ELSE "yes"
                /\ UNCHANGED <<flags, count, status, pc, ring, burst, files,
                               mpc, commands>>

LeaveLoop == /\ mpc = "loop" /\ mstatus = "reqstop"
             /\ mpc' = "final" /\ mstatus' = "stopped"
             /\ UNCHANGED <<flags, count, status, core_status, pc, ring, burst,
                            files, commands, stopreq>>

(* check_core_status_wait(STOPPED) *)
Finish == /\ mpc = "final"
          /\ \A t \in Threads : core_status[t] = "stopped"
          /\ mpc' = "end"
          /\ UNCHANGED <<flags, count, status, core_status, pc, ring, burst,
                         files, mstatus, commands, stopreq>>

(* The slaves did not all stop in time, or the status of one that had       *)
(* failed was overwritten by the request: the process ends all the same.    *)
FinishTimeout == /\ mpc = "final"
                 /\ \E t \in Threads : core_status[t] # "stopped"
                 /\ mpc' = "timeout"
                 /\ UNCHANGED <<flags, count, status, core_status, pc, ring,
                                burst, files, mstatus, commands, stopreq>>

Master == \/ Started \/ StartTimeout \/ TakeCommand
          \/ StartStop("running") \/ StartStop("idle") \/ Exit
          \/ stop_process \/ LeaveLoop \/ Finish \/ FinishTimeout

slave_main(t) == \/ Boot(t) \/ Leave(t) \/ Top(t)
                 \/ t = Receiver /\ pcap_proc_receive
                 \/ t \in Writers /\ pcap_proc_write(t)

Alive == mpc # "timeout"
Next == Alive /\ (Master \/ \E t \in Threads : slave_main(t))

Spec == Init /\ [][Next]_vars

(* Every slave has an lcore of its own and never blocks.  The master goes   *)
(* on with what it has begun; commands, signals and timeouts need not come. *)
FairSpec == /\ Spec
            /\ \A t \in Threads : WF_vars(Alive /\ slave_main(t))
            /\ WF_vars(Alive /\ (Started \/ LeaveLoop \/ Finish))

-----------------------------------------------------------------------------
(* Properties                                                              *)

(* Type correctness: the ring never holds more than RING_SIZE packets, and  *)
(* start_up_cnt, which is only decremented when it is not zero, is never    *)
(* negative in spite of the races on it.                                    *)
TypeOK ==
  /\ capture_request \in {"idle", "running"}
  /\ capture_status \in {"idle", "running"}
  /\ start_up_cnt \in Nat
  /\ reg \in [Threads -> Nat]
  /\ status \in [Threads -> {"idle", "running"}]
  /\ core_status \in [Threads -> {"stopped", "idling", "running", "reqstop"}]
  /\ pc \in [Threads -> {"boot", "top", "proc", "wait", "rx", "inc", "inc_store",
                         "dec", "dec_store", "dequeue", "empty", "write",
                         "close", "gone"}]
  /\ cap_ring \in Seq(Packets) /\ Len(cap_ring) <= RingSize
  /\ arrived \in 0 .. NPackets /\ dropped \subseteq Packets
  /\ bufs \in [Writers -> Seq(Packets)] /\ pos \in [Writers -> 0 .. MaxBurst]
  /\ freed \in [Packets -> Nat]
  /\ compress_fp \in [Writers -> {"NULL", "open"}]
  /\ file \in [Writers -> Seq(Packets)]
  /\ saved \in [Writers -> Seq(Seq(Packets))]
  /\ outbuff \in [Writers -> Int] /\ failed \in BOOLEAN
  /\ mpc \in {"boot", "loop", "command", "final", "end", "timeout"}
  /\ mstatus \in {"idling", "reqstop", "stopped"}
  /\ commands \in 0 .. NCommands /\ stopreq \in {"none", "early", "yes"}

Places(k) == Cardinality({i \in DOMAIN cap_ring : cap_ring[i] = k}) +
             Cardinality({w \in Writers : Contains(bufs[w], k)})

(* Every mbuf that was received is on the ring, in the burst of one writer, *)
(* or was released once - also when the ring is full and when a writer      *)
(* gives up in the middle of a burst.                                       *)
MbufsConserved ==
  \A k \in Packets : Places(k) + freed[k] = IF k <= arrived THEN 1 ELSE 0

Written(w) == FlattenSeq(saved[w]) \o file[w]

(* While no file operation fails, every packet that was released was either *)
(* dropped because the ring was full or is in exactly one file; and the     *)
(* files of a writer, one after the other, hold packets in the order they   *)
(* arrived.  This holds across stop, start and changes of file.             *)
CapturedOnceInOrder ==
  /\ \A w \in Writers : \A i, j \in DOMAIN Written(w) :
       i < j => Written(w)[i] < Written(w)[j]
  /\ ~failed => \A k \in Packets : freed[k] = 1 /\ k \notin dropped =>
       Cardinality({w \in Writers : Contains(Written(w), k)}) = 1

(* No error path of file_compression_operation and its callers frees        *)
(* outbuff twice, or leaves it allocated when the file is closed.           *)
OutbuffOwned ==
  \A w \in Writers : outbuff[w] = IF compress_fp[w] = "open" THEN 1 ELSE 0

(* A stop signal or exit command that comes when the slaves have started    *)
(* makes every slave leave its loop: the receiver ends the capture, and the *)
(* writers follow when the ring is empty - unless main gives up before.     *)
StopEnds == stopreq = "yes" ~>
              mpc = "timeout" \/ \A t \in Threads : pc[t] = "gone"

(* "If you start capturing, you can find each of writer threads has a       *)
(* capture file" (docs/guides/commands/secondary/spp_pcap.rst:118).         *)
StartOpensFiles == <>[](capture_request = "running" /\ mpc = "loop") =>
                     <>(failed \/ \A w \in Writers : compress_fp[w] = "open")
=============================================================================
