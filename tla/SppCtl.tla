------------------------------- MODULE SppCtl -------------------------------
(***************************************************************************)
(* The process registry of spp-ctl (src/spp-ctl/spp_ctl.py, spp_proc.py)   *)
(* and the command exchanges between spp-ctl and the SPP processes.        *)
(*                                                                         *)
(* spp-ctl is one operating system process of eventlet green threads: two  *)
(* acceptors (accept_primary, accept_secondary) and one thread per REST    *)
(* request.  A green thread gives up the processor only when it blocks: in *)
(* accept, in recv, or on the semaphore of a process object.  An action is *)
(* therefore everything a thread does from one such point to the next.     *)
(*                                                                         *)
(* An SPP process is named by its client id (the primary by Pri).  A       *)
(* connection <<i, n>> is the n-th one made by the process i; a process    *)
(* that dies or loses its connection connects again later.  A process      *)
(* object is named by the connection it was created with; connOf is its    *)
(* attribute `conn`, which only a reconnection of the primary changes.     *)
(* A reply arrives in one piece.                                           *)
(***************************************************************************)
EXTENDS Naturals, Sequences, FiniteSets

CONSTANTS
  Secs,        \* client ids of the secondary processes
  Pri,         \* ID_PRIMARY
  Reqs,        \* green threads that serve REST requests
  AccPri,      \* the green thread of accept_primary
  AccSec,      \* the green thread of accept_secondary
  None,
  MaxConns,    \* bound: connections a process makes
  MaxReqs      \* bound: REST requests made

ASSUME SppCtlAssumption ==
  /\ Pri \notin Secs
  /\ IsFiniteSet(Secs)
  /\ AccPri # AccSec /\ {AccPri, AccSec} \cap Reqs = {}
  /\ None \notin Reqs /\ None \notin (Secs \cup {Pri}) \X (1 .. MaxConns)
  /\ MaxConns \in Nat \ {0}
  /\ MaxReqs \in Nat

Ids == Secs \cup {Pri}
Conns == Ids \X (1 .. MaxConns)
Threads == Reqs \cup {AccPri, AccSec}
Ops == {"cmd", "exit", "procs", "cpu", "id"}

VARIABLES
  procs,     \* self.procs: id -> process object, or None
  connOf,    \* process object -> its connection
  sem,       \* process object -> the thread that holds its semaphore, or None
  closed,    \* connections spp-ctl has closed
  th,        \* the green threads
  backlog,   \* listening thread -> connections not accepted yet
  cmdq,      \* connection -> commands not read by the process
  repq,      \* connection -> replies not read by spp-ctl
  up,        \* ids of the processes that are connected
  made,      \* id -> connections made
  nreqs,     \* REST requests made
  exited     \* ids for which an exit was requested

vars == <<procs, connOf, sem, closed, th, backlog, cmdq, repq, up, made, nreqs,
          exited>>
peers == <<backlog, repq, up, made>>

Idle == [pc |-> "idle", op |-> "cmd", obj |-> None, conn |-> None,
         cur |-> None, seen |-> {}, size |-> 0, removed |-> <<>>]

Init ==
  /\ procs = [i \in Ids |-> None]
  /\ connOf = [c \in Conns |-> c]
  /\ sem = [c \in Conns |-> None]
  /\ closed = {}
  /\ th = [t \in Threads |-> Idle]
  /\ backlog = [t \in {AccPri, AccSec} |-> <<>>]
  /\ cmdq = [c \in Conns |-> <<>>]
  /\ repq = [c \in Conns |-> <<>>]
  /\ up = {}
  /\ made = [i \in Ids |-> 0]
  /\ nreqs = 0
  /\ exited = {}

Registered == {i \in Ids : procs[i] # None}
Alive(c) == c[1] \in up /\ made[c[1]] = c[2]
-----------------------------------------------------------------------------
(* The SPP processes.                                                      *)

\* A process is started, or one that lost its connection connects again.
Connect(i) ==
  LET l == IF i = Pri THEN AccPri ELSE AccSec IN
  /\ i \notin up
  /\ made[i] < MaxConns
  /\ up' = up \cup {i}
  /\ made' = [made EXCEPT ![i] = @ + 1]
  /\ backlog' = [backlog EXCEPT ![l] = Append(@, <<i, made[i] + 1>>)]
  /\ UNCHANGED <<procs, connOf, sem, closed, th, cmdq, repq, nreqs, exited>>

\* A process dies, or its connection breaks; a reply spp-ctl has not read may
\* be lost with it.
Disconnect(i) ==
  LET c == <<i, made[i]>> IN
  /\ i \in up
  /\ up' = up \ {i}
  /\ cmdq' = [cmdq EXCEPT ![c] = <<>>]
  /\ \/ repq' = repq
     \/ repq' = [repq EXCEPT ![c] = <<>>]
  /\ UNCHANGED <<procs, connOf, sem, closed, th, backlog, made, nreqs, exited>>

\* The process reads a command and answers; after an exit it ends.
Serve(i) ==
  LET c == <<i, made[i]>> IN
  /\ i \in up
  /\ cmdq[c] # <<>>
  /\ repq' = [repq EXCEPT ![c] = Append(@, Head(cmdq[c]))]
  /\ cmdq' = [cmdq EXCEPT ![c] = Tail(@)]
  /\ up' = IF Head(cmdq[c]).op = "exit" THEN up \ {i} ELSE up
  /\ UNCHANGED <<procs, connOf, sem, closed, th, backlog, made, nreqs, exited>>
-----------------------------------------------------------------------------
(* The exchange of a command and its reply: exec_command, _send_command.   *)

\* The commands in flight after thread t has sent one on connection c; what is
\* sent on a broken connection reaches nobody.
Sent(c, t, op) ==
  IF Alive(c) /\ c \notin closed
  THEN [cmdq EXCEPT ![c] = Append(@, [by |-> t, op |-> op])]
  ELSE cmdq

Waiting(o) == {t \in Threads : th[t].pc \in {"sem", "swap"} /\ th[t].obj = o}

\* Bug: the exchange is not serialized by the semaphore.
ExecMutNoSem(t, s, o, sm) ==
  /\ th' = [th EXCEPT ![t] = [s EXCEPT !.pc = "recv", !.obj = o,
                                       !.conn = connOf[o]]]
  /\ sem' = [sm EXCEPT ![o] = t]
  /\ cmdq' = Sent(connOf[o], t, s.op)

\* `with self.sem: sendall(command)`: the thread t, otherwise in state s, gets
\* the semaphore sm[o] at once and sends, or waits for it.
Exec(t, s, o, sm) ==
  IF sm[o] = None /\ Waiting(o) \ {t} = {}
  THEN /\ th' = [th EXCEPT ![t] = [s EXCEPT !.pc = "recv", !.obj = o,
                                            !.conn = connOf[o]]]
       /\ sem' = [sm EXCEPT ![o] = t]
       /\ cmdq' = Sent(connOf[o], t, s.op)
  ELSE /\ th' = [th EXCEPT ![t] = [s EXCEPT !.pc = "sem", !.obj = o]]
       /\ sem' = sm
       /\ UNCHANGED cmdq

\* A waiting request gets the semaphore and sends its command.
Wake(t) ==
  LET o == th[t].obj IN
  /\ th[t].pc = "sem"
  /\ sem[o] = None
  /\ th' = [th EXCEPT ![t].pc = "recv", ![t].conn = connOf[o]]
  /\ sem' = [sem EXCEPT ![o] = t]
  /\ cmdq' = Sent(connOf[o], t, th[t].op)
  /\ UNCHANGED <<procs, connOf, closed, peers, nreqs, exited>>

\* recv returns: a reply, or nothing because the connection is gone.
Answered(t) == th[t].pc = "recv" /\ repq[th[t].conn] # <<>>
Gone(t) ==
  LET c == th[t].conn IN
  th[t].pc = "recv" /\ repq[c] = <<>> /\ (~Alive(c) \/ c \in closed)
-----------------------------------------------------------------------------
(* Requests that walk over the registry: _update_procs, get_cpu_usage.     *)

\* The ids `del self.procs[idx]` removes, in order; the first one that is not
\* there any more raises KeyError and ends the loop.
Deleted(removed) ==
  {removed[k] : k \in {k \in DOMAIN removed :
                         \A j \in 1 .. k : removed[j] \in Registered}}

\* The scan goes on after an entry: dict.items() raises RuntimeError when the
\* dictionary has changed its size, else yields the next entry, else the
\* processes that could not be reached are removed.
Iterate(t, s, sm) ==
  \/ /\ Cardinality(Registered) # s.size
     /\ th' = [th EXCEPT ![t] = Idle]
     /\ sem' = sm
     /\ UNCHANGED <<procs, cmdq>>
  \/ /\ Cardinality(Registered) = s.size
     /\ \E i \in Registered \ s.seen :
          Exec(t, [s EXCEPT !.cur = i], procs[i], sm)
     /\ UNCHANGED procs
  \/ /\ Cardinality(Registered) = s.size
     /\ Registered \ s.seen = {}
     /\ procs' = [i \in Ids |-> IF i \in Deleted(s.removed) THEN None
                                ELSE procs[i]]
     /\ th' = [th EXCEPT ![t] = Idle]
     /\ sem' = sm
     /\ UNCHANGED cmdq

\* get_processes leaves the primary out of the scan, get_cpu_usage does not.
BeginScan(t, op) ==
  /\ th[t].pc = "idle"
  /\ nreqs < MaxReqs
  /\ nreqs' = nreqs + 1
  /\ Iterate(t, [Idle EXCEPT !.op = op, !.size = Cardinality(Registered),
                             !.seen = IF op = "procs" THEN {Pri} ELSE {}],
             sem)
  /\ UNCHANGED <<connOf, closed, peers, exited>>

\* Bug: a process that answered is noted as unreachable.
ContinueMutAlways(t, ok) ==
  LET s == th[t]
      sm == [sem EXCEPT ![s.obj] = None]
  IN IF s.op \in {"procs", "cpu"}
     THEN Iterate(t, [s EXCEPT !.seen = @ \cup {s.cur},
                               !.removed = Append(@, s.cur)], sm)
     ELSE /\ th' = [th EXCEPT ![t] = Idle]
          /\ sem' = sm
          /\ UNCHANGED <<procs, cmdq>>

\* What the thread does once its exchange is over: a scan goes on, and notes a
\* process that did not answer; any other request returns to its client.
Continue(t, ok) ==
  LET s == th[t]
      sm == [sem EXCEPT ![s.obj] = None]
  IN IF s.op \in {"procs", "cpu"}
     THEN Iterate(t, [s EXCEPT !.seen = @ \cup {s.cur},
                               !.removed = IF ok THEN @ ELSE Append(@, s.cur)],
                  sm)
     ELSE /\ th' = [th EXCEPT ![t] = Idle]
          /\ sem' = sm
          /\ UNCHANGED <<procs, cmdq>>

Reply(t) ==
  /\ Answered(t)
  /\ repq' = [repq EXCEPT ![th[t].conn] = Tail(@)]
  /\ Continue(t, TRUE)
  /\ UNCHANGED <<connOf, closed, backlog, up, made, nreqs, exited>>

\* Bug: an empty result of recv is taken for a reply yet to come.
FailMutRetries(t) == Gone(t) /\ UNCHANGED vars

Fail(t) ==
  /\ Gone(t)
  /\ Continue(t, FALSE)
  /\ UNCHANGED <<connOf, closed, peers, nreqs, exited>>
-----------------------------------------------------------------------------
(* Requests to one process.                                                *)

\* check_sec_id finds the process, and the handler calls one of its commands.
BeginCommand(t, i) ==
  /\ th[t].pc = "idle"
  /\ nreqs < MaxReqs
  /\ procs[i] # None
  /\ nreqs' = nreqs + 1
  /\ Exec(t, Idle, procs[i], sem)
  /\ UNCHANGED <<procs, connOf, closed, peers, exited>>

\* An exit request takes the process off the registry before it sends exit.
BeginExit(t, i) ==
  /\ th[t].pc = "idle"
  /\ nreqs < MaxReqs
  /\ procs[i] # None
  /\ nreqs' = nreqs + 1
  /\ procs' = [procs EXCEPT ![i] = None]
  /\ exited' = exited \cup {i}
  /\ Exec(t, [Idle EXCEPT !.op = "exit"], procs[i], sem)
  /\ UNCHANGED <<connOf, closed, peers>>
-----------------------------------------------------------------------------
(* The acceptors.                                                          *)

\* accept_primary: a first connection makes the process object; a later one
\* replaces the connection of the object, under its semaphore.
AcceptPrimary ==
  LET c == Head(backlog[AccPri])
      o == procs[Pri]
  IN /\ th[AccPri].pc = "idle"
     /\ backlog[AccPri] # <<>>
     /\ backlog' = [backlog EXCEPT ![AccPri] = Tail(@)]
     /\ IF o = None
        THEN /\ procs' = [procs EXCEPT ![Pri] = c]
             /\ UNCHANGED <<connOf, closed, th>>
        ELSE IF sem[o] = None /\ Waiting(o) = {}
        THEN /\ closed' = closed \cup {connOf[o]}
             /\ connOf' = [connOf EXCEPT ![o] = c]
             /\ UNCHANGED <<procs, th>>
        ELSE /\ th' = [th EXCEPT ![AccPri] = [Idle EXCEPT !.pc = "swap",
                                               !.obj = o, !.conn = c]]
             /\ UNCHANGED <<procs, connOf, closed>>
     /\ UNCHANGED <<sem, cmdq, repq, up, made, nreqs, exited>>

SwapPrimary ==
  LET o == th[AccPri].obj IN
  /\ th[AccPri].pc = "swap"
  /\ sem[o] = None
  /\ closed' = closed \cup {connOf[o]}
  /\ connOf' = [connOf EXCEPT ![o] = th[AccPri].conn]
  /\ th' = [th EXCEPT ![AccPri] = Idle]
  /\ UNCHANGED <<procs, sem, cmdq, peers, nreqs, exited>>

\* accept_secondary: the newcomer is asked for its client id.
AcceptSecondary ==
  LET c == Head(backlog[AccSec]) IN
  /\ th[AccSec].pc = "idle"
  /\ backlog[AccSec] # <<>>
  /\ backlog' = [backlog EXCEPT ![AccSec] = Tail(@)]
  /\ th' = [th EXCEPT ![AccSec] = [Idle EXCEPT !.pc = "recv", !.op = "id",
                                               !.conn = c]]
  /\ cmdq' = Sent(c, AccSec, "id")
  /\ UNCHANGED <<procs, connOf, sem, closed, repq, up, made, nreqs, exited>>

\* `self.procs[proc.id] = proc`, after the connection of the process object
\* that was registered under the id has been closed.
Register(c, o) ==
  /\ procs' = [procs EXCEPT ![c[1]] = c]
  /\ closed' = IF o = None THEN closed ELSE closed \cup {connOf[o]}
  /\ th' = [th EXCEPT ![AccSec] = Idle]

ReceiveId ==
  LET c == th[AccSec].conn
      o == procs[c[1]]
  IN /\ Answered(AccSec)
     /\ repq' = [repq EXCEPT ![c] = Tail(@)]
     /\ IF o = None \/ (sem[o] = None /\ Waiting(o) = {})
        THEN Register(c, o)
        ELSE /\ th' = [th EXCEPT ![AccSec].pc = "swap", ![AccSec].obj = o]
             /\ UNCHANGED <<procs, closed>>
     /\ UNCHANGED <<connOf, sem, cmdq, backlog, up, made, nreqs, exited>>

\* Bug: the acceptor keeps waiting for the client id.
NoIdMutRetries == Gone(AccSec) /\ UNCHANGED vars

\* _get_proc returned None: the connection is closed.
NoId ==
  /\ Gone(AccSec)
  /\ closed' = closed \cup {th[AccSec].conn}
  /\ th' = [th EXCEPT ![AccSec] = Idle]
  /\ UNCHANGED <<procs, connOf, sem, cmdq, peers, nreqs, exited>>

ReplaceSecondary ==
  /\ th[AccSec].pc = "swap"
  /\ sem[th[AccSec].obj] = None
  /\ Register(th[AccSec].conn, th[AccSec].obj)
  /\ UNCHANGED <<connOf, sem, cmdq, peers, nreqs, exited>>
-----------------------------------------------------------------------------
Request(t) ==
  \/ \E op \in {"procs", "cpu"} : BeginScan(t, op)
  \/ \E i \in Ids : BeginCommand(t, i) \/ BeginExit(t, i)

Proceed(t) == Wake(t) \/ Reply(t) \/ Fail(t)

accept_primary == AcceptPrimary \/ SwapPrimary

accept_secondary ==
  AcceptSecondary \/ ReceiveId \/ NoId \/ ReplaceSecondary

Next ==
  \/ \E i \in Ids : Connect(i) \/ Disconnect(i) \/ Serve(i)
  \/ \E t \in Reqs : Request(t) \/ Proceed(t)
  \/ accept_primary
  \/ accept_secondary

Spec == Init /\ [][Next]_vars

\* A connected process keeps answering (its command loop polls the socket);
\* the green threads are scheduled when what they wait for has happened.
FairSpec ==
  /\ Spec
  /\ \A i \in Ids : WF_vars(Serve(i))
  /\ \A t \in Reqs : WF_vars(Proceed(t))
  /\ WF_vars(accept_primary)
  /\ WF_vars(accept_secondary)
-----------------------------------------------------------------------------
(* Properties.                                                             *)

\* Type correctness.  A thread in an exchange knows its connection, and the
\* holder of a semaphore is in an exchange on that process object.
TypeOK ==
  /\ \A i \in Ids : procs[i] \in Conns \cup {None}
  /\ \A c \in Conns : connOf[c] \in Conns /\ sem[c] \in Threads \cup {None}
  /\ closed \subseteq Conns
  /\ up \subseteq Ids /\ exited \subseteq Ids
  /\ made \in [Ids -> 0 .. MaxConns]
  /\ nreqs \in 0 .. MaxReqs
  /\ \A t \in Threads :
       /\ th[t].pc \in {"idle", "sem", "recv", "swap"}
       /\ th[t].op \in Ops
       /\ th[t].pc = "recv" => th[t].conn \in Conns
       /\ th[t].pc = "sem" => th[t].obj \in Conns
  /\ \A c \in Conns : sem[c] # None => /\ th[sem[c]].pc = "recv"
                                      /\ th[sem[c]].obj = c

\* A thread that waits for a reply only ever finds its own on the connection
\* ("executing command is serialized by using a semaphore for each process",
\* spp_proc.py): whatever requests, reconnections and deaths interleave, the
\* commands and replies in flight on its connection are the thread's.
OwnReply ==
  \A t \in Threads : th[t].pc = "recv" =>
    LET c == th[t].conn IN
    \A k \in DOMAIN (cmdq[c] \o repq[c]) : (cmdq[c] \o repq[c])[k].by = t

\* A secondary that never lost its connection and was never told to exit
\* stays in the registry from the end of its handshake on, whatever status
\* scans run meanwhile (_update_procs removes processes that cannot be
\* reached).
SteadyStaysListed ==
  \A i \in Secs :
    LET c == <<i, 1>> IN
    (/\ Alive(c)
     /\ i \notin exited
     /\ ~\E k \in DOMAIN backlog[AccSec] : backlog[AccSec][k] = c
     /\ th[AccSec].conn # c) => procs[i] = c

\* Every REST request ends, as long as connected processes answer: no thread
\* waits for ever for a semaphore or for a reply of a dead process.
RequestsEnd ==
  \A t \in Reqs : (th[t].pc # "idle") ~> (th[t].pc = "idle")

\* A secondary that connects gets into the registry, or loses its connection:
\* accept_secondary is never stuck with an earlier newcomer or with the
\* process object it replaces.
ConnectedGetsListed ==
  \A c \in Secs \X (1 .. MaxConns) :
    (\E k \in DOMAIN backlog[AccSec] : backlog[AccSec][k] = c)
      ~> (procs[c[1]] = c \/ ~Alive(c))

\* "Remove no existing processes from `self.procs`" (spp_ctl.py:145): an id
\* that leaves the registry is one that was told to exit, or one whose process
\* cannot be reached.
RemovesOnlyGone ==
  [][\A i \in Secs : procs[i] # None /\ procs'[i] = None
       => i \in exited' \/ ~Alive(procs[i])]_vars
=============================================================================
