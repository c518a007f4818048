---------------------------- MODULE SppCtlProofs ----------------------------
(***************************************************************************)
(* For any processes, any number of connections and of requests: a thread  *)
(* that waits for a reply finds its own, whatever dies, reconnects or is   *)
(* replaced meanwhile; and a secondary that keeps its connection stays in  *)
(* the registry.                                                           *)
(***************************************************************************)
EXTENDS SppCtl, TLAPS

Acceptors == {AccPri, AccSec}
Msg == [by : Threads, op : Ops]

Fields == {"pc", "op", "obj", "conn", "cur", "seen", "size", "removed"}
IsThread(r) == Fields \subseteq DOMAIN r

(* Where a thread of each kind can be, and what it has there *)
ThreadsTyped ==
  /\ th = [t \in Threads |-> th[t]]
  /\ \A t \in Threads : IsThread(th[t]) /\ th[t].op \in Ops
  /\ \A t \in Reqs : /\ th[t].pc \in {"idle", "sem", "recv"}
                     /\ th[t].pc # "idle" => th[t].obj \in Conns
  /\ th[AccPri].pc \in {"idle", "swap"}
  /\ th[AccSec].pc \in {"idle", "recv", "swap"}
  /\ \A a \in Acceptors :
       /\ th[a].pc = "swap" => th[a].obj \in Conns
       /\ th[a].pc # "idle" => /\ th[a].conn \in Conns
                               /\ th[a].conn[1] = Pri <=> a = AccPri

Typed ==
  /\ procs \in [Ids -> Conns \cup {None}]
  /\ connOf \in [Conns -> Conns]
  /\ sem \in [Conns -> Reqs \cup {None}]
  /\ ThreadsTyped
  /\ backlog \in [Acceptors -> Seq(Conns)]
  /\ cmdq \in [Conns -> Seq(Msg)] /\ repq \in [Conns -> Seq(Msg)]
  /\ made \in [Ids -> Nat]
  /\ \A i \in up : <<i, made[i]>> \in Conns

(* The semaphore of a process object is held by the request that waits for  *)
(* a reply of it, on its connection.                                        *)
SemHeld ==
  /\ \A t \in Reqs : th[t].pc = "recv" => /\ sem[th[t].obj] = t
                                          /\ th[t].conn = connOf[th[t].obj]
  /\ \A o \in Conns : sem[o] # None => /\ th[sem[o]].pc = "recv"
                                       /\ th[sem[o]].obj = o

(* Connections that no process object has yet: those to come, those waiting *)
(* to be accepted, those an acceptor is dealing with.                       *)
InHand(c) == \/ \E a \in Acceptors : \E k \in DOMAIN backlog[a] : backlog[a][k] = c
             \/ \E a \in Acceptors : th[a].pc # "idle" /\ th[a].conn = c
             \/ c[2] > made[c[1]]

(* An acceptor has each of its connections once. *)
BacklogDistinct ==
  \A a \in Acceptors :
    /\ \A k \in DOMAIN backlog[a] : LET c == backlog[a][k] IN
         /\ c[2] <= made[c[1]]
         /\ c[1] = Pri <=> a = AccPri
         /\ th[a].pc # "idle" => th[a].conn # c
         /\ \A j \in DOMAIN backlog[a] : j # k => backlog[a][j] # c
    /\ th[a].pc # "idle" => th[a].conn[2] <= made[th[a].conn[1]]

(* Process objects that somebody can still use *)
Used(o) == \/ \E i \in Ids : procs[i] = o
           \/ \E t \in Threads : th[t].pc # "idle" /\ th[t].obj = o

(* They have connections of their own. *)
OwnConn ==
  /\ \A o \in Conns : Used(o) => ~InHand(o) /\ ~InHand(connOf[o])
  /\ \A o, p \in Conns : Used(o) /\ Used(p) /\ connOf[o] = connOf[p] => o = p
  /\ \A c \in Conns : InHand(c) => connOf[c] = c

(* In the states T of the threads, t waits for a reply on connection c. *)
OwnerIn(T, t, c) == T[t].pc = "recv" /\ T[t].conn = c
Owner(t, c) == OwnerIn(th, t, c)

(* At most one command or reply is on a connection, and the thread that     *)
(* sent the command waits for it; on a connection that is gone there are    *)
(* no commands.                                                             *)
OneMessage ==
  \A c \in Conns :
    /\ Len(cmdq[c]) + Len(repq[c]) <= 1
    /\ cmdq[c] # <<>> => Owner(cmdq[c][1].by, c)
    /\ repq[c] # <<>> => Owner(repq[c][1].by, c)
    /\ ~Alive(c) \/ c \in closed => cmdq[c] = <<>>

Inv == Typed /\ SemHeld /\ BacklogDistinct /\ OwnConn /\ OneMessage
-----------------------------------------------------------------------------
(* What a thread t that is not in an exchange, or has just ended one, leaves *)
(* to the others: the semaphores sm and the replies rq.                      *)
Quiet(t, sm, rq) ==
  /\ sm \in [Conns -> Reqs \cup {None}]
  /\ rq \in [Conns -> Seq(Msg)]
  /\ \A u \in Reqs \ {t} : th[u].pc = "recv" => /\ sm[th[u].obj] = u
                                              /\ th[u].conn = connOf[th[u].obj]
  /\ \A o \in Conns : sm[o] # None => /\ sm[o] # t
                                      /\ th[sm[o]].pc = "recv"
                                      /\ th[sm[o]].obj = o
  /\ \A c \in Conns :
       /\ Len(cmdq[c]) + Len(rq[c]) <= 1
       /\ cmdq[c] # <<>> => cmdq[c][1].by # t /\ Owner(cmdq[c][1].by, c)
       /\ rq[c] # <<>> => rq[c][1].by # t /\ Owner(rq[c][1].by, c)

(* Sequences. *)
LEMMA FirstOf ==
  ASSUME NEW S, NEW s \in Seq(S), s # <<>>
  PROVE  s[1] \in S /\ Len(s) >= 1 /\ 1 \in DOMAIN s
OBVIOUS

LEMMA OnlyOne ==
  ASSUME NEW S, NEW s \in Seq(S), NEW r \in Seq(S), r # <<>>,
         Len(s) + Len(r) <= 1
  PROVE  s = <<>> /\ Len(r) = 1 /\ Tail(r) = <<>>
<1>1. Len(r) \in Nat /\ Len(r) # 0 /\ Len(s) \in Nat
  OBVIOUS
<1>2. \A m, n \in Nat : n # 0 /\ m + n <= 1 => m = 0 /\ n = 1
  OBVIOUS
<1>3. Len(s) = 0 /\ Len(r) = 1
  BY Zenon, <1>1, <1>2
<1>4. s = <<>>
  BY <1>3
<1>5. Tail(r) \in Seq(S) /\ Len(Tail(r)) = 0
  BY <1>3
<1>6. Tail(r) = <<>>
  BY <1>5
<1> QED
  BY <1>3, <1>4, <1>6

LEMMA SenderOf ==
  ASSUME NEW s \in Seq(Msg), s # <<>>
  PROVE  s[1].by \in Threads
<1>1. s[1] \in Msg
  BY FirstOf
<1> QED
  BY <1>1 DEF Msg

(* Two threads never wait for a reply on the same connection. *)
LEMMA OneOwner ==
  ASSUME Inv, NEW t \in Threads, NEW u \in Threads, NEW c \in Conns,
         Owner(t, c), Owner(u, c)
  PROVE  t = u
<1>1. \A r \in Reqs : th[r].pc = "recv" =>
        /\ th[r].obj \in Conns /\ Used(th[r].obj)
        /\ th[r].conn = connOf[th[r].obj] /\ sem[th[r].obj] = r
        /\ ~InHand(th[r].conn)
  BY DEF Inv, Typed, ThreadsTyped, SemHeld, OwnConn, Used, Threads
<1>2. th[AccPri].pc # "recv"
  BY DEF Inv, Typed, ThreadsTyped
<1>3. th[AccSec].pc = "recv" => InHand(th[AccSec].conn)
  BY DEF InHand, Acceptors
<1> QED
  BY <1>1, <1>2, <1>3 DEF Owner, OwnerIn, Threads, Inv, OwnConn

(* A thread outside of an exchange has nothing in flight. *)
LEMMA QuietOutside ==
  ASSUME Inv, NEW t \in Threads, th[t].pc # "recv"
  PROVE  Quiet(t, sem, repq)
BY DEF Inv, Typed, SemHeld, OneMessage, Owner, OwnerIn, Quiet

(* Nothing is in flight for a process object whose semaphore is free. *)
LEMMA NoMessage ==
  ASSUME Inv, NEW t \in Threads, NEW sm, NEW rq, Quiet(t, sm, rq),
         NEW o \in Conns, Used(o), sm[o] = None
  PROVE  cmdq[connOf[o]] = <<>> /\ rq[connOf[o]] = <<>>
<1> DEFINE c == connOf[o]
<1>0. c \in Conns
  BY DEF Inv, Typed
<1>1. ASSUME NEW u \in Threads, u # t, Owner(u, c)
      PROVE  FALSE
  <2>1. CASE u \in Reqs
    <3>1. th[u].obj \in Conns /\ Used(th[u].obj) /\ connOf[th[u].obj] = c
          /\ sm[th[u].obj] = u
      BY ZenonT(60), <1>1, <2>1 DEF Inv, Typed, ThreadsTyped, Used, Quiet, Owner, OwnerIn
    <3>2. th[u].obj = o
      BY <3>1 DEF Inv, OwnConn
    <3> QED
      BY <2>1, <3>1, <3>2, SppCtlAssumption
  <2>2. CASE u = AccPri
    BY <1>1, <2>2 DEF Inv, Typed, ThreadsTyped, Owner, OwnerIn
  <2>3. CASE u = AccSec
    BY <1>1, <2>3 DEF Inv, OwnConn, InHand, Owner, OwnerIn, Acceptors
  <2> QED
    BY <2>1, <2>2, <2>3 DEF Threads
<1>2. cmdq[c] # <<>> => cmdq[c][1].by \in Threads
  BY <1>0, SenderOf DEF Inv, Typed
<1>3. rq[c] # <<>> => rq[c][1].by \in Threads
  BY <1>0, SenderOf DEF Quiet
<1> QED
  BY <1>0, <1>1, <1>2, <1>3 DEF Quiet

(* A thread whose reply has come has nothing else in flight. *)
LEMMA QuietAfterReply ==
  ASSUME Inv, NEW t \in Threads, Answered(t), th[t].conn \in Conns,
         NEW sm \in [Conns -> Reqs \cup {None}],
         \A o \in Conns : sm[o] # None => sm[o] = sem[o] /\ sm[o] # t,
         \A u \in Reqs \ {t} : th[u].pc = "recv" => sm[th[u].obj] = u
  PROVE  Quiet(t, sm, [repq EXCEPT ![th[t].conn] = Tail(@)])
<1> DEFINE c == th[t].conn
           rq == [repq EXCEPT ![c] = Tail(@)]
<1>1. cmdq[c] \in Seq(Msg) /\ repq[c] \in Seq(Msg) /\ repq[c] # <<>>
      /\ Len(cmdq[c]) + Len(repq[c]) <= 1
  BY DEF Inv, Typed, Answered, OneMessage
<1>2. cmdq[c] = <<>> /\ Tail(repq[c]) = <<>>
  BY Zenon, <1>1, OnlyOne
<1>3. rq \in [Conns -> Seq(Msg)]
  BY <1>1, <1>2 DEF Inv, Typed
<1>4. ASSUME NEW d \in Conns
      PROVE  /\ Len(cmdq[d]) + Len(rq[d]) <= 1
             /\ cmdq[d] # <<>> => cmdq[d][1].by # t /\ Owner(cmdq[d][1].by, d)
             /\ rq[d] # <<>> => rq[d][1].by # t /\ Owner(rq[d][1].by, d)
  <2>1. CASE d = c
    <3>1. rq[d] = <<>> /\ cmdq[d] = <<>>
      BY <1>2, <2>1 DEF Inv, Typed
    <3>2. Len(rq[d]) = 0 /\ Len(cmdq[d]) = 0
      BY Zenon, <3>1
    <3> HIDE DEF rq
    <3> QED
      BY <3>1, <3>2
  <2>2. CASE d # c
    BY <2>2 DEF Inv, Typed, OneMessage, Owner, OwnerIn
  <2> QED
    BY Zenon, <2>1, <2>2
<1> QED
  BY ZenonT(60), <1>3, <1>4 DEF Quiet, Inv, SemHeld

LEMMA QuietAfterFail ==
  ASSUME Inv, NEW t \in Threads, Gone(t), th[t].conn \in Conns,
         NEW sm \in [Conns -> Reqs \cup {None}],
         \A o \in Conns : sm[o] # None => sm[o] = sem[o] /\ sm[o] # t,
         \A u \in Reqs \ {t} : th[u].pc = "recv" => sm[th[u].obj] = u
  PROVE  Quiet(t, sm, repq)
<1>1. cmdq[th[t].conn] = <<>> /\ repq[th[t].conn] = <<>>
  BY Zenon DEF Inv, Gone, OneMessage
<1>2. ASSUME NEW d \in Conns
      PROVE  /\ Len(cmdq[d]) + Len(repq[d]) <= 1
             /\ cmdq[d] # <<>> => cmdq[d][1].by # t /\ Owner(cmdq[d][1].by, d)
             /\ repq[d] # <<>> => repq[d][1].by # t /\ Owner(repq[d][1].by, d)
  BY ZenonT(60), <1>1 DEF Inv, OneMessage, Owner, OwnerIn
<1> QED
  BY <1>2 DEF Quiet, Inv, SemHeld, Typed
-----------------------------------------------------------------------------
(* Where a request t goes from there: it ends, waits for the semaphore of a  *)
(* process object, or gets it and sends its command.                         *)
Goes(t, r, o, sm) ==
  /\ IsThread(r) /\ r.op \in Ops
  /\ th' = [th EXCEPT ![t] = r]
  /\ \/ r.pc = "idle" /\ sem' = sm /\ cmdq' = cmdq
     \/ /\ o \in Conns /\ Used(o) /\ r.obj = o
        /\ \/ r.pc = "sem" /\ sem' = sm /\ cmdq' = cmdq
           \/ /\ r.pc = "recv" /\ sm[o] = None /\ r.conn = connOf[o]
              /\ sem' = [sm EXCEPT ![o] = t]
              /\ cmdq' = Sent(connOf[o], t, r.op)

(* A thread that is not an acceptor leaves the connections alone; if it uses *)
(* no new object, objects keep connections of their own.                     *)
LEMMA KeepsConns ==
  ASSUME Inv, UNCHANGED <<connOf, backlog, made>>,
         \A a \in Acceptors : th'[a] = th[a],
         \A o \in Conns : Used(o)' => Used(o)
  PROVE  BacklogDistinct' /\ OwnConn'
<1>1. BacklogDistinct'
  BY DEF Inv, BacklogDistinct
<1>2. ASSUME NEW c PROVE InHand(c)' <=> InHand(c)
  BY DEF InHand
<1>3. OwnConn'
  BY <1>2 DEF Inv, OwnConn
<1> QED
  BY <1>1, <1>3

(* What the others have in flight on a connection stays theirs. *)
LEMMA OthersKeep ==
  ASSUME Inv, NEW t \in Threads, NEW sm, NEW rq, Quiet(t, sm, rq),
         NEW T, \A u \in Threads \ {t} : T[u] = th[u],
         NEW d \in Conns
  PROVE  /\ Len(cmdq[d]) + Len(rq[d]) <= 1
         /\ cmdq[d] # <<>> => OwnerIn(T, cmdq[d][1].by, d)
         /\ rq[d] # <<>> => OwnerIn(T, rq[d][1].by, d)
<1>1. /\ Len(cmdq[d]) + Len(rq[d]) <= 1
      /\ cmdq[d] # <<>> => cmdq[d][1].by # t /\ OwnerIn(th, cmdq[d][1].by, d)
      /\ rq[d] # <<>> => rq[d][1].by # t /\ OwnerIn(th, rq[d][1].by, d)
  BY DEF Quiet, Owner
<1>2. cmdq[d] # <<>> => cmdq[d][1].by \in Threads
  BY SenderOf DEF Inv, Typed
<1>3. rq[d] # <<>> => rq[d][1].by \in Threads
  BY SenderOf DEF Quiet
<1>4. \A u \in Threads \ {t} : OwnerIn(th, u, d) => OwnerIn(T, u, d)
  BY DEF OwnerIn
<1> QED
  BY Zenon, <1>1, <1>2, <1>3, <1>4

(* A command is sent on a connection that carries none. *)
LEMMA SentOf ==
  ASSUME Inv, NEW c \in Conns, cmdq[c] = <<>>, NEW t \in Threads,
         NEW op \in Ops, cmdq' = Sent(c, t, op)
  PROVE  /\ cmdq' \in [Conns -> Seq(Msg)]
         /\ \A d \in Conns \ {c} : cmdq'[d] = cmdq[d]
         /\ \/ cmdq'[c] = <<>>
            \/ cmdq'[c] = <<[by |-> t, op |-> op]>> /\ Alive(c) /\ c \notin closed
<1> DEFINE m == [by |-> t, op |-> op]
<1>1. m \in Msg
  BY DEF Msg
<1>2. CASE Alive(c) /\ c \notin closed
  <2>1. cmdq' = [cmdq EXCEPT ![c] = Append(@, m)]
    BY <1>2 DEF Sent
  <2> HIDE DEF m
  <2>2. Append(cmdq[c], m) = <<m>> /\ <<m>> \in Seq(Msg)
    BY <1>1
  <2>3. cmdq' = [cmdq EXCEPT ![c] = <<m>>]
    BY <2>1, <2>2 DEF Inv, Typed
  <2> QED
    BY <1>2, <2>2, <2>3 DEF Inv, Typed, m
<1>3. CASE ~(Alive(c) /\ c \notin closed)
  BY <1>3 DEF Sent, Inv, Typed
<1> QED
  BY <1>2, <1>3

LEMMA Resume ==
  ASSUME Inv, NEW t \in Reqs, NEW sm, NEW r, NEW o, Quiet(t, sm, repq'),
         Goes(t, r, o, sm),
         procs' \in [Ids -> Conns \cup {None}],
         \A i \in Ids : procs'[i] \in {procs[i], None},
         UNCHANGED <<connOf, closed, backlog, up, made>>
  PROVE  Inv'
<1>0. t \in Threads /\ t \notin Acceptors /\ Acceptors \subseteq Threads /\ t # None
  BY SppCtlAssumption DEF Threads, Acceptors
<1>1. th'[t] = r /\ \A u \in Threads \ {t} : th'[u] = th[u]
  BY <1>0 DEF Goes, Inv, Typed, ThreadsTyped
<1>2. ThreadsTyped'
  <2>1. th' = [u \in Threads |-> th'[u]]
    BY DEF Goes, Inv, Typed, ThreadsTyped
  <2>2. r.pc \in {"idle", "sem", "recv"} /\ (r.pc # "idle" => r.obj \in Conns)
    BY DEF Goes
  <2>3. \A u \in Threads : IsThread(th'[u]) /\ th'[u].op \in Ops
    BY <1>1 DEF Goes, Inv, Typed, ThreadsTyped
  <2>4. \A u \in Reqs : /\ th'[u].pc \in {"idle", "sem", "recv"}
                        /\ th'[u].pc # "idle" => th'[u].obj \in Conns
    <3> TAKE u \in Reqs
    <3>1. CASE u = t
      BY <1>1, <2>2, <3>1
    <3>2. CASE u # t
      <4>1. th'[u] = th[u]
        BY <1>1, <3>2 DEF Threads
      <4> QED
        BY Zenon, <4>1 DEF Inv, Typed, ThreadsTyped
    <3> QED
      BY <3>1, <3>2
  <2>5. \A a \in Acceptors : th'[a] = th[a]
    BY <1>0, <1>1
  <2> QED
    BY ZenonT(60), <2>1, <2>3, <2>4, <2>5 DEF Inv, Typed, ThreadsTyped, IsThread, Acceptors
<1>3. CASE r.pc = "recv"
  <2> DEFINE c == connOf[o]
  <2>0. /\ o \in Conns /\ Used(o) /\ r.obj = o /\ sm[o] = None /\ r.conn = c
        /\ sem' = [sm EXCEPT ![o] = t] /\ cmdq' = Sent(c, t, r.op) /\ r.op \in Ops
    BY <1>3 DEF Goes
  <2>1. c \in Conns /\ cmdq[c] = <<>> /\ repq'[c] = <<>>
    BY <1>0, <2>0, NoMessage DEF Inv, Typed
  <2>2. sem' \in [Conns -> Reqs \cup {None}] /\ sem'[o] = t
        /\ \A p \in Conns \ {o} : sem'[p] = sm[p]
    BY <2>0 DEF Quiet
  <2>3. /\ cmdq' \in [Conns -> Seq(Msg)]
        /\ \A d \in Conns \ {c} : cmdq'[d] = cmdq[d]
        /\ \/ cmdq'[c] = <<>>
           \/ cmdq'[c] = <<[by |-> t, op |-> r.op]>> /\ Alive(c) /\ c \notin closed
    BY ZenonT(60), <1>0, <2>0, <2>1, SentOf
  <2>4. Typed'
    BY ZenonT(60), <1>2, <2>2, <2>3 DEF Inv, Typed, Quiet
  <2>5. SemHeld'
    <3>1. ASSUME NEW u \in Reqs, th'[u].pc = "recv"
          PROVE  sem'[th'[u].obj] = u /\ th'[u].conn = connOf'[th'[u].obj]
      <4>1. CASE u = t
        BY <1>1, <2>0, <2>2, <4>1
      <4>2. CASE u # t
        <5>1. th'[u] = th[u] /\ th[u].obj \in Conns /\ sm[th[u].obj] = u
              /\ th[u].conn = connOf[th[u].obj] /\ u # None
          BY ZenonT(60), <1>1, <3>1, <4>2, SppCtlAssumption
          DEF Quiet, Threads, Inv, Typed, ThreadsTyped
        <5> QED
          BY <5>1, <2>0, <2>2
      <4> QED
        BY <4>1, <4>2
    <3>2. ASSUME NEW p \in Conns, sem'[p] # None
          PROVE  th'[sem'[p]].pc = "recv" /\ th'[sem'[p]].obj = p
      <4>1. CASE p = o
        BY <1>1, <1>3, <2>0, <2>2, <4>1
      <4>2. CASE p # o
        <5>1. sem'[p] = sm[p] /\ sm[p] # t /\ sm[p] \in Reqs
              /\ th[sm[p]].pc = "recv" /\ th[sm[p]].obj = p
          BY <2>2, <3>2, <4>2 DEF Quiet
        <5> QED
          BY <1>1, <5>1 DEF Threads
      <4> QED
        BY <4>1, <4>2
    <3> QED
      BY <3>1, <3>2 DEF SemHeld
  <2>6. BacklogDistinct' /\ OwnConn'
    <3>1. \A p \in Conns : Used(p)' => Used(p)
      BY <1>0, <1>1, <2>0, SppCtlAssumption DEF Used, Conns, Ids
    <3> QED
      BY <1>0, <1>1, <3>1, KeepsConns
  <2>7. OneMessage'
    <3> SUFFICES ASSUME NEW d \in Conns
                 PROVE  /\ Len(cmdq'[d]) + Len(repq'[d]) <= 1
                        /\ cmdq'[d] # <<>> => OwnerIn(th', cmdq'[d][1].by, d)
                        /\ repq'[d] # <<>> => OwnerIn(th', repq'[d][1].by, d)
                        /\ ~Alive(d)' \/ d \in closed' => cmdq'[d] = <<>>
      BY Zenon DEF OneMessage, Owner, OwnerIn
    <3>1. Alive(d)' <=> Alive(d)
      BY ZenonT(60) DEF Alive
    <3>2. CASE d = c
      <4>1. repq'[d] = <<>> /\ Len(repq'[d]) = 0
        BY <2>1, <3>2
      <4>2. CASE cmdq'[c] = <<>>
        BY <3>2, <4>1, <4>2
      <4>3. CASE cmdq'[c] = <<[by |-> t, op |-> r.op]>> /\ Alive(c) /\ c \notin closed
        <5>1. Len(cmdq'[d]) = 1 /\ cmdq'[d][1].by = t
          BY <3>2, <4>3
        <5>2. OwnerIn(th', t, d)
          BY <1>1, <1>3, <2>0, <3>2 DEF Owner, OwnerIn
        <5> QED
          BY <3>1, <3>2, <4>1, <4>3, <5>1, <5>2
      <4> QED
        BY <2>3, <4>2, <4>3
    <3>3. CASE d # c
      <4>1. cmdq'[d] = cmdq[d]
        BY <2>3, <3>3
      <4>2. ~Alive(d) \/ d \in closed => cmdq[d] = <<>>
        BY Zenon DEF Inv, OneMessage
      <4> QED
        BY ZenonT(60), <1>0, <1>1, <3>1, <4>1, <4>2, OthersKeep
    <3> QED
      BY Zenon, <3>2, <3>3
  <2> QED
    BY <2>4, <2>5, <2>6, <2>7 DEF Inv
<1>4. CASE r.pc # "recv"
  <2>0. sem' = sm /\ cmdq' = cmdq
        /\ (r.pc # "idle" => r.obj \in Conns /\ Used(r.obj))
    BY ZenonT(60), <1>4 DEF Goes
  <2>1. Typed'
    BY ZenonT(60), <1>2, <2>0 DEF Inv, Typed, Quiet
  <2>2. SemHeld'
    <3>1. \A u \in Reqs : th'[u].pc = "recv" => u # t /\ th'[u] = th[u]
      BY ZenonT(60), <1>1, <1>4 DEF Threads
    <3>2. \A p \in Conns : sm[p] # None => sm[p] \in Reqs /\ th'[sm[p]] = th[sm[p]]
      BY <1>1 DEF Quiet, Threads
    <3>3. ASSUME NEW u \in Reqs, th'[u].pc = "recv"
          PROVE  sem'[th'[u].obj] = u /\ th'[u].conn = connOf'[th'[u].obj]
      BY ZenonT(60), <2>0, <3>1, <3>3 DEF Quiet
    <3>4. ASSUME NEW p \in Conns, sem'[p] # None
          PROVE  th'[sem'[p]].pc = "recv" /\ th'[sem'[p]].obj = p
      BY <2>0, <3>2, <3>4 DEF Quiet
    <3> QED
      BY <3>3, <3>4 DEF SemHeld
  <2>3. BacklogDistinct' /\ OwnConn'
    <3>1. \A p \in Conns : Used(p)' => Used(p)
      BY <1>0, <1>1, <2>0, SppCtlAssumption DEF Used, Conns, Ids
    <3> QED
      BY <1>0, <1>1, <3>1, KeepsConns
  <2>4. OneMessage'
    <3> SUFFICES ASSUME NEW d \in Conns
                 PROVE  /\ Len(cmdq'[d]) + Len(repq'[d]) <= 1
                        /\ cmdq'[d] # <<>> => OwnerIn(th', cmdq'[d][1].by, d)
                        /\ repq'[d] # <<>> => OwnerIn(th', repq'[d][1].by, d)
                        /\ ~Alive(d)' \/ d \in closed' => cmdq'[d] = <<>>
      BY Zenon DEF OneMessage, Owner, OwnerIn
    <3>1. Alive(d)' <=> Alive(d)
      BY DEF Alive
    <3>2. ~Alive(d) \/ d \in closed => cmdq[d] = <<>>
      BY Zenon DEF Inv, OneMessage
    <3> QED
      BY Zenon, <1>0, <1>1, <2>0, <3>1, <3>2, OthersKeep
  <2> QED
    BY <2>1, <2>2, <2>3, <2>4 DEF Inv
<1> QED
  BY <1>3, <1>4
-----------------------------------------------------------------------------
(* The requests. *)
LEMMA IdleThread ==
  /\ IsThread(Idle) /\ Idle.op \in Ops /\ Idle.pc = "idle"
  /\ IsThread([Idle EXCEPT !.op = "exit"])
  /\ [Idle EXCEPT !.op = "exit"].op \in Ops
BY DEF IsThread, Fields, Idle, Ops

LEMMA RegisteredUsed ==
  ASSUME Inv, NEW i \in Ids, procs[i] # None
  PROVE  procs[i] \in Conns /\ Used(procs[i])
BY DEF Inv, Typed, Used

LEMMA ExecGoes ==
  ASSUME Inv, NEW t \in Reqs, NEW s, IsThread(s), s.op \in Ops,
         NEW o \in Conns, Used(o), NEW sm, Exec(t, s, o, sm)
  PROVE  \E r : Goes(t, r, o, sm)
<1>1. CASE sm[o] = None /\ Waiting(o) \ {t} = {}
  <2> DEFINE r == [s EXCEPT !.pc = "recv", !.obj = o, !.conn = connOf[o]]
  <2>1. /\ th' = [th EXCEPT ![t] = r] /\ sem' = [sm EXCEPT ![o] = t]
        /\ cmdq' = Sent(connOf[o], t, s.op)
    BY <1>1 DEF Exec
  <2>2. IsThread(r) /\ r.op = s.op /\ r.pc = "recv" /\ r.obj = o /\ r.conn = connOf[o]
    BY DEF IsThread, Fields
  <2> HIDE DEF r
  <2>3. Goes(t, r, o, sm)
    BY <1>1, <2>1, <2>2 DEF Goes
  <2> QED
    BY <2>3
<1>2. CASE ~(sm[o] = None /\ Waiting(o) \ {t} = {})
  <2> DEFINE r == [s EXCEPT !.pc = "sem", !.obj = o]
  <2>1. th' = [th EXCEPT ![t] = r] /\ sem' = sm /\ cmdq' = cmdq
    BY <1>2 DEF Exec
  <2>2. IsThread(r) /\ r.op = s.op /\ r.pc = "sem" /\ r.obj = o
    BY DEF IsThread, Fields
  <2> HIDE DEF r
  <2>3. Goes(t, r, o, sm)
    BY <2>1, <2>2 DEF Goes
  <2> QED
    BY <2>3
<1> QED
  BY <1>1, <1>2

LEMMA EndGoes ==
  ASSUME NEW t \in Reqs, NEW sm, th' = [th EXCEPT ![t] = Idle], sem' = sm,
         cmdq' = cmdq
  PROVE  Goes(t, Idle, None, sm)
BY IdleThread DEF Goes

LEMMA IterateGoes ==
  ASSUME Inv, NEW t \in Reqs, NEW s, IsThread(s), s.op \in Ops, NEW sm,
         Iterate(t, s, sm)
  PROVE  /\ \E r, o : Goes(t, r, o, sm)
         /\ procs' \in [Ids -> Conns \cup {None}]
         /\ \A i \in Ids : procs'[i] \in {procs[i], None}
<1>1. CASE /\ th' = [th EXCEPT ![t] = Idle]
           /\ sem' = sm
           /\ UNCHANGED <<procs, cmdq>>
  BY Zenon, <1>1, EndGoes DEF Inv, Typed
<1>2. CASE /\ \E i \in Registered \ s.seen : Exec(t, [s EXCEPT !.cur = i], procs[i], sm)
           /\ UNCHANGED procs
  <2>1. PICK i \in Registered \ s.seen : Exec(t, [s EXCEPT !.cur = i], procs[i], sm)
    BY <1>2
  <2>2. procs[i] \in Conns /\ Used(procs[i])
    BY <2>1, RegisteredUsed DEF Registered
  <2> DEFINE q == [s EXCEPT !.cur = i]
  <2>3. IsThread(q) /\ q.op \in Ops
    BY DEF IsThread, Fields
  <2> HIDE DEF q
  <2>4. \E r : Goes(t, r, procs[i], sm)
    BY ZenonT(60), <2>1, <2>2, <2>3, ExecGoes DEF q
  <2> QED
    BY <1>2, <2>4 DEF Inv, Typed
<1>3. CASE /\ procs' = [i \in Ids |-> IF i \in Deleted(s.removed) THEN None ELSE procs[i]]
           /\ th' = [th EXCEPT ![t] = Idle]
           /\ sem' = sm
           /\ UNCHANGED cmdq
  <2>1. Goes(t, Idle, None, sm)
    BY Zenon, <1>3, EndGoes
  <2> QED
    BY <1>3, <2>1 DEF Inv, Typed
<1> QED
  BY <1>1, <1>2, <1>3 DEF Iterate

LEMMA BeginKeeps ==
  ASSUME Inv, NEW t \in Reqs, Request(t)
  PROVE  Inv'
<1>0. th[t].pc = "idle" /\ t \in Threads
  BY DEF Request, BeginScan, BeginCommand, BeginExit, Threads
<1>1. Quiet(t, sem, repq)
  BY <1>0, QuietOutside
<1>2. ASSUME NEW op \in {"procs", "cpu"}, BeginScan(t, op)
      PROVE  Inv'
  <2> DEFINE s == [Idle EXCEPT !.op = op, !.size = Cardinality(Registered),
                               !.seen = IF op = "procs" THEN {Pri} ELSE {}]
  <2>1. Iterate(t, s, sem) /\ UNCHANGED <<connOf, closed, backlog, up, made, repq>>
    BY <1>2 DEF BeginScan, peers
  <2>2. IsThread(s) /\ s.op \in Ops
    BY <1>2 DEF IsThread, Fields, Idle, Ops
  <2> HIDE DEF s
  <2>3. /\ \E r, o : Goes(t, r, o, sem)
        /\ procs' \in [Ids -> Conns \cup {None}]
        /\ \A i \in Ids : procs'[i] \in {procs[i], None}
    BY <2>1, <2>2, IterateGoes
  <2> QED
    BY <1>1, <2>1, <2>3, Resume
<1>3. ASSUME NEW i \in Ids, BeginCommand(t, i)
      PROVE  Inv'
  <2>1. \E r : Goes(t, r, procs[i], sem)
    BY <1>3, IdleThread, RegisteredUsed, ExecGoes DEF BeginCommand
  <2>2. UNCHANGED <<procs, connOf, closed, backlog, up, made, repq>>
    BY <1>3 DEF BeginCommand, peers
  <2>3. procs' \in [Ids -> Conns \cup {None}]
        /\ \A j \in Ids : procs'[j] \in {procs[j], None}
    BY <2>2 DEF Inv, Typed
  <2> QED
    BY <1>1, <2>1, <2>2, <2>3, Resume
<1>4. ASSUME NEW i \in Ids, BeginExit(t, i)
      PROVE  Inv'
  <2>1. \E r : Goes(t, r, procs[i], sem)
    BY Zenon, <1>4, IdleThread, RegisteredUsed, ExecGoes DEF BeginExit
  <2>2. UNCHANGED <<connOf, closed, backlog, up, made, repq>>
    BY <1>4 DEF BeginExit, peers
  <2>3. procs' \in [Ids -> Conns \cup {None}]
        /\ \A j \in Ids : procs'[j] \in {procs[j], None}
    BY <1>4 DEF BeginExit, Inv, Typed
  <2> QED
    BY <1>1, <2>1, <2>2, <2>3, Resume
<1> QED
  BY <1>2, <1>3, <1>4 DEF Request

(* Once the exchange is over. *)
LEMMA ContinueKeeps ==
  ASSUME Inv, NEW t \in Reqs, NEW ok \in BOOLEAN, Continue(t, ok),
         Quiet(t, [sem EXCEPT ![th[t].obj] = None], repq'),
         UNCHANGED <<connOf, closed, backlog, up, made>>
  PROVE  Inv'
<1> DEFINE sm == [sem EXCEPT ![th[t].obj] = None]
           s == [th[t] EXCEPT !.seen = @ \cup {th[t].cur},
                              !.removed = IF ok THEN @ ELSE Append(@, th[t].cur)]
<1>1. IsThread(th[t]) /\ th[t].op \in Ops
  BY Zenon DEF Inv, Typed, ThreadsTyped, Threads
<1>2. IsThread(s) /\ s.op \in Ops
  BY <1>1 DEF IsThread, Fields
<1>3. \/ Iterate(t, s, sm)
      \/ th' = [th EXCEPT ![t] = Idle] /\ sem' = sm /\ UNCHANGED <<procs, cmdq>>
  BY DEF Continue
<1> HIDE DEF s, sm
<1>4. Quiet(t, sm, repq')
  BY ZenonT(60) DEF sm
<1>5. CASE Iterate(t, s, sm)
  BY <1>2, <1>4, <1>5, IterateGoes, Resume
<1>6. CASE th' = [th EXCEPT ![t] = Idle] /\ sem' = sm /\ UNCHANGED <<procs, cmdq>>
  <2>1. Goes(t, Idle, None, sm)
    BY ZenonT(60), <1>6, EndGoes
  <2>2. procs' \in [Ids -> Conns \cup {None}]
        /\ \A i \in Ids : procs'[i] \in {procs[i], None}
    BY <1>6 DEF Inv, Typed
  <2> QED
    BY <1>4, <2>1, <2>2, Resume
<1> QED
  BY <1>3, <1>5, <1>6

LEMMA ProceedKeeps ==
  ASSUME Inv, NEW t \in Reqs, Proceed(t)
  PROVE  Inv'
<1>0. t \in Threads /\ IsThread(th[t]) /\ th[t].op \in Ops /\ t \notin Acceptors
      /\ (th[t].pc # "idle" => th[t].obj \in Conns)
  BY ZenonT(60), SppCtlAssumption DEF Inv, Typed, ThreadsTyped, Threads, Acceptors
<1>1. CASE Wake(t)
  <2> DEFINE o == th[t].obj
             r == [th[t] EXCEPT !.pc = "recv", !.conn = connOf[o]]
  <2>1. o \in Conns /\ Used(o) /\ sem[o] = None /\ th[t].pc = "sem"
    BY <1>0, <1>1 DEF Wake, Used
  <2>2. IsThread(r) /\ r.op = th[t].op /\ r.pc = "recv" /\ r.obj = o /\ r.conn = connOf[o]
    BY <1>0 DEF IsThread, Fields
  <2>3. th' = [th EXCEPT ![t] = r]
    <3>1. th = [u \in Threads |-> th[u]]
      BY DEF Inv, Typed, ThreadsTyped
    <3> QED
      BY Zenon, <1>0, <1>1, <3>1 DEF Wake, IsThread, Fields
  <2>4. sem' = [sem EXCEPT ![o] = t] /\ cmdq' = Sent(connOf[o], t, th[t].op)
        /\ UNCHANGED <<procs, connOf, closed, backlog, up, made, repq>>
    BY ZenonT(60), <1>1 DEF Wake, peers
  <2> HIDE DEF r
  <2>5. Goes(t, r, o, sem)
    BY ZenonT(60), <1>0, <2>1, <2>2, <2>3, <2>4 DEF Goes
  <2>6. Quiet(t, sem, repq')
    BY ZenonT(60), <1>0, <2>1, <2>4, QuietOutside
  <2>7. procs' \in [Ids -> Conns \cup {None}]
        /\ \A i \in Ids : procs'[i] \in {procs[i], None}
    BY <2>4 DEF Inv, Typed
  <2> QED
    BY <2>4, <2>5, <2>6, <2>7, Resume
<1>2. CASE Reply(t) \/ Fail(t)
  <2> DEFINE sm == [sem EXCEPT ![th[t].obj] = None]
  <2>1. /\ th[t].pc = "recv" /\ th[t].obj \in Conns /\ sem[th[t].obj] = t
        /\ th[t].conn = connOf[th[t].obj] /\ th[t].conn \in Conns
    <3>1. th[t].pc = "recv"
      BY ZenonT(60), <1>2 DEF Reply, Fail, Answered, Gone
    <3> QED
      BY <1>0, <3>1 DEF Inv, SemHeld, Typed
  <2>2. sm \in [Conns -> Reqs \cup {None}]
    BY ZenonT(60), <2>1 DEF Inv, Typed
  <2>3. \A p \in Conns : sm[p] # None => sm[p] = sem[p] /\ sm[p] # t
    BY ZenonT(60), <2>1 DEF Inv, Typed, SemHeld
  <2>4. \A u \in Reqs \ {t} : th[u].pc = "recv" => sm[th[u].obj] = u
    <3> TAKE u \in Reqs \ {t}
    <3> HAVE th[u].pc = "recv"
    <3>1. th[u].obj \in Conns /\ sem[th[u].obj] = u /\ u # t
      BY Zenon DEF Inv, Typed, ThreadsTyped, SemHeld
    <3> QED
      BY <2>1, <3>1 DEF Inv, Typed
  <2>5. CASE Reply(t)
    <3>1. Answered(t) /\ Continue(t, TRUE)
          /\ repq' = [repq EXCEPT ![th[t].conn] = Tail(@)]
          /\ UNCHANGED <<connOf, closed, backlog, up, made>>
      BY Zenon, <2>5 DEF Reply
    <3> HIDE DEF sm
    <3>2. Quiet(t, sm, repq')
      BY Zenon, <1>0, <2>1, <2>2, <2>3, <2>4, <3>1, QuietAfterReply
    <3> QED
      BY Zenon, <3>1, <3>2, ContinueKeeps DEF sm
  <2>6. CASE Fail(t)
    <3>1. Gone(t) /\ Continue(t, FALSE)
          /\ UNCHANGED <<connOf, closed, backlog, up, made, repq>>
      BY ZenonT(60), <2>6 DEF Fail, peers
    <3> HIDE DEF sm
    <3>2. Quiet(t, sm, repq')
      BY ZenonT(60), <1>0, <2>1, <2>2, <2>3, <2>4, <3>1, QuietAfterFail
    <3> QED
      BY Zenon, <3>1, <3>2, ContinueKeeps DEF sm
  <2> QED
    BY ZenonT(60), <1>2, <2>5, <2>6
<1> QED
  BY <1>1, <1>2 DEF Proceed
-----------------------------------------------------------------------------
(* The processes. *)
LEMMA ConnParts ==
  ASSUME NEW c \in Conns
  PROVE  c = <<c[1], c[2]>> /\ c[1] \in Ids /\ c[2] \in Nat
BY SppCtlAssumption DEF Conns

(* Facts of arithmetic and tuples, stated apart from the state. *)
LEMMA ConnRange ==
  ASSUME NEW c \in Conns
  PROVE  /\ c[2] \in 1 .. MaxConns
         /\ \A n \in Nat : c[2] <= n => n >= 1
         /\ \A n \in Nat : ~(c[2] > n) => c[2] <= n
         /\ c[2] <= 1 => c[2] = 1
BY SppCtlAssumption DEF Conns

LEMMA PairFirst == \A i : <<i, 1>>[1] = i
OBVIOUS

(* A sequence stays one over a set when a member is appended.               *)
LEMMA AppendIn ==
  ASSUME NEW S, NEW s \in Seq(S), NEW x \in S
  PROVE  Append(s, x) \in Seq(S)
OBVIOUS

LEMMA AppendOf ==
  ASSUME NEW S, NEW s \in Seq(S), NEW x \in S
  PROVE  /\ Append(s, x) \in Seq(S)
         /\ Len(Append(s, x)) = Len(s) + 1
         /\ \A k \in DOMAIN Append(s, x) :
              \/ k \in DOMAIN s /\ Append(s, x)[k] = s[k]
              \/ k \notin DOMAIN s /\ k = Len(s) + 1 /\ Append(s, x)[k] = x
         /\ \A k \in DOMAIN s : k \in DOMAIN Append(s, x) /\ Append(s, x)[k] = s[k]
         /\ Len(s) + 1 \in DOMAIN Append(s, x) /\ Append(s, x)[Len(s) + 1] = x
OBVIOUS

LEMMA ConnectKeeps ==
  ASSUME Inv, NEW i \in Ids, Connect(i)
  PROVE  Inv'
<1> DEFINE l == IF i = Pri THEN AccPri ELSE AccSec
           c == <<i, made[i] + 1>>
<1>0. /\ i \notin up /\ made[i] < MaxConns /\ up' = up \cup {i}
      /\ made' = [made EXCEPT ![i] = @ + 1]
      /\ backlog' = [backlog EXCEPT ![l] = Append(@, c)]
      /\ UNCHANGED <<procs, connOf, sem, closed, th, cmdq, repq>>
  BY DEF Connect
<1>1. /\ made[i] \in Nat /\ made'[i] = made[i] + 1 /\ made' \in [Ids -> Nat]
      /\ \A j \in Ids \ {i} : made'[j] = made[j]
  BY <1>0 DEF Inv, Typed
<1>2. c \in Conns /\ c[1] = i /\ c[2] = made[i] + 1
  BY <1>0, <1>1, SppCtlAssumption DEF Conns
<1>3. l \in Acceptors /\ backlog[l] \in Seq(Conns) /\ (i = Pri <=> l = AccPri)
  BY SppCtlAssumption DEF Acceptors, Inv, Typed
<1>4. /\ backlog' \in [Acceptors -> Seq(Conns)]
      /\ backlog'[l] = Append(backlog[l], c)
      /\ \A a \in Acceptors \ {l} : backlog'[a] = backlog[a]
  <2> HIDE DEF l, c
  <2>1. Append(backlog[l], c) \in Seq(Conns)
    BY ZenonT(60), <1>2, <1>3, AppendOf
  <2> QED
    BY <1>0, <1>3, <2>1 DEF Inv, Typed
<1>5. Typed'
  <2>1. ThreadsTyped'
    BY Zenon, <1>0 DEF Inv, Typed, ThreadsTyped
  <2>2. \A j \in up' : <<j, made'[j]>> \in Conns
    <3> TAKE j \in up'
    <3>1. CASE j = i
      BY ZenonT(60), <1>1, <1>2, <3>1
    <3>2. CASE j # i
      BY ZenonT(60), <1>0, <1>1, <3>2 DEF Inv, Typed, Conns
    <3> QED
      BY <3>1, <3>2
  <2> HIDE DEF l, c
  <2> QED
    BY <1>0, <1>1, <1>4, <2>1, <2>2 DEF Inv, Typed
<1>6. SemHeld'
  BY <1>0 DEF Inv, SemHeld
<1> HIDE DEF l, c
<1>7. \A d \in Conns : d[2] <= made[d[1]] => d # c /\ d[2] <= made'[d[1]]
  <2> TAKE d \in Conns
  <2>1. d[1] \in Ids /\ d[2] \in Nat /\ made[d[1]] \in Nat /\ made'[d[1]] \in Nat
    BY ZenonT(60), <1>1, ConnParts DEF Inv, Typed
  <2> QED
    BY <1>1, <1>2, <2>1
<1>8. BacklogDistinct'
  <2> SUFFICES ASSUME NEW a \in Acceptors
               PROVE  /\ \A k \in DOMAIN backlog'[a] :
                           /\ backlog'[a][k][2] <= made'[backlog'[a][k][1]]
                           /\ backlog'[a][k][1] = Pri <=> a = AccPri
                           /\ th'[a].pc # "idle" => th'[a].conn # backlog'[a][k]
                           /\ \A j \in DOMAIN backlog'[a] :
                                j # k => backlog'[a][j] # backlog'[a][k]
                      /\ th'[a].pc # "idle" => th'[a].conn[2] <= made'[th'[a].conn[1]]
    BY DEF BacklogDistinct
  <2>1. \A k \in DOMAIN backlog[a] : backlog[a][k] \in Conns
    BY DEF Inv, Typed
  <2>2. th[a].pc # "idle" => th[a].conn \in Conns
    BY ZenonT(60) DEF Inv, Typed, ThreadsTyped
  <2>3. \A k \in DOMAIN backlog[a] :
          /\ backlog[a][k][2] <= made[backlog[a][k][1]]
          /\ backlog[a][k][1] = Pri <=> a = AccPri
          /\ th[a].pc # "idle" => th[a].conn # backlog[a][k]
          /\ \A j \in DOMAIN backlog[a] : j # k => backlog[a][j] # backlog[a][k]
    BY ZenonT(60) DEF Inv, BacklogDistinct
  <2>4. th[a].pc # "idle" => th[a].conn[2] <= made[th[a].conn[1]]
    BY DEF Inv, BacklogDistinct
  <2>5. CASE a # l
    BY ZenonT(60), <1>0, <1>4, <1>7, <2>1, <2>2, <2>3, <2>4, <2>5
  <2>6. CASE a = l
    <3>1. \A k \in DOMAIN backlog'[a] :
            \/ k \in DOMAIN backlog[a] /\ backlog'[a][k] = backlog[a][k]
            \/ k \notin DOMAIN backlog[a] /\ k = Len(backlog[a]) + 1 /\ backlog'[a][k] = c
      <4>1. PICK s, x : s = backlog[l] /\ x = c /\ s \in Seq(Conns) /\ x \in Conns
        BY ZenonT(60), <1>2, <1>3
      <4>2. \A k \in DOMAIN Append(s, x) :
              \/ k \in DOMAIN s /\ Append(s, x)[k] = s[k]
              \/ k \notin DOMAIN s /\ k = Len(s) + 1 /\ Append(s, x)[k] = x
        BY <4>1, AppendOf
      <4>3. backlog'[a] = Append(s, x) /\ backlog[a] = s
        BY ZenonT(60), <1>4, <2>6, <4>1
      <4> QED
        BY ZenonT(60), <4>1, <4>2, <4>3
    <3>2. \A k \in DOMAIN backlog[a] : backlog[a][k] # c
      BY <1>7, <2>1, <2>3
    <3>3. c[2] <= made'[c[1]] /\ (c[1] = Pri <=> a = AccPri)
      BY <1>1, <1>2, <1>3, <2>6
    <3>4. th[a].pc # "idle" => th[a].conn # c /\ th[a].conn[2] <= made'[th[a].conn[1]]
      BY <1>7, <2>2, <2>4
    <3>5. th' = th
      BY ZenonT(60), <1>0
    <3>6. ASSUME NEW k \in DOMAIN backlog'[a]
          PROVE  /\ backlog'[a][k][2] <= made'[backlog'[a][k][1]]
                 /\ backlog'[a][k][1] = Pri <=> a = AccPri
                 /\ th[a].pc # "idle" => th[a].conn # backlog'[a][k]
      <4>1. CASE k \in DOMAIN backlog[a] /\ backlog'[a][k] = backlog[a][k]
        BY ZenonT(60), <1>7, <2>1, <2>3, <4>1
      <4>2. CASE backlog'[a][k] = c
        BY ZenonT(60), <3>3, <3>4, <4>2
      <4> QED
        BY ZenonT(60), <3>1, <4>1, <4>2
    <3>7. ASSUME NEW k \in DOMAIN backlog'[a], NEW j \in DOMAIN backlog'[a], j # k
          PROVE  backlog'[a][j] # backlog'[a][k]
      BY ZenonT(60), <2>3, <3>1, <3>2, <3>7
    <3> QED
      BY ZenonT(60), <3>4, <3>5, <3>6, <3>7
  <2> QED
    BY ZenonT(60), <2>5, <2>6
<1>9. OwnConn'
  <2>1. ASSUME NEW d \in Conns, InHand(d)'
        PROVE  InHand(d)
    <3>1. CASE d = c
      BY <1>1, <1>2, <3>1 DEF InHand
    <3>2. CASE d # c
      <4>1. d[2] > made'[d[1]] => d[2] > made[d[1]]
        <5>1. d[1] \in Ids /\ d[2] \in Nat /\ made[d[1]] \in Nat
          BY ZenonT(60), ConnParts DEF Inv, Typed
        <5> QED
          BY <1>1, <5>1
      <4>2. ASSUME NEW a \in Acceptors, NEW k \in DOMAIN backlog'[a], backlog'[a][k] = d
            PROVE  k \in DOMAIN backlog[a] /\ backlog[a][k] = d
        <5>1. CASE a # l
          BY ZenonT(60), <1>4, <4>2, <5>1
        <5>2. CASE a = l
          <6>1. PICK s, x : s = backlog[l] /\ x = c /\ s \in Seq(Conns) /\ x \in Conns
            BY ZenonT(60), <1>2, <1>3
          <6>2. \A j \in DOMAIN Append(s, x) :
                  \/ j \in DOMAIN s /\ Append(s, x)[j] = s[j]
                  \/ Append(s, x)[j] = x
            BY <6>1, AppendOf
          <6> QED
            BY ZenonT(60), <1>4, <3>2, <4>2, <5>2, <6>1, <6>2
        <5> QED
          BY Zenon, <5>1, <5>2
      <4> QED
        BY <1>0, <2>1, <4>1, <4>2 DEF InHand
    <3> QED
      BY <3>1, <3>2
  <2>2. \A o \in Conns : Used(o)' <=> Used(o)
    BY <1>0 DEF Used
  <2>3. \A o \in Conns : connOf[o] \in Conns
    BY DEF Inv, Typed
  <2> QED
    BY <1>0, <2>1, <2>2, <2>3 DEF Inv, OwnConn
<1>10. OneMessage'
  <2>1. ASSUME NEW d \in Conns, ~Alive(d)'
        PROVE  ~Alive(d)
    BY <1>0, <1>1, <2>1, ConnParts DEF Alive
  <2> QED
    BY Zenon, <1>0, <2>1 DEF Inv, OneMessage, Owner, OwnerIn
<1> QED
  BY <1>5, <1>6, <1>8, <1>9, <1>10 DEF Inv

LEMMA LenOf ==
  ASSUME NEW S, NEW s \in Seq(S), NEW r \in Seq(S), Len(s) + Len(r) <= 1
  PROVE  /\ Len(r) + Len(s) <= 1
         /\ Len(<<>>) = 0 /\ Len(<<>>) + Len(r) <= 1 /\ Len(<<>>) + Len(<<>>) <= 1
<1>1. Len(s) \in Nat /\ Len(r) \in Nat /\ Len(<<>>) = 0
  OBVIOUS
<1>2. \A m, n \in Nat : m + n <= 1 => n + m <= 1 /\ 0 + n <= 1
  OBVIOUS
<1> QED
  BY <1>1, <1>2

(* A process changes only what is in flight on its connection. *)
LEMMA PeerKeeps ==
  ASSUME Inv, UNCHANGED <<procs, connOf, sem, closed, th, backlog, made>>,
         up' \subseteq up,
         cmdq' \in [Conns -> Seq(Msg)], repq' \in [Conns -> Seq(Msg)],
         \A d \in Conns : /\ Len(cmdq'[d]) + Len(repq'[d]) <= 1
                          /\ cmdq'[d] # <<>> => Owner(cmdq'[d][1].by, d)
                          /\ repq'[d] # <<>> => Owner(repq'[d][1].by, d)
                          /\ ~Alive(d)' \/ d \in closed => cmdq'[d] = <<>>
  PROVE  Inv'
<1>1. ThreadsTyped'
  BY Zenon DEF Inv, Typed, ThreadsTyped
<1>2. Typed'
  BY <1>1 DEF Inv, Typed
<1>3. SemHeld'
  BY DEF Inv, SemHeld
<1>4. BacklogDistinct' /\ OwnConn'
  <2>1. \A o \in Conns : Used(o)' => Used(o)
    BY ZenonT(60) DEF Used
  <2> QED
    BY ZenonT(60), <2>1, KeepsConns
<1>5. OneMessage'
  BY ZenonT(60) DEF OneMessage, Owner, OwnerIn
<1> QED
  BY <1>2, <1>3, <1>4, <1>5 DEF Inv

LEMMA DisconnectKeeps ==
  ASSUME Inv, NEW i \in Ids, Disconnect(i)
  PROVE  Inv'
<1> DEFINE c == <<i, made[i]>>
<1>1. /\ up' = up \ {i} /\ c \in Conns
      /\ cmdq' = [cmdq EXCEPT ![c] = <<>>]
      /\ repq' = repq \/ repq' = [repq EXCEPT ![c] = <<>>]
      /\ UNCHANGED <<procs, connOf, sem, closed, th, backlog, made>>
  BY DEF Disconnect, Inv, Typed
<1>2. ASSUME NEW d \in Conns, d # c
      PROVE  Alive(d)' <=> Alive(d)
  BY <1>1, <1>2, ConnParts DEF Alive
<1> HIDE DEF c
<1>3. <<>> \in Seq(Msg)
  OBVIOUS
<1>4. cmdq' \in [Conns -> Seq(Msg)] /\ repq' \in [Conns -> Seq(Msg)]
  <2>1. cmdq \in [Conns -> Seq(Msg)] /\ repq \in [Conns -> Seq(Msg)]
    BY DEF Inv, Typed
  <2>2. CASE repq' = repq
    BY <1>1, <1>3, <2>1, <2>2
  <2>3. CASE repq' = [repq EXCEPT ![c] = <<>>]
    BY <1>1, <1>3, <2>1, <2>3
  <2> QED
    BY <1>1, <2>2, <2>3
<1>5. ASSUME NEW d \in Conns
      PROVE  /\ Len(cmdq'[d]) + Len(repq'[d]) <= 1
             /\ cmdq'[d] # <<>> => Owner(cmdq'[d][1].by, d)
             /\ repq'[d] # <<>> => Owner(repq'[d][1].by, d)
             /\ ~Alive(d)' \/ d \in closed => cmdq'[d] = <<>>
  <2>0. /\ cmdq[d] \in Seq(Msg) /\ repq[d] \in Seq(Msg)
        /\ Len(cmdq[d]) + Len(repq[d]) <= 1
        /\ cmdq[d] # <<>> => Owner(cmdq[d][1].by, d)
        /\ repq[d] # <<>> => Owner(repq[d][1].by, d)
        /\ ~Alive(d) \/ d \in closed => cmdq[d] = <<>>
    BY ZenonT(60) DEF Inv, Typed, OneMessage
  <2>1. CASE d = c
    <3>1. cmdq'[d] = <<>> /\ (repq'[d] = repq[d] \/ repq'[d] = <<>>)
      BY <1>1, <2>1 DEF Inv, Typed
    <3>2. Len(<<>>) + Len(repq[d]) <= 1 /\ Len(<<>>) + Len(<<>>) <= 1
      BY Zenon, <2>0, LenOf
    <3>3. Len(cmdq'[d]) + Len(repq'[d]) <= 1
      BY <3>1, <3>2
    <3> QED
      BY ZenonT(60), <2>0, <3>1, <3>3
  <2>2. CASE d # c
    <3>1. cmdq'[d] = cmdq[d] /\ repq'[d] = repq[d]
      BY ZenonT(60), <1>1, <2>2 DEF Inv, Typed
    <3> QED
      BY ZenonT(60), <1>2, <2>0, <2>2, <3>1
  <2> QED
    BY ZenonT(60), <2>1, <2>2
<1> QED
  BY ZenonT(60), <1>1, <1>4, <1>5, PeerKeeps

LEMMA ServeKeeps ==
  ASSUME Inv, NEW i \in Ids, Serve(i)
  PROVE  Inv'
<1> DEFINE c == <<i, made[i]>>
           h == Head(cmdq[c])
<1>1. /\ c \in Conns /\ cmdq[c] # <<>> /\ up' \in {up, up \ {i}}
      /\ repq' = [repq EXCEPT ![c] = Append(@, h)]
      /\ cmdq' = [cmdq EXCEPT ![c] = Tail(@)]
      /\ UNCHANGED <<procs, connOf, sem, closed, th, backlog, made>>
  BY DEF Serve, Inv, Typed
<1>2. ASSUME NEW d \in Conns, d # c
      PROVE  Alive(d)' <=> Alive(d)
  BY ZenonT(60), <1>1, <1>2, ConnParts DEF Alive
<1> HIDE DEF c
<1>3. cmdq[c] \in Seq(Msg) /\ repq[c] \in Seq(Msg)
      /\ Len(cmdq[c]) + Len(repq[c]) <= 1 /\ Owner(cmdq[c][1].by, c)
  BY <1>1 DEF Inv, Typed, OneMessage
<1>4. repq[c] = <<>> /\ Tail(cmdq[c]) = <<>>
  <2>1. Len(repq[c]) + Len(cmdq[c]) <= 1
    BY Zenon, <1>3, LenOf
  <2> QED
    BY Zenon, <1>1, <1>3, <2>1, OnlyOne
<1>5. h = cmdq[c][1] /\ h \in Msg
  BY <1>1, <1>3, FirstOf
<1> HIDE DEF h
<1>6. Append(repq[c], h) = <<h>> /\ <<h>> \in Seq(Msg) /\ <<>> \in Seq(Msg)
      /\ <<h>>[1] = h /\ Len(<<h>>) = 1 /\ Len(<<>>) = 0
  BY <1>4, <1>5
<1>7. /\ cmdq' \in [Conns -> Seq(Msg)] /\ repq' \in [Conns -> Seq(Msg)]
      /\ cmdq'[c] = <<>> /\ repq'[c] = <<h>>
      /\ \A d \in Conns \ {c} : cmdq'[d] = cmdq[d] /\ repq'[d] = repq[d]
  BY ZenonT(60), <1>1, <1>4, <1>6 DEF Inv, Typed
<1>8. ASSUME NEW d \in Conns
      PROVE  /\ Len(cmdq'[d]) + Len(repq'[d]) <= 1
             /\ cmdq'[d] # <<>> => Owner(cmdq'[d][1].by, d)
             /\ repq'[d] # <<>> => Owner(repq'[d][1].by, d)
             /\ ~Alive(d)' \/ d \in closed => cmdq'[d] = <<>>
  <2>1. CASE d = c
    <3>1. Len(cmdq'[d]) + Len(repq'[d]) <= 1 /\ repq'[d][1] = h
      <4>1. Len(cmdq'[d]) = 0 /\ Len(repq'[d]) = 1 /\ repq'[d][1] = h
        BY Zenon, <1>6, <1>7, <2>1
      <4> QED
        BY <4>1
    <3> QED
      BY <1>3, <1>5, <1>7, <2>1, <3>1
  <2>2. CASE d # c
    BY Zenon, <1>2, <1>7, <2>2 DEF Inv, OneMessage
  <2> QED
    BY Zenon, <2>1, <2>2
<1> QED
  BY ZenonT(60), <1>1, <1>7, <1>8, PeerKeeps
-----------------------------------------------------------------------------
(* The acceptors.  The acceptor a deals with connection c, which is in hand  *)
(* until a is idle again.                                                    *)
Deals(a, c) ==
  /\ BacklogDistinct'
  /\ \A d \in Conns : InHand(d)' <=> InHand(d) /\ (d # c \/ th'[a].pc # "idle")

LEMMA TailOf ==
  ASSUME NEW S, NEW s \in Seq(S), s # <<>>
  PROVE  /\ Tail(s) \in Seq(S) /\ Head(s) = s[1] /\ 1 \in DOMAIN s
         /\ \A k \in DOMAIN Tail(s) :
              /\ k \in Nat /\ k + 1 \in DOMAIN s /\ k + 1 # 1
              /\ Tail(s)[k] = s[k + 1]
         /\ \A k \in DOMAIN s : k # 1 => /\ k - 1 \in DOMAIN Tail(s)
                                         /\ Tail(s)[k - 1] = s[k]
OBVIOUS

LEMMA HeadInHand ==
  ASSUME Inv, NEW a \in Acceptors, backlog[a] # <<>>
  PROVE  LET c == Head(backlog[a]) IN
         c \in Conns /\ InHand(c) /\ (c[1] = Pri <=> a = AccPri)
<1>1. backlog[a] \in Seq(Conns)
  BY ZenonT(60) DEF Inv, Typed
<1>2. 1 \in DOMAIN backlog[a] /\ Head(backlog[a]) = backlog[a][1]
      /\ backlog[a][1] \in Conns
  BY ZenonT(60), <1>1, TailOf, FirstOf
<1> QED
  BY <1>2 DEF InHand, Inv, BacklogDistinct

LEMMA DequeueDeals ==
  ASSUME Inv, NEW a \in Acceptors, backlog[a] # <<>>, th[a].pc = "idle",
         backlog' = [backlog EXCEPT ![a] = Tail(@)], made' = made,
         \A b \in Acceptors \ {a} : th'[b] = th[b],
         th'[a].pc # "idle" => th'[a].conn = Head(backlog[a])
  PROVE  Deals(a, Head(backlog[a])) /\ backlog' \in [Acceptors -> Seq(Conns)]
<1> DEFINE c == Head(backlog[a])
<1>1. backlog[a] \in Seq(Conns) /\ backlog \in [Acceptors -> Seq(Conns)]
  BY ZenonT(60) DEF Inv, Typed
<1>2. /\ Tail(backlog[a]) \in Seq(Conns) /\ c = backlog[a][1] /\ 1 \in DOMAIN backlog[a]
      /\ \A k \in DOMAIN Tail(backlog[a]) :
           /\ k \in Nat /\ k + 1 \in DOMAIN backlog[a] /\ k + 1 # 1
           /\ Tail(backlog[a])[k] = backlog[a][k + 1]
      /\ \A k \in DOMAIN backlog[a] : k # 1 =>
           k - 1 \in DOMAIN Tail(backlog[a]) /\ Tail(backlog[a])[k - 1] = backlog[a][k]
  BY ZenonT(60), <1>1, TailOf
<1>3. /\ backlog' \in [Acceptors -> Seq(Conns)]
      /\ backlog'[a] = Tail(backlog[a])
      /\ \A b \in Acceptors \ {a} : backlog'[b] = backlog[b]
  BY ZenonT(60), <1>1, <1>2
<1> HIDE DEF c
<1>4. \A b \in Acceptors : \A k \in DOMAIN backlog[b] :
        /\ backlog[b][k][2] <= made[backlog[b][k][1]]
        /\ backlog[b][k][1] = Pri <=> b = AccPri
        /\ th[b].pc # "idle" => th[b].conn # backlog[b][k]
        /\ \A j \in DOMAIN backlog[b] : j # k => backlog[b][j] # backlog[b][k]
  BY ZenonT(60) DEF Inv, BacklogDistinct
<1>5. \A k \in DOMAIN backlog'[a] :
        /\ backlog'[a][k] # c
        /\ \A j \in DOMAIN backlog'[a] : j # k => backlog'[a][j] # backlog'[a][k]
        /\ backlog'[a][k][2] <= made[backlog'[a][k][1]]
        /\ backlog'[a][k][1] = Pri <=> a = AccPri
  <2> TAKE k \in DOMAIN backlog'[a]
  <2>1. k \in Nat /\ k + 1 \in DOMAIN backlog[a] /\ k + 1 # 1
        /\ backlog'[a][k] = backlog[a][k + 1]
    BY ZenonT(60), <1>2, <1>3
  <2>2. backlog'[a][k] # c
    BY <1>2, <1>4, <2>1
  <2>3. ASSUME NEW j \in DOMAIN backlog'[a], j # k
        PROVE  backlog'[a][j] # backlog'[a][k]
    <3>1. j \in Nat /\ j + 1 \in DOMAIN backlog[a] /\ backlog'[a][j] = backlog[a][j + 1]
      BY <1>2, <1>3
    <3>2. j + 1 # k + 1
      BY <2>1, <2>3, <3>1
    <3> QED
      BY <1>4, <2>1, <3>1, <3>2
  <2> QED
    BY <1>4, <2>1, <2>2, <2>3
<1>6. c[2] <= made[c[1]] /\ (c[1] = Pri <=> a = AccPri)
  BY ZenonT(60), <1>2, <1>4
<1>7. BacklogDistinct'
  <2> SUFFICES ASSUME NEW b \in Acceptors
               PROVE  /\ \A k \in DOMAIN backlog'[b] :
                           /\ backlog'[b][k][2] <= made'[backlog'[b][k][1]]
                           /\ backlog'[b][k][1] = Pri <=> b = AccPri
                           /\ th'[b].pc # "idle" => th'[b].conn # backlog'[b][k]
                           /\ \A j \in DOMAIN backlog'[b] :
                                j # k => backlog'[b][j] # backlog'[b][k]
                      /\ th'[b].pc # "idle" => th'[b].conn[2] <= made'[th'[b].conn[1]]
    BY ZenonT(60) DEF BacklogDistinct
  <2>1. CASE b = a
    BY <1>5, <1>6, <2>1 DEF c
  <2>2. CASE b # a
    <3>1. backlog'[b] = backlog[b] /\ th'[b] = th[b]
      BY ZenonT(60), <1>3, <2>2
    <3>2. th[b].pc # "idle" => th[b].conn[2] <= made[th[b].conn[1]]
      BY ZenonT(60) DEF Inv, BacklogDistinct
    <3>3. \A k \in DOMAIN backlog[b] :
            /\ backlog[b][k][2] <= made[backlog[b][k][1]]
            /\ backlog[b][k][1] = Pri <=> b = AccPri
            /\ th[b].pc # "idle" => th[b].conn # backlog[b][k]
            /\ \A j \in DOMAIN backlog[b] : j # k => backlog[b][j] # backlog[b][k]
      BY <1>4
    <3>4. ASSUME NEW k \in DOMAIN backlog'[b]
          PROVE  /\ backlog'[b][k][2] <= made'[backlog'[b][k][1]]
                 /\ backlog'[b][k][1] = Pri <=> b = AccPri
                 /\ th'[b].pc # "idle" => th'[b].conn # backlog'[b][k]
                 /\ \A j \in DOMAIN backlog'[b] :
                      j # k => backlog'[b][j] # backlog'[b][k]
      BY ZenonT(60), <3>1, <3>3
    <3>5. th'[b].pc # "idle" => th'[b].conn[2] <= made'[th'[b].conn[1]]
      BY SMTT(60), <3>1, <3>2
    <3> QED
      BY ZenonT(60), <3>4, <3>5
  <2> QED
    BY ZenonT(60), <2>1, <2>2
<1>8. ASSUME NEW d \in Conns
      PROVE  InHand(d)' <=> InHand(d) /\ (d # c \/ th'[a].pc # "idle")
  <2>1. ASSUME NEW b \in Acceptors, b # a
        PROVE  /\ \A k \in DOMAIN backlog[b] : backlog[b][k] # c
               /\ th[b].pc # "idle" => th[b].conn # c
    <3>1. c[1] = Pri <=> b # AccPri
      BY ZenonT(60), <1>6, <2>1 DEF Acceptors
    <3>2. \A k \in DOMAIN backlog[b] : backlog[b][k][1] = Pri <=> b = AccPri
      BY <1>4
    <3>3. th[b].pc # "idle" => (th[b].conn[1] = Pri <=> b = AccPri)
      BY ZenonT(60) DEF Inv, Typed, ThreadsTyped
    <3> QED
      BY ZenonT(60), <3>1, <3>2, <3>3
  <2>2. ~(c[2] > made[c[1]])
    <3>1. c \in Conns /\ c[2] \in Nat /\ made[c[1]] \in Nat
      BY ZenonT(60), <1>1, <1>2, FirstOf, ConnParts DEF Inv, Typed
    <3> QED
      BY <1>6, <3>1
  <2>3. CASE d = c
    <3>1. InHand(d)
      BY ZenonT(60), <1>2, <2>3 DEF InHand
    <3>2. th'[a].pc # "idle" => InHand(d)'
      BY ZenonT(60), <2>3 DEF InHand, c
    <3>3. th'[a].pc = "idle" => ~InHand(d)'
      BY <1>3, <1>5, <2>1, <2>2, <2>3 DEF InHand
    <3> QED
      BY ZenonT(60), <2>3, <3>1, <3>2, <3>3
  <2>4. CASE d # c
    <3>1. (\E k \in DOMAIN backlog'[a] : backlog'[a][k] = d)
            <=> (\E k \in DOMAIN backlog[a] : backlog[a][k] = d)
      <4>1. ASSUME NEW k \in DOMAIN backlog'[a], backlog'[a][k] = d
            PROVE  \E j \in DOMAIN backlog[a] : backlog[a][j] = d
        BY <1>2, <1>3, <4>1
      <4>2. ASSUME NEW k \in DOMAIN backlog[a], backlog[a][k] = d
            PROVE  \E j \in DOMAIN backlog'[a] : backlog'[a][j] = d
        BY ZenonT(60), <1>2, <1>3, <2>4, <4>2
      <4> QED
        BY ZenonT(60), <4>1, <4>2
    <3>2. \A b \in Acceptors : th'[b].pc # "idle" /\ th'[b].conn = d
                                 <=> th[b].pc # "idle" /\ th[b].conn = d
      BY ZenonT(60), <2>4 DEF c
    <3> QED
      BY <1>3, <2>4, <3>1, <3>2 DEF InHand
  <2> QED
    BY ZenonT(60), <2>3, <2>4
<1> QED
  BY ZenonT(60), <1>3, <1>7, <1>8 DEF Deals, c

LEMMA ReleaseDeals ==
  ASSUME Inv, NEW a \in Acceptors, th[a].pc # "idle",
         UNCHANGED <<backlog, made>>,
         \A b \in Acceptors \ {a} : th'[b] = th[b],
         th'[a].pc # "idle" => th'[a].conn = th[a].conn
  PROVE  Deals(a, th[a].conn) /\ th[a].conn \in Conns /\ InHand(th[a].conn)
<1> DEFINE c == th[a].conn
<1>1. c \in Conns /\ InHand(c) /\ (c[1] = Pri <=> a = AccPri)
      /\ c[2] <= made[c[1]]
  BY ZenonT(60) DEF Inv, Typed, ThreadsTyped, InHand, BacklogDistinct
<1>2. \A b \in Acceptors : \A k \in DOMAIN backlog[b] :
        /\ backlog[b][k][2] <= made[backlog[b][k][1]]
        /\ backlog[b][k][1] = Pri <=> b = AccPri
        /\ th[b].pc # "idle" => th[b].conn # backlog[b][k]
        /\ \A j \in DOMAIN backlog[b] : j # k => backlog[b][j] # backlog[b][k]
  BY DEF Inv, BacklogDistinct
<1>3. \A b \in Acceptors : th[b].pc # "idle" =>
        /\ th[b].conn[2] <= made[th[b].conn[1]]
        /\ th[b].conn[1] = Pri <=> b = AccPri
  BY Zenon DEF Inv, BacklogDistinct, Typed, ThreadsTyped
<1>4. \A b \in Acceptors : th'[b].pc # "idle" => th[b].pc # "idle" /\ th'[b].conn = th[b].conn
  BY ZenonT(60)
<1>5. BacklogDistinct'
  BY <1>2, <1>3, <1>4 DEF BacklogDistinct
<1>6. ASSUME NEW d \in Conns
      PROVE  InHand(d)' <=> InHand(d) /\ (d # c \/ th'[a].pc # "idle")
  <2>1. CASE d = c
    <3>1. ASSUME NEW b \in Acceptors, b # a
          PROVE  /\ \A k \in DOMAIN backlog[b] : backlog[b][k] # c
                 /\ th[b].pc # "idle" => th[b].conn # c
      <4>1. c[1] = Pri <=> b # AccPri
        BY ZenonT(60), <1>1, <3>1 DEF Acceptors
      <4> QED
        BY <1>2, <1>3, <4>1
    <3>2. ~(c[2] > made[c[1]])
      <4>1. c[2] \in Nat /\ made[c[1]] \in Nat
        BY ZenonT(60), <1>1, ConnParts DEF Inv, Typed
      <4> HIDE DEF c
      <4> QED
        BY <1>1, <4>1
    <3>3. \A k \in DOMAIN backlog[a] : backlog[a][k] # c
      BY ZenonT(60), <1>2
    <3>4. th'[a].pc # "idle" => InHand(d)'
      BY ZenonT(60), <2>1 DEF InHand
    <3>5. th'[a].pc = "idle" => ~InHand(d)'
      BY ZenonT(60), <2>1, <3>1, <3>2, <3>3 DEF InHand
    <3> QED
      BY ZenonT(60), <1>1, <2>1, <3>4, <3>5
  <2>2. CASE d # c
    <3>1. \A b \in Acceptors : th'[b].pc # "idle" /\ th'[b].conn = d
                                 <=> th[b].pc # "idle" /\ th[b].conn = d
      BY ZenonT(60), <2>2
    <3> QED
      BY <2>2, <3>1 DEF InHand
  <2> QED
    BY ZenonT(60), <2>1, <2>2
<1> QED
  BY <1>1, <1>5, <1>6 DEF Deals

(* The connection stays in hand or is dropped, becomes a process object, or  *)
(* becomes the connection of one.                                            *)
LEMMA DealsOwnConn ==
  ASSUME Inv, NEW a \in Acceptors, NEW c \in Conns, InHand(c), Deals(a, c),
         \/ /\ connOf' = connOf
            /\ \A p \in Conns : Used(p)' => Used(p)
         \/ /\ connOf' = connOf /\ th'[a].pc = "idle"
            /\ \A p \in Conns : Used(p)' => Used(p) \/ p = c
         \/ /\ \E o \in Conns : Used(o) /\ connOf' = [connOf EXCEPT ![o] = c]
            /\ th'[a].pc = "idle"
            /\ \A p \in Conns : Used(p)' => Used(p)
  PROVE  OwnConn' /\ connOf' \in [Conns -> Conns]
<1>1. /\ \A o \in Conns : Used(o) => ~InHand(o) /\ ~InHand(connOf[o])
      /\ \A o, p \in Conns : Used(o) /\ Used(p) /\ connOf[o] = connOf[p] => o = p
      /\ \A d \in Conns : InHand(d) => connOf[d] = d
      /\ connOf \in [Conns -> Conns]
  BY ZenonT(60) DEF Inv, OwnConn, Typed
<1>2. \A d \in Conns : InHand(d)' => InHand(d)
  BY ZenonT(60) DEF Deals
<1>3. th'[a].pc = "idle" => ~InHand(c)'
  BY ZenonT(60), SMTT(60) DEF Deals
<1>4. CASE /\ connOf' = connOf
           /\ \A p \in Conns : Used(p)' => Used(p)
  BY ZenonT(60), <1>1, <1>2, <1>4 DEF OwnConn
<1>5. CASE /\ connOf' = connOf /\ th'[a].pc = "idle"
           /\ \A p \in Conns : Used(p)' => Used(p) \/ p = c
  <2>1. \A p \in Conns : Used(p)' => ~InHand(p)' /\ ~InHand(connOf[p])'
    BY ZenonT(60), <1>1, <1>2, <1>3, <1>5
  <2>2. \A o, p \in Conns : Used(o)' /\ Used(p)' /\ connOf[o] = connOf[p] => o = p
    BY ZenonT(60), <1>1, <1>5
  <2> QED
    BY ZenonT(60), <1>1, <1>2, <1>5, <2>1, <2>2 DEF OwnConn
<1>6. CASE /\ \E o \in Conns : Used(o) /\ connOf' = [connOf EXCEPT ![o] = c]
           /\ th'[a].pc = "idle"
           /\ \A p \in Conns : Used(p)' => Used(p)
  <2>1. PICK o \in Conns : Used(o) /\ connOf' = [connOf EXCEPT ![o] = c]
    BY Zenon, <1>6
  <2>2. connOf' \in [Conns -> Conns] /\ connOf'[o] = c
        /\ \A p \in Conns \ {o} : connOf'[p] = connOf[p]
    BY ZenonT(60), <1>1, <2>1
  <2> QED
    BY <1>1, <1>2, <1>3, <1>6, <2>1, <2>2 DEF OwnConn
<1> QED
  BY ZenonT(60), <1>4, <1>5, <1>6

(* What else an acceptor may change in a step that sends nothing: semaphores *)
(* that are held keep the connection of their object, and a connection that  *)
(* is closed carries no command.                                             *)
LEMMA AcceptorKeeps ==
  ASSUME Inv, NEW a \in Acceptors, Quiet(a, sem, repq'),
         UNCHANGED <<sem, cmdq, up, made>>, ThreadsTyped',
         \A u \in Threads \ {a} : th'[u] = th[u],
         th'[a].pc # "recv",
         procs' \in [Ids -> Conns \cup {None}],
         backlog' \in [Acceptors -> Seq(Conns)],
         connOf' \in [Conns -> Conns],
         \A o \in Conns : sem[o] # None => connOf'[o] = connOf[o],
         \A d \in Conns : d \in closed' => d \in closed \/ cmdq[d] = <<>>,
         BacklogDistinct', OwnConn'
  PROVE  Inv'
<1>0. a \in Threads /\ a \notin Reqs /\ Reqs \subseteq Threads
  BY ZenonT(60), SppCtlAssumption DEF Acceptors, Threads
<1>1. Typed'
  BY ZenonT(60) DEF Inv, Typed, Quiet
<1>2. SemHeld'
  <2>1. \A u \in Reqs : th'[u] = th[u]
    BY ZenonT(60), <1>0
  <2>2. ASSUME NEW u \in Reqs, th[u].pc = "recv"
        PROVE  sem[th[u].obj] = u /\ th[u].conn = connOf'[th[u].obj]
    <3>1. sem[th[u].obj] = u /\ th[u].conn = connOf[th[u].obj]
      BY <2>2 DEF Inv, SemHeld
    <3>2. th[u].obj \in Conns /\ u # None
      BY ZenonT(60), <2>2, SppCtlAssumption DEF Inv, Typed, ThreadsTyped
    <3> QED
      BY ZenonT(60), <3>1, <3>2
  <2>3. ASSUME NEW o \in Conns, sem[o] # None
        PROVE  th'[sem[o]].pc = "recv" /\ th'[sem[o]].obj = o
    <3>1. th[sem[o]].pc = "recv" /\ th[sem[o]].obj = o
      BY ZenonT(60), <2>3 DEF Inv, SemHeld
    <3>2. sem[o] \in Reqs
      BY <2>3 DEF Inv, Typed
    <3> QED
      BY ZenonT(60), <2>1, <3>1, <3>2
  <2> QED
    BY ZenonT(60), <2>1, <2>2, <2>3 DEF SemHeld
<1>3. OneMessage'
  <2> SUFFICES ASSUME NEW d \in Conns
               PROVE  /\ Len(cmdq'[d]) + Len(repq'[d]) <= 1
                      /\ cmdq'[d] # <<>> => OwnerIn(th', cmdq'[d][1].by, d)
                      /\ repq'[d] # <<>> => OwnerIn(th', repq'[d][1].by, d)
                      /\ ~Alive(d)' \/ d \in closed' => cmdq'[d] = <<>>
    BY ZenonT(60) DEF OneMessage, Owner, OwnerIn
  <2>1. Alive(d)' <=> Alive(d)
    BY DEF Alive
  <2>2. ~Alive(d) \/ d \in closed => cmdq[d] = <<>>
    BY ZenonT(60) DEF Inv, OneMessage
  <2> QED
    BY Zenon, <1>0, <2>1, <2>2, OthersKeep
<1> QED
  BY ZenonT(60), <1>1, <1>2, <1>3 DEF Inv

(* The states an acceptor can be put in. *)
LEMMA AcceptorTyped ==
  ASSUME Inv, NEW a \in Acceptors, NEW r, th' = [th EXCEPT ![a] = r],
         IsThread(r), r.op \in Ops,
         \/ r.pc = "idle"
         \/ /\ r.pc = "swap" /\ r.obj \in Conns
            /\ r.conn \in Conns /\ (r.conn[1] = Pri <=> a = AccPri)
         \/ /\ r.pc = "recv" /\ a = AccSec
            /\ r.conn \in Conns /\ (r.conn[1] = Pri <=> a = AccPri)
  PROVE  ThreadsTyped' /\ th'[a] = r /\ \A u \in Threads \ {a} : th'[u] = th[u]
<1>0. a \in Threads /\ a \notin Reqs /\ Reqs \subseteq Threads /\ AccPri # AccSec
      /\ Acceptors \subseteq Threads
  BY ZenonT(60), SppCtlAssumption DEF Acceptors, Threads
<1>1. th'[a] = r /\ \A u \in Threads \ {a} : th'[u] = th[u]
  BY <1>0 DEF Inv, Typed, ThreadsTyped
<1>2. th' = [t \in Threads |-> th'[t]]
  BY ZenonT(60), <1>0 DEF Inv, Typed, ThreadsTyped
<1>3. \A t \in Threads : IsThread(th'[t]) /\ th'[t].op \in Ops
  BY <1>1 DEF Inv, Typed, ThreadsTyped
<1>4. \A t \in Reqs : /\ th'[t].pc \in {"idle", "sem", "recv"}
                      /\ th'[t].pc # "idle" => th'[t].obj \in Conns
  <2>1. \A t \in Reqs : th'[t] = th[t]
    BY <1>0, <1>1
  <2> QED
    BY ZenonT(60), <2>1 DEF Inv, Typed, ThreadsTyped
<1>5. \A b \in Acceptors \ {a} : th'[b] = th[b]
  BY ZenonT(60), <1>0, <1>1
<1>6. th'[AccPri].pc \in {"idle", "swap"} /\ th'[AccSec].pc \in {"idle", "recv", "swap"}
  BY ZenonT(60), <1>0, <1>1, <1>5 DEF Inv, Typed, ThreadsTyped, Acceptors
<1>7. \A b \in Acceptors :
       /\ th'[b].pc = "swap" => th'[b].obj \in Conns
       /\ th'[b].pc # "idle" => /\ th'[b].conn \in Conns
                                /\ th'[b].conn[1] = Pri <=> b = AccPri
  <2> TAKE b \in Acceptors
  <2>1. CASE b = a
    BY <1>1, <2>1
  <2>2. CASE b # a
    BY ZenonT(60), <1>5, <2>2 DEF Inv, Typed, ThreadsTyped
  <2> QED
    BY <2>1, <2>2
<1> QED
  BY ZenonT(60), <1>1, <1>2, <1>3, <1>4, <1>6, <1>7 DEF ThreadsTyped

LEMMA UsedConn ==
  ASSUME Inv, NEW t \in Threads, NEW rq, Quiet(t, sem, rq),
         NEW o \in Conns, Used(o), sem[o] = None
  PROVE  cmdq[connOf[o]] = <<>>
BY NoMessage

LEMMA AcceptPrimaryKeeps ==
  ASSUME Inv, AcceptPrimary
  PROVE  Inv'
<1> DEFINE c == Head(backlog[AccPri])
           o == procs[Pri]
<1>0. AccPri \in Acceptors /\ AccPri \in Threads /\ Pri \in Ids
      /\ Acceptors \subseteq Threads
  BY DEF Acceptors, Threads, Ids
<1>1. /\ th[AccPri].pc = "idle" /\ backlog[AccPri] # <<>>
      /\ backlog' = [backlog EXCEPT ![AccPri] = Tail(@)]
      /\ UNCHANGED <<sem, cmdq, repq, up, made>>
  BY DEF AcceptPrimary
<1>2. c \in Conns /\ InHand(c) /\ c[1] = Pri
  BY <1>0, <1>1, HeadInHand
<1>3. Quiet(AccPri, sem, repq')
  BY <1>0, <1>1, QuietOutside
<1>4. procs \in [Ids -> Conns \cup {None}] /\ connOf \in [Conns -> Conns]
      /\ ThreadsTyped
  BY ZenonT(60), SMTT(60) DEF Inv, Typed
<1>5. CASE o = None
  <2>1. procs' = [procs EXCEPT ![Pri] = c] /\ UNCHANGED <<connOf, closed, th>>
    BY <1>5 DEF AcceptPrimary
  <2> HIDE DEF c, o
  <2>2. Deals(AccPri, c) /\ backlog' \in [Acceptors -> Seq(Conns)]
    BY Zenon, <1>0, <1>1, <2>1, DequeueDeals DEF c
  <2>3. \A p \in Conns : Used(p)' => Used(p) \/ p = c
    BY ZenonT(60), <1>0, <1>4, <2>1 DEF Used
  <2>4. OwnConn' /\ BacklogDistinct' /\ connOf' \in [Conns -> Conns]
    BY <1>0, <1>1, <1>2, <2>1, <2>2, <2>3, DealsOwnConn DEF Deals
  <2>5. ThreadsTyped' /\ procs' \in [Ids -> Conns \cup {None}]
    BY ZenonT(60), <1>2, <1>4, <2>1 DEF ThreadsTyped
  <2> QED
    BY <1>0, <1>1, <1>3, <2>1, <2>2, <2>4, <2>5, AcceptorKeeps
<1>6. CASE o # None /\ sem[o] = None /\ Waiting(o) = {}
  <2>0. o \in Conns /\ Used(o)
    BY <1>0, <1>6, RegisteredUsed
  <2>1. closed' = closed \cup {connOf[o]} /\ connOf' = [connOf EXCEPT ![o] = c]
        /\ UNCHANGED <<procs, th>>
    BY <1>6 DEF AcceptPrimary
  <2> HIDE DEF c, o
  <2>2. Deals(AccPri, c) /\ backlog' \in [Acceptors -> Seq(Conns)]
    BY Zenon, <1>0, <1>1, <2>1, DequeueDeals DEF c
  <2>3. \A p \in Conns : Used(p)' => Used(p)
    BY <2>1 DEF Used
  <2>4. OwnConn' /\ BacklogDistinct' /\ connOf' \in [Conns -> Conns]
    BY Zenon, <1>0, <1>1, <1>2, <2>0, <2>1, <2>2, <2>3, DealsOwnConn DEF Deals
  <2>5. ThreadsTyped' /\ procs' \in [Ids -> Conns \cup {None}]
    BY ZenonT(60), <1>4, <2>1 DEF ThreadsTyped
  <2>6. cmdq[connOf[o]] = <<>>
    BY ZenonT(60), <1>0, <1>3, <1>6, <2>0, UsedConn
  <2>7. \A p \in Conns : sem[p] # None => connOf'[p] = connOf[p]
    BY ZenonT(60), <1>4, <1>6, <2>1
  <2> QED
    BY ZenonT(60), <1>0, <1>1, <1>3, <2>1, <2>2, <2>4, <2>5, <2>6, <2>7, AcceptorKeeps
<1>7. CASE o # None /\ ~(sem[o] = None /\ Waiting(o) = {})
  <2>0. o \in Conns /\ Used(o)
    BY <1>0, <1>7, RegisteredUsed
  <2> DEFINE r == [Idle EXCEPT !.pc = "swap", !.obj = o, !.conn = c]
  <2>1. th' = [th EXCEPT ![AccPri] = r] /\ UNCHANGED <<procs, connOf, closed>>
    BY <1>7 DEF AcceptPrimary
  <2>2. IsThread(r) /\ r.op \in Ops /\ r.pc = "swap" /\ r.obj = o /\ r.conn = c
    BY DEF IsThread, Fields, Idle, Ops
  <2> HIDE DEF c, o, r
  <2>3. /\ ThreadsTyped' /\ th'[AccPri] = r
        /\ \A u \in Threads \ {AccPri} : th'[u] = th[u]
    BY Zenon, <1>0, <1>2, <2>0, <2>1, <2>2, AcceptorTyped
  <2>4. Deals(AccPri, c) /\ backlog' \in [Acceptors -> Seq(Conns)]
    BY ZenonT(60), <1>0, <1>1, <2>1, <2>2, <2>3, DequeueDeals DEF c
  <2>5. \A p \in Conns : Used(p)' => Used(p)
    BY ZenonT(60), <2>0, <2>1, <2>2, <2>3 DEF Used
  <2>6. OwnConn' /\ BacklogDistinct' /\ connOf' \in [Conns -> Conns]
    BY ZenonT(60), <1>0, <1>1, <1>2, <2>1, <2>4, <2>5, DealsOwnConn DEF Deals
  <2> QED
    BY ZenonT(60), <1>0, <1>1, <1>3, <1>4, <2>1, <2>2, <2>3, <2>4, <2>6, AcceptorKeeps
<1> QED
  BY <1>5, <1>6, <1>7

LEMMA SwapPrimaryKeeps ==
  ASSUME Inv, SwapPrimary
  PROVE  Inv'
<1> DEFINE c == th[AccPri].conn
           o == th[AccPri].obj
<1>0. AccPri \in Acceptors /\ AccPri \in Threads /\ Acceptors \subseteq Threads
  BY ZenonT(60), SMTT(60) DEF Acceptors, Threads
<1>1. /\ th[AccPri].pc = "swap" /\ sem[o] = None
      /\ closed' = closed \cup {connOf[o]} /\ connOf' = [connOf EXCEPT ![o] = c]
      /\ th' = [th EXCEPT ![AccPri] = Idle]
      /\ UNCHANGED <<procs, sem, cmdq, backlog, repq, up, made>>
  BY DEF SwapPrimary, peers
<1>2. o \in Conns /\ Used(o)
  BY ZenonT(60), <1>0, <1>1 DEF Inv, Typed, ThreadsTyped, Used
<1>3. Quiet(AccPri, sem, repq')
  BY <1>0, <1>1, QuietOutside
<1>4. procs \in [Ids -> Conns \cup {None}] /\ connOf \in [Conns -> Conns]
      /\ backlog \in [Acceptors -> Seq(Conns)]
  BY DEF Inv, Typed
<1>5. /\ ThreadsTyped' /\ th'[AccPri] = Idle /\ th'[AccPri].pc = "idle"
      /\ \A u \in Threads \ {AccPri} : th'[u] = th[u]
  BY ZenonT(60), <1>0, <1>1, IdleThread, AcceptorTyped
<1>6. Deals(AccPri, c) /\ c \in Conns /\ InHand(c)
  BY ZenonT(60), <1>0, <1>1, <1>5, ReleaseDeals
<1> HIDE DEF c, o
<1>7. \A p \in Conns : Used(p)' => Used(p)
  BY <1>1, <1>5 DEF Used
<1>8. OwnConn' /\ BacklogDistinct' /\ connOf' \in [Conns -> Conns]
  BY ZenonT(60), <1>0, <1>1, <1>2, <1>5, <1>6, <1>7, DealsOwnConn DEF Deals
<1>9. cmdq[connOf[o]] = <<>>
  BY ZenonT(60), <1>0, <1>1, <1>2, <1>3, UsedConn
<1>10. \A p \in Conns : sem[p] # None => connOf'[p] = connOf[p]
  BY <1>1, <1>4
<1> QED
  BY <1>0, <1>1, <1>3, <1>4, <1>5, <1>8, <1>9, <1>10, AcceptorKeeps

LEMMA AcceptSecondaryKeeps ==
  ASSUME Inv, AcceptSecondary
  PROVE  Inv'
<1> DEFINE c == Head(backlog[AccSec])
           r == [Idle EXCEPT !.pc = "recv", !.op = "id", !.conn = c]
<1>0. /\ AccSec \in Acceptors /\ AccSec \in Threads /\ Acceptors \subseteq Threads
      /\ AccSec # AccPri /\ AccSec \notin Reqs /\ Reqs \subseteq Threads /\ "id" \in Ops
  BY SppCtlAssumption DEF Acceptors, Threads, Ops
<1>1. /\ th[AccSec].pc = "idle" /\ backlog[AccSec] # <<>>
      /\ backlog' = [backlog EXCEPT ![AccSec] = Tail(@)]
      /\ th' = [th EXCEPT ![AccSec] = r] /\ cmdq' = Sent(c, AccSec, "id")
      /\ UNCHANGED <<procs, connOf, sem, closed, repq, up, made>>
  BY DEF AcceptSecondary
<1>2. IsThread(r) /\ r.op = "id" /\ r.pc = "recv" /\ r.obj = None /\ r.conn = c
  BY DEF IsThread, Fields, Idle
<1>3. c \in Conns /\ InHand(c) /\ c[1] # Pri
  BY <1>0, <1>1, HeadInHand
<1> HIDE DEF r
<1>4. /\ ThreadsTyped' /\ th'[AccSec] = r
      /\ \A u \in Threads \ {AccSec} : th'[u] = th[u]
  BY ZenonT(60), <1>0, <1>1, <1>2, <1>3, AcceptorTyped
<1>5. Deals(AccSec, c) /\ backlog' \in [Acceptors -> Seq(Conns)]
  BY Zenon, <1>0, <1>1, <1>2, <1>4, DequeueDeals
<1> HIDE DEF c
<1>6. \A p \in Conns : Used(p)' => Used(p)
  <2>1. None \notin Conns
    BY ZenonT(60), SppCtlAssumption DEF Conns, Ids
  <2> QED
    BY ZenonT(60), <1>1, <1>2, <1>4, <2>1 DEF Used
<1>7. OwnConn' /\ BacklogDistinct'
  BY ZenonT(60), <1>0, <1>1, <1>3, <1>5, <1>6, DealsOwnConn DEF Deals
<1>8. Quiet(AccSec, sem, repq)
  BY <1>0, <1>1, QuietOutside
<1>9. cmdq[c] = <<>> /\ repq[c] = <<>>
  <2>1. ASSUME NEW u \in Threads, Owner(u, c)
        PROVE  FALSE
    <3>1. CASE u \in Reqs
      <4>1. th[u].obj \in Conns /\ Used(th[u].obj) /\ connOf[th[u].obj] = c
        BY ZenonT(60), <2>1, <3>1 DEF Inv, Typed, ThreadsTyped, SemHeld, Used, Owner, OwnerIn, Threads
      <4> QED
        BY ZenonT(60), <1>3, <4>1 DEF Inv, OwnConn
    <3>2. CASE u = AccPri
      BY <2>1, <3>2 DEF Inv, Typed, ThreadsTyped, Owner, OwnerIn
    <3>3. CASE u = AccSec
      BY <1>1, <2>1, <3>3 DEF Owner, OwnerIn
    <3> QED
      BY ZenonT(60), <3>1, <3>2, <3>3 DEF Threads
  <2>2. cmdq[c] # <<>> => cmdq[c][1].by \in Threads /\ Owner(cmdq[c][1].by, c)
    <3>1. cmdq[c] \in Seq(Msg)
      BY <1>3 DEF Inv, Typed
    <3> QED
      BY ZenonT(60), <1>3, <3>1, SenderOf DEF Inv, OneMessage
  <2>3. repq[c] # <<>> => repq[c][1].by \in Threads /\ Owner(repq[c][1].by, c)
    <3>1. repq[c] \in Seq(Msg)
      BY <1>3 DEF Inv, Typed
    <3> QED
      BY Zenon, <1>3, <3>1, SenderOf DEF Inv, OneMessage
  <2> QED
    BY <2>1, <2>2, <2>3
<1>10. /\ cmdq' \in [Conns -> Seq(Msg)]
       /\ \A d \in Conns \ {c} : cmdq'[d] = cmdq[d]
       /\ \/ cmdq'[c] = <<>>
          \/ cmdq'[c] = <<[by |-> AccSec, op |-> "id"]>> /\ Alive(c) /\ c \notin closed
  BY Zenon, <1>0, <1>1, <1>3, <1>9, SentOf
<1>11. Typed'
  BY ZenonT(60), <1>1, <1>4, <1>5, <1>10 DEF Inv, Typed
<1>12. SemHeld'
  <2>1. \A u \in Reqs : th'[u] = th[u]
    BY <1>0, <1>4
  <2>2. \A p \in Conns : sem[p] # None => sem[p] \in Reqs
    BY ZenonT(60), SMTT(60) DEF Inv, Typed
  <2>3. ASSUME NEW u \in Reqs, th'[u].pc = "recv"
        PROVE  sem'[th'[u].obj] = u /\ th'[u].conn = connOf'[th'[u].obj]
    BY ZenonT(60), <1>1, <2>1, <2>3 DEF Inv, SemHeld
  <2>4. ASSUME NEW p \in Conns, sem'[p] # None
        PROVE  th'[sem'[p]].pc = "recv" /\ th'[sem'[p]].obj = p
    BY <1>1, <2>1, <2>2, <2>4 DEF Inv, SemHeld
  <2> QED
    BY ZenonT(60), <2>3, <2>4 DEF SemHeld
<1>13. OneMessage'
  <2> SUFFICES ASSUME NEW d \in Conns
               PROVE  /\ Len(cmdq'[d]) + Len(repq'[d]) <= 1
                      /\ cmdq'[d] # <<>> => OwnerIn(th', cmdq'[d][1].by, d)
                      /\ repq'[d] # <<>> => OwnerIn(th', repq'[d][1].by, d)
                      /\ ~Alive(d)' \/ d \in closed' => cmdq'[d] = <<>>
    BY ZenonT(60) DEF OneMessage, Owner, OwnerIn
  <2>1. Alive(d)' <=> Alive(d)
    BY <1>1 DEF Alive
  <2>2. ~Alive(d) \/ d \in closed => cmdq[d] = <<>>
    BY Zenon DEF Inv, OneMessage
  <2>3. CASE d # c
    <3>1. cmdq'[d] = cmdq[d] /\ repq'[d] = repq[d] /\ closed' = closed
      BY ZenonT(60), <1>1, <1>10, <2>3
    <3> QED
      BY ZenonT(60), <1>0, <1>4, <1>8, <2>1, <2>2, <3>1, OthersKeep
  <2>4. CASE d = c /\ cmdq'[c] = <<>>
    <3>1. cmdq'[d] = <<>> /\ repq'[d] = <<>> /\ Len(cmdq'[d]) = 0 /\ Len(repq'[d]) = 0
      BY SMTT(60), <1>1, <1>9, <2>4
    <3> QED
      BY <3>1
  <2>5. CASE d = c /\ cmdq'[c] = <<[by |-> AccSec, op |-> "id"]>> /\ Alive(c) /\ c \notin closed
    <3>1. /\ repq'[d] = <<>> /\ Len(repq'[d]) = 0
          /\ Len(cmdq'[d]) = 1 /\ cmdq'[d][1].by = AccSec
      <4>1. repq'[d] = <<>> /\ Len(repq'[d]) = 0
        BY ZenonT(60), <1>1, <1>9, <2>5
      <4>2. Len(cmdq'[d]) = 1 /\ cmdq'[d][1] = [by |-> AccSec, op |-> "id"]
        BY SMTT(60), <2>5
      <4> QED
        BY SMTT(60), <4>1, <4>2
    <3>2. OwnerIn(th', AccSec, d)
      BY <1>2, <1>4, <2>5 DEF OwnerIn
    <3>3. Alive(d)' /\ d \notin closed'
      BY Zenon, <1>1, <2>1, <2>5
    <3> QED
      BY <3>1, <3>2, <3>3
  <2> QED
    BY Zenon, <1>10, <2>3, <2>4, <2>5
<1> QED
  BY ZenonT(60), <1>7, <1>11, <1>12, <1>13 DEF Inv

(* The newcomer c becomes the process object of its id. *)
LEMMA RegisterKeeps ==
  ASSUME Inv, NEW o, Register(th[AccSec].conn, o), th[AccSec].pc # "idle",
         o = None \/ (o \in Conns /\ Used(o) /\ sem[o] = None),
         Quiet(AccSec, sem, repq'),
         UNCHANGED <<connOf, sem, cmdq, backlog, up, made>>
  PROVE  Inv'
<1> DEFINE c == th[AccSec].conn
<1>0. AccSec \in Acceptors /\ AccSec \in Threads /\ Acceptors \subseteq Threads
  BY ZenonT(60) DEF Acceptors, Threads
<1>1. /\ procs' = [procs EXCEPT ![c[1]] = c]
      /\ closed' = (IF o = None THEN closed ELSE closed \cup {connOf[o]})
      /\ th' = [th EXCEPT ![AccSec] = Idle]
  BY DEF Register
<1>2. /\ ThreadsTyped' /\ th'[AccSec] = Idle /\ th'[AccSec].pc = "idle"
      /\ \A u \in Threads \ {AccSec} : th'[u] = th[u]
  BY Zenon, <1>0, <1>1, IdleThread, AcceptorTyped
<1>3. Deals(AccSec, c) /\ c \in Conns /\ InHand(c)
  BY Zenon, <1>0, <1>2, ReleaseDeals
<1> HIDE DEF c
<1>4. c[1] \in Ids
  BY ZenonT(60), <1>3, ConnParts
<1>5. procs' \in [Ids -> Conns \cup {None}]
      /\ \A i \in Ids : procs'[i] = procs[i] \/ procs'[i] = c
  BY ZenonT(60), <1>1, <1>3, <1>4 DEF Inv, Typed
<1>6. \A p \in Conns : Used(p)' => Used(p) \/ p = c
  BY ZenonT(60), <1>2, <1>5 DEF Used
<1>7. OwnConn' /\ BacklogDistinct' /\ connOf' \in [Conns -> Conns]
  BY ZenonT(60), <1>0, <1>2, <1>3, <1>6, DealsOwnConn DEF Deals
<1>8. \A d \in Conns : d \in closed' => d \in closed \/ cmdq[d] = <<>>
  BY ZenonT(60), <1>0, <1>1, UsedConn
<1>9. backlog' \in [Acceptors -> Seq(Conns)]
  BY ZenonT(60), SMTT(60) DEF Inv, Typed
<1> QED
  BY ZenonT(60), <1>0, <1>2, <1>5, <1>7, <1>8, <1>9, AcceptorKeeps

LEMMA AccSecQuiet ==
  ASSUME Inv
  PROVE  /\ AccSec \in Threads
         /\ sem \in [Conns -> Reqs \cup {None}]
         /\ \A o \in Conns : sem[o] # None => sem[o] = sem[o] /\ sem[o] # AccSec
         /\ \A u \in Reqs \ {AccSec} : th[u].pc = "recv" => sem[th[u].obj] = u
BY SppCtlAssumption DEF Threads, Inv, Typed, SemHeld

LEMMA ReceiveIdKeeps ==
  ASSUME Inv, ReceiveId
  PROVE  Inv'
<1> DEFINE c == th[AccSec].conn
           o == procs[c[1]]
<1>0. AccSec \in Acceptors /\ AccSec \in Threads /\ Acceptors \subseteq Threads
  BY DEF Acceptors, Threads
<1>1. /\ Answered(AccSec) /\ th[AccSec].pc = "recv"
      /\ repq' = [repq EXCEPT ![c] = Tail(@)]
      /\ UNCHANGED <<connOf, sem, cmdq, backlog, up, made>>
  BY DEF ReceiveId, Answered
<1>2. c \in Conns /\ (c[1] = Pri <=> AccSec = AccPri) /\ c[1] \in Ids
  BY Zenon, <1>0, <1>1, ConnParts DEF Inv, Typed, ThreadsTyped
<1>3. Quiet(AccSec, sem, repq')
  BY ZenonT(60), <1>1, <1>2, AccSecQuiet, QuietAfterReply
<1>4. o # None => o \in Conns /\ Used(o)
  BY <1>2, RegisteredUsed
<1>5. CASE o = None \/ (sem[o] = None /\ Waiting(o) = {})
  <2>1. Register(c, o)
    BY <1>5 DEF ReceiveId
  <2> QED
    BY ZenonT(60), <1>1, <1>3, <1>4, <1>5, <2>1, RegisterKeeps
<1>6. CASE ~(o = None \/ (sem[o] = None /\ Waiting(o) = {}))
  <2> DEFINE r == [th[AccSec] EXCEPT !.pc = "swap", !.obj = o]
  <2>0. IsThread(th[AccSec]) /\ th[AccSec].op \in Ops
        /\ th = [t \in Threads |-> th[t]]
    BY <1>0 DEF Inv, Typed, ThreadsTyped
  <2>1. IsThread(r) /\ r.op = th[AccSec].op /\ r.pc = "swap" /\ r.obj = o /\ r.conn = c
    BY <2>0 DEF IsThread, Fields
  <2>2. th' = [th EXCEPT ![AccSec].pc = "swap", ![AccSec].obj = o]
        /\ UNCHANGED <<procs, closed>>
    BY <1>6 DEF ReceiveId
  <2>3. th' = [th EXCEPT ![AccSec] = r]
    BY ZenonT(60), <1>0, <2>0, <2>2 DEF IsThread, Fields
  <2> HIDE DEF r
  <2>4. /\ ThreadsTyped' /\ th'[AccSec] = r
        /\ \A u \in Threads \ {AccSec} : th'[u] = th[u]
    BY ZenonT(60), <1>0, <1>2, <1>4, <1>6, <2>0, <2>1, <2>3, AcceptorTyped
  <2>5. Deals(AccSec, c) /\ InHand(c)
    BY <1>0, <1>1, <2>1, <2>4, ReleaseDeals
  <2> HIDE DEF c, o
  <2>6. \A p \in Conns : Used(p)' => Used(p)
    BY ZenonT(60), <1>4, <1>6, <2>1, <2>2, <2>4 DEF Used
  <2>7. OwnConn' /\ BacklogDistinct' /\ connOf' \in [Conns -> Conns]
    BY <1>0, <1>1, <1>2, <2>5, <2>6, DealsOwnConn DEF Deals
  <2>8. procs' \in [Ids -> Conns \cup {None}] /\ backlog' \in [Acceptors -> Seq(Conns)]
    BY <1>1, <2>2 DEF Inv, Typed
  <2> QED
    BY ZenonT(60), <1>0, <1>1, <1>3, <2>1, <2>2, <2>4, <2>7, <2>8, AcceptorKeeps
<1> QED
  BY <1>5, <1>6

LEMMA NoIdKeeps ==
  ASSUME Inv, NoId
  PROVE  Inv'
<1> DEFINE c == th[AccSec].conn
<1>0. AccSec \in Acceptors /\ AccSec \in Threads /\ Acceptors \subseteq Threads
  BY DEF Acceptors, Threads
<1>1. /\ Gone(AccSec) /\ th[AccSec].pc = "recv"
      /\ closed' = closed \cup {c} /\ th' = [th EXCEPT ![AccSec] = Idle]
      /\ UNCHANGED <<procs, connOf, sem, cmdq, repq, backlog, up, made>>
  BY Zenon DEF NoId, Gone, peers
<1>2. /\ ThreadsTyped' /\ th'[AccSec] = Idle /\ th'[AccSec].pc = "idle"
      /\ \A u \in Threads \ {AccSec} : th'[u] = th[u]
  BY ZenonT(60), <1>0, <1>1, IdleThread, AcceptorTyped
<1>3. Deals(AccSec, c) /\ c \in Conns /\ InHand(c)
  BY ZenonT(60), <1>0, <1>1, <1>2, ReleaseDeals
<1>4. Quiet(AccSec, sem, repq')
  BY <1>1, <1>3, AccSecQuiet, QuietAfterFail
<1>5. cmdq[c] = <<>>
  BY ZenonT(60), <1>1, <1>3 DEF Gone, Inv, OneMessage
<1> HIDE DEF c
<1>6. \A p \in Conns : Used(p)' => Used(p)
  BY ZenonT(60), <1>1, <1>2 DEF Used
<1>7. OwnConn' /\ BacklogDistinct' /\ connOf' \in [Conns -> Conns]
  BY ZenonT(60), <1>0, <1>1, <1>3, <1>6, DealsOwnConn DEF Deals
<1>8. procs' \in [Ids -> Conns \cup {None}] /\ backlog' \in [Acceptors -> Seq(Conns)]
  BY ZenonT(60), <1>1 DEF Inv, Typed
<1> QED
  BY Zenon, <1>0, <1>1, <1>2, <1>4, <1>5, <1>7, <1>8, AcceptorKeeps

LEMMA ReplaceSecondaryKeeps ==
  ASSUME Inv, ReplaceSecondary
  PROVE  Inv'
<1>1. /\ th[AccSec].pc = "swap" /\ sem[th[AccSec].obj] = None
      /\ Register(th[AccSec].conn, th[AccSec].obj)
      /\ UNCHANGED <<connOf, sem, cmdq, backlog, repq, up, made>>
  BY DEF ReplaceSecondary, peers
<1>2. AccSec \in Acceptors /\ AccSec \in Threads
  BY DEF Acceptors, Threads
<1>3. th[AccSec].obj \in Conns /\ Used(th[AccSec].obj)
  BY ZenonT(60), <1>1, <1>2 DEF Inv, Typed, ThreadsTyped, Used
<1>4. Quiet(AccSec, sem, repq')
  BY <1>1, <1>2, QuietOutside
<1> QED
  BY ZenonT(60), <1>1, <1>3, <1>4, RegisterKeeps
-----------------------------------------------------------------------------
LEMMA InitInv ==
  ASSUME Init
  PROVE  Inv
<1>1. ThreadsTyped
  BY ZenonT(60), SppCtlAssumption, IdleThread
  DEF Init, ThreadsTyped, Threads, Acceptors
<1>2. Typed
  BY <1>1 DEF Init, Typed, Acceptors
<1>3. \A t \in Threads : th[t].pc = "idle"
  BY ZenonT(60), IdleThread DEF Init
<1>4. SemHeld /\ BacklogDistinct
  BY SMTT(60), <1>3 DEF Init, SemHeld, BacklogDistinct, Acceptors, Threads
<1>5. \A o \in Conns : ~Used(o) /\ connOf[o] = o
  BY <1>3, SppCtlAssumption DEF Init, Used, Conns, Ids
<1>6. OwnConn
  BY Zenon, <1>5 DEF OwnConn
<1>7. OneMessage
  <2>1. \A c \in Conns : cmdq[c] = <<>> /\ repq[c] = <<>>
    BY DEF Init
  <2>2. Len(<<>>) + Len(<<>>) <= 1
    OBVIOUS
  <2> QED
    BY Zenon, <2>1, <2>2 DEF OneMessage
<1> QED
  BY <1>2, <1>4, <1>6, <1>7 DEF Inv

LEMMA NextInv ==
  ASSUME Inv, [Next]_vars
  PROVE  Inv'
<1>1. CASE UNCHANGED vars
  <2>1. Typed' /\ SemHeld'
    BY ZenonT(60), <1>1 DEF vars, Inv, Typed, ThreadsTyped, SemHeld
  <2>2. \A p \in Conns : Used(p)' => Used(p)
    BY ZenonT(60), <1>1 DEF vars, Used
  <2>3. BacklogDistinct' /\ OwnConn'
    BY <1>1, <2>2, KeepsConns DEF vars
  <2>4. OneMessage'
    BY Zenon, <1>1 DEF vars, Inv, OneMessage, Owner, OwnerIn, Alive
  <2> QED
    BY <2>1, <2>3, <2>4 DEF Inv
<1>2. CASE \E i \in Ids : Connect(i) \/ Disconnect(i) \/ Serve(i)
  BY <1>2, ConnectKeeps, DisconnectKeeps, ServeKeeps
<1>3. CASE \E t \in Reqs : Request(t) \/ Proceed(t)
  BY <1>3, BeginKeeps, ProceedKeeps
<1>4. CASE accept_primary
  BY <1>4, AcceptPrimaryKeeps, SwapPrimaryKeeps DEF accept_primary
<1>5. CASE accept_secondary
  BY <1>5, AcceptSecondaryKeeps, ReceiveIdKeeps, NoIdKeeps, ReplaceSecondaryKeeps
  DEF accept_secondary
<1> QED
  BY ZenonT(60), <1>1, <1>2, <1>3, <1>4, <1>5 DEF Next

LEMMA ConcatOf ==
  ASSUME NEW S, NEW s \in Seq(S), NEW r \in Seq(S), NEW k \in DOMAIN (s \o r)
  PROVE  k \in 1 .. Len(s) + Len(r)
OBVIOUS

(* What is in flight on a connection belongs to the thread waiting there. *)
LEMMA InvOwnReply ==
  ASSUME Inv
  PROVE  OwnReply
<1> SUFFICES ASSUME NEW t \in Threads, th[t].pc = "recv",
                    NEW k \in DOMAIN (cmdq[th[t].conn] \o repq[th[t].conn])
             PROVE  (cmdq[th[t].conn] \o repq[th[t].conn])[k].by = t
  BY Zenon DEF OwnReply
<1> DEFINE c == th[t].conn
<1>1. c \in Conns
  <2>1. CASE t \in Reqs
    <3>1. th[t].obj \in Conns /\ c = connOf[th[t].obj]
      BY Zenon, <2>1 DEF Inv, Typed, ThreadsTyped, SemHeld
    <3> QED
      BY <3>1 DEF Inv, Typed
  <2>2. CASE t \in Acceptors
    BY ZenonT(60), <2>2 DEF Inv, Typed, ThreadsTyped
  <2> QED
    BY ZenonT(60), <2>1, <2>2 DEF Threads, Acceptors
<1>2. cmdq[c] \in Seq(Msg) /\ repq[c] \in Seq(Msg) /\ Len(cmdq[c]) + Len(repq[c]) <= 1
      /\ (cmdq[c] # <<>> => Owner(cmdq[c][1].by, c))
      /\ (repq[c] # <<>> => Owner(repq[c][1].by, c))
  BY <1>1 DEF Inv, Typed, OneMessage
<1>3. Owner(t, c)
  BY DEF Owner, OwnerIn
<1> HIDE DEF c
<1>4. k \in 1 .. Len(cmdq[c]) + Len(repq[c])
  <2>1. k \in DOMAIN (cmdq[c] \o repq[c])
    BY ZenonT(60) DEF c
  <2> QED
    BY Zenon, <1>2, <2>1, ConcatOf
<1>5. CASE cmdq[c] # <<>>
  <2>1. Len(repq[c]) + Len(cmdq[c]) <= 1
    BY Zenon, <1>2, LenOf
  <2>2. repq[c] = <<>> /\ Len(cmdq[c]) = 1
    BY ZenonT(60), <1>2, <1>5, <2>1, OnlyOne
  <2>3. (cmdq[c] \o repq[c])[k] = cmdq[c][1]
    BY SMTT(60), <1>2, <1>4, <2>2
  <2> QED
    BY Zenon, <1>1, <1>2, <1>3, <1>5, <2>3, SenderOf, OneOwner DEF c
<1>6. CASE cmdq[c] = <<>>
  <2>1. repq[c] # <<>>
    BY <1>4, <1>6
  <2>2. Len(repq[c]) = 1
    BY ZenonT(60), <1>2, <2>1, OnlyOne
  <2>3. (cmdq[c] \o repq[c])[k] = repq[c][1]
    BY <1>2, <1>4, <1>6, <2>2
  <2> QED
    BY ZenonT(60), <1>1, <1>2, <1>3, <2>1, <2>3, SenderOf, OneOwner DEF c
<1> QED
  BY <1>5, <1>6

(* Whatever requests, disconnections, reconnections and replacements        *)
(* interleave, a thread of spp-ctl that waits for a reply can only read the *)
(* reply to its own command.                                                *)
THEOREM OwnReplyAlways == Spec => []OwnReply
<1>1. Init => Inv
  BY InitInv
<1>2. Inv /\ [Next]_vars => Inv'
  BY NextInv
<1>3. Inv => OwnReply
  BY ZenonT(60), InvOwnReply
<1> QED
  BY <1>1, <1>2, <1>3, PTL DEF Spec
-----------------------------------------------------------------------------
(* The registry.  A secondary that has not lost its first connection: *)
Steady(i) == i \in up /\ made[i] = 1

(* A process that a scan can have failed to reach *)
Lost(i) == i \in Ids /\ made[i] >= 1 /\ (i \in Secs => ~Steady(i))

(* A scan asks a process object of the id it is at, and has noted only       *)
(* processes that were lost.                                                 *)
ScanFits(r) ==
  /\ r.removed \in Seq(Ids)
  /\ \A k \in DOMAIN r.removed : Lost(r.removed[k])
  /\ r.op \in {"procs", "cpu"} /\ r.pc # "idle" => /\ r.cur \in Ids
                                                  /\ r.obj[1] = r.cur

(* Process objects stay with the id they were made for, and those of the     *)
(* secondaries with their first connection.                                  *)
Objects ==
  /\ \A i \in Ids : procs[i] # None => procs[i][1] = i
  /\ \A c \in Conns : /\ connOf[c][1] = c[1]
                      /\ c[1] \in Secs => connOf[c] = c
  /\ \A c \in closed : c \in Conns /\ c[2] <= made[c[1]]
  /\ th[AccPri].pc = "swap" => th[AccPri].obj[1] = Pri
  /\ th[AccSec].pc = "swap" => th[AccSec].obj[1] = th[AccSec].conn[1]
  /\ th[AccSec].pc = "idle" => th[AccSec].conn = None

Waits(c) == \E k \in DOMAIN backlog[AccSec] : backlog[AccSec][k] = c

(* The connection of a steady secondary is open, and once the handshake is   *)
(* over only an exit takes it off the registry.                              *)
Listed ==
  \A i \in Secs : LET c == <<i, 1>> IN
    Steady(i) =>
      /\ c \notin closed
      /\ i \notin exited /\ ~Waits(c) /\ th[AccSec].conn # c => procs[i] = c

RegInv == Objects /\ (\A t \in Reqs : ScanFits(th[t])) /\ Listed
(* Requests leave the connections alone. *)
LEMMA RequestRegs ==
  ASSUME Inv, RegInv, NEW t \in Reqs, NEW r, ScanFits(r),
         th' = [th EXCEPT ![t] = r],
         UNCHANGED <<connOf, closed, backlog, up, made>>,
         \A i \in Ids : procs'[i] \in {procs[i], None},
         \A i \in Secs : Steady(i) /\ procs'[i] # procs[i] => i \in exited',
         exited \subseteq exited'
  PROVE  RegInv'
<1>1. th'[t] = r /\ \A u \in Threads \ {t} : th'[u] = th[u]
  BY ZenonT(60) DEF Inv, Typed, ThreadsTyped, Threads
<1>2. th'[AccPri] = th[AccPri] /\ th'[AccSec] = th[AccSec]
  BY ZenonT(60), <1>1, SppCtlAssumption DEF Threads
<1>3. Objects'
  BY ZenonT(60), <1>2 DEF RegInv, Objects
<1>4. \A u \in Reqs : ScanFits(th[u])'
  <2> SUFFICES ASSUME NEW u \in Reqs PROVE ScanFits(th[u])'
    BY ZenonT(60)
  <2>1. \A i : Lost(i)' <=> Lost(i)
    BY ZenonT(60) DEF Lost, Steady
  <2>2. ScanFits(th'[u])
    BY ZenonT(60), <1>1 DEF RegInv, Threads
  <2> QED
    BY ZenonT(60), <2>1, <2>2 DEF ScanFits
<1>5. Listed'
  BY ZenonT(60), <1>2 DEF RegInv, Listed, Steady, Waits, Ids
<1> QED
  BY ZenonT(60), <1>3, <1>4, <1>5 DEF RegInv

LEMMA ExecFits ==
  ASSUME NEW t \in Reqs, NEW s, IsThread(s), NEW o, NEW sm, Exec(t, s, o, sm),
         s.removed \in Seq(Ids), \A k \in DOMAIN s.removed : Lost(s.removed[k]),
         s.op \in {"procs", "cpu"} => s.cur \in Ids /\ o[1] = s.cur
  PROVE  \E r : ScanFits(r) /\ th' = [th EXCEPT ![t] = r]
<1>1. CASE sm[o] = None /\ Waiting(o) \ {t} = {}
  <2> DEFINE r == [s EXCEPT !.pc = "recv", !.obj = o, !.conn = connOf[o]]
  <2>1. th' = [th EXCEPT ![t] = r]
    BY <1>1 DEF Exec
  <2>2. r.removed = s.removed /\ r.op = s.op /\ r.cur = s.cur /\ r.obj = o
    BY DEF IsThread, Fields
  <2> HIDE DEF r
  <2> QED
    BY Zenon, <2>1, <2>2 DEF ScanFits
<1>2. CASE ~(sm[o] = None /\ Waiting(o) \ {t} = {})
  <2> DEFINE r == [s EXCEPT !.pc = "sem", !.obj = o]
  <2>1. th' = [th EXCEPT ![t] = r]
    BY <1>2 DEF Exec
  <2>2. r.removed = s.removed /\ r.op = s.op /\ r.cur = s.cur /\ r.obj = o
    BY ZenonT(60) DEF IsThread, Fields
  <2> HIDE DEF r
  <2> QED
    BY Zenon, <2>1, <2>2 DEF ScanFits
<1> QED
  BY <1>1, <1>2

LEMMA IdleFits == ScanFits(Idle)
BY DEF ScanFits, Idle

(* A scan removes only processes that it noted. *)
LEMMA IterateFits ==
  ASSUME Inv, RegInv, NEW t \in Reqs, NEW s, IsThread(s), NEW sm, Iterate(t, s, sm),
         s.removed \in Seq(Ids), \A k \in DOMAIN s.removed : Lost(s.removed[k])
  PROVE  /\ \E r : ScanFits(r) /\ th' = [th EXCEPT ![t] = r]
         /\ \A i \in Ids : procs'[i] \in {procs[i], None}
         /\ \A i \in Secs : Steady(i) => procs'[i] = procs[i]
<1>1. CASE th' = [th EXCEPT ![t] = Idle] /\ UNCHANGED procs
  BY Zenon, <1>1, IdleFits
<1>2. CASE /\ \E i \in Registered \ s.seen : Exec(t, [s EXCEPT !.cur = i], procs[i], sm)
           /\ UNCHANGED procs
  <2>1. PICK i \in Registered \ s.seen : Exec(t, [s EXCEPT !.cur = i], procs[i], sm)
    BY <1>2
  <2>2. i \in Ids /\ procs[i][1] = i
    BY <2>1 DEF Registered, RegInv, Objects
  <2> DEFINE q == [s EXCEPT !.cur = i]
  <2>3. IsThread(q) /\ q.cur = i /\ q.removed = s.removed
    BY DEF IsThread, Fields
  <2>4. Exec(t, q, procs[i], sm)
    BY <2>1
  <2> HIDE DEF q
  <2>5. \E r : ScanFits(r) /\ th' = [th EXCEPT ![t] = r]
    BY Zenon, <2>2, <2>3, <2>4, ExecFits
  <2> QED
    BY Zenon, <1>2, <2>5
<1>3. CASE /\ procs' = [i \in Ids |-> IF i \in Deleted(s.removed) THEN None ELSE procs[i]]
           /\ th' = [th EXCEPT ![t] = Idle]
  <2>1. \A i \in Deleted(s.removed) : Lost(i)
    BY ZenonT(60) DEF Deleted
  <2>2. \A i \in Secs : Steady(i) => i \notin Deleted(s.removed)
    BY ZenonT(60), <2>1 DEF Lost
  <2>3. \A i \in Secs : Steady(i) => procs'[i] = procs[i]
    BY <1>3, <2>2 DEF Ids
  <2> QED
    BY ZenonT(60), <1>3, <2>3, IdleFits
<1> QED
  BY <1>1, <1>2, <1>3 DEF Iterate

LEMMA BeginRegs ==
  ASSUME Inv, RegInv, NEW t \in Reqs, Request(t)
  PROVE  RegInv'
<1>1. CASE \E op \in {"procs", "cpu"} : BeginScan(t, op)
  <2>1. PICK op \in {"procs", "cpu"} : BeginScan(t, op)
    BY <1>1
  <2> DEFINE s == [Idle EXCEPT !.op = op, !.size = Cardinality(Registered),
                               !.seen = IF op = "procs" THEN {Pri} ELSE {}]
  <2>2. IsThread(s) /\ s.removed = <<>>
    BY DEF IsThread, Fields, Idle
  <2>3. Iterate(t, s, sem) /\ UNCHANGED <<connOf, closed, backlog, up, made, exited>>
    BY ZenonT(60), <2>1 DEF BeginScan, peers
  <2> HIDE DEF s
  <2>4. s.removed \in Seq(Ids) /\ \A k \in DOMAIN s.removed : Lost(s.removed[k])
    BY <2>2
  <2>5. /\ \E r : ScanFits(r) /\ th' = [th EXCEPT ![t] = r]
        /\ \A i \in Ids : procs'[i] \in {procs[i], None}
        /\ \A i \in Secs : Steady(i) => procs'[i] = procs[i]
    BY Zenon, <2>2, <2>3, <2>4, IterateFits
  <2> QED
    BY Zenon, <2>3, <2>5, RequestRegs
<1>2. ASSUME NEW i \in Ids, BeginCommand(t, i)
      PROVE  RegInv'
  <2>1. Exec(t, Idle, procs[i], sem)
        /\ UNCHANGED <<procs, connOf, closed, backlog, up, made, exited>>
    BY ZenonT(60), <1>2 DEF BeginCommand, peers
  <2>2. IsThread(Idle) /\ Idle.removed = <<>> /\ Idle.op = "cmd"
    BY ZenonT(60) DEF IsThread, Fields, Idle
  <2>3. Idle.removed \in Seq(Ids) /\ \A k \in DOMAIN Idle.removed : Lost(Idle.removed[k])
    BY <2>2
  <2>4. \E r : ScanFits(r) /\ th' = [th EXCEPT ![t] = r]
    BY Zenon, <2>1, <2>2, <2>3, ExecFits
  <2> QED
    BY ZenonT(60), <2>1, <2>4, RequestRegs
<1>3. ASSUME NEW i \in Ids, BeginExit(t, i)
      PROVE  RegInv'
  <2> DEFINE s == [Idle EXCEPT !.op = "exit"]
  <2>1. Exec(t, s, procs[i], sem)
        /\ UNCHANGED <<connOf, closed, backlog, up, made>>
        /\ procs' = [procs EXCEPT ![i] = None] /\ exited' = exited \cup {i}
    BY <1>3 DEF BeginExit, peers
  <2>2. IsThread(s) /\ s.removed = <<>> /\ s.op = "exit"
    BY DEF IsThread, Fields, Idle
  <2> HIDE DEF s
  <2>3. s.removed \in Seq(Ids) /\ \A k \in DOMAIN s.removed : Lost(s.removed[k])
    BY <2>2
  <2>4. \E r : ScanFits(r) /\ th' = [th EXCEPT ![t] = r]
    BY ZenonT(60), <2>1, <2>2, <2>3, ExecFits
  <2>5. /\ \A j \in Ids : procs'[j] \in {procs[j], None}
        /\ \A j \in Ids : procs'[j] # procs[j] => j \in exited'
        /\ exited \subseteq exited'
    BY ZenonT(60), <2>1 DEF Inv, Typed
  <2> QED
    BY Zenon, <2>1, <2>4, <2>5, RequestRegs DEF Ids
<1> QED
  BY <1>1, <1>2, <1>3 DEF Request
(* A process whose connection has failed was lost. *)
LEMMA GoneLost ==
  ASSUME Inv, RegInv, NEW t \in Reqs, Gone(t), th[t].op \in {"procs", "cpu"}
  PROVE  Lost(th[t].cur)
<1> DEFINE o == th[t].obj
           c == th[t].conn
           i == th[t].cur
<1>1. o \in Conns /\ Used(o) /\ c = connOf[o] /\ i \in Ids /\ o[1] = i
  BY SMTT(30) DEF Gone, Inv, Typed, ThreadsTyped, SemHeld, Used, Threads, RegInv, ScanFits
<1>2. c \in Conns /\ c[1] = i /\ ~InHand(c)
  BY ZenonT(60), <1>1 DEF Inv, Typed, OwnConn, RegInv, Objects
<1>3. c[2] \in 1 .. MaxConns /\ c = <<i, c[2]>> /\ made[i] \in Nat
  <2>1. c = <<c[1], c[2]>> /\ c[2] \in 1 .. MaxConns
    BY ZenonT(60), <1>2, ConnParts, ConnRange
  <2>2. made[i] \in Nat
    BY ZenonT(60), <1>1 DEF Inv, Typed
  <2> QED
    BY ZenonT(60), <1>2, <2>1, <2>2
<1>4. c[2] <= made[i]
  BY ZenonT(60), <1>2, <1>3, ConnRange DEF InHand
<1>5. ~Alive(c) \/ c \in closed
  BY DEF Gone
<1> HIDE DEF o, c, i
<1>6. ASSUME i \in Secs, Steady(i)
      PROVE  FALSE
  <2>1. c[2] = 1
    BY <1>3, <1>4, <1>6, SppCtlAssumption DEF Steady
  <2>2. c = <<i, 1>> /\ Alive(c)
    BY ZenonT(60), <1>2, <1>3, <1>6, <2>1 DEF Alive, Steady
  <2> QED
    BY ZenonT(60), <1>5, <1>6, <2>2 DEF RegInv, Listed
<1>7. Lost(i)
  <2>1. made[i] >= 1
    BY ZenonT(60), <1>2, <1>3, <1>4, ConnRange
  <2> QED
    BY ZenonT(60), <1>1, <1>6, <2>1 DEF Lost
<1> QED
  BY ZenonT(60), <1>7 DEF i

LEMMA AppendFits ==
  ASSUME NEW s \in Seq(Ids), NEW i, Lost(i), \A k \in DOMAIN s : Lost(s[k])
  PROVE  /\ Append(s, i) \in Seq(Ids)
         /\ \A k \in DOMAIN Append(s, i) : Lost(Append(s, i)[k])
<1>1. i \in Ids
  BY DEF Lost
<1>2. Append(s, i) \in Seq(Ids)
  BY ZenonT(60), <1>1, AppendIn
<1> QED
  BY ZenonT(60), <1>1, <1>2, AppendOf

LEMMA ContinueFits ==
  ASSUME Inv, RegInv, NEW t \in Reqs, NEW ok \in BOOLEAN, Continue(t, ok),
         ~ok => Gone(t)
  PROVE  /\ \E r : ScanFits(r) /\ th' = [th EXCEPT ![t] = r]
         /\ \A i \in Ids : procs'[i] \in {procs[i], None}
         /\ \A i \in Secs : Steady(i) => procs'[i] = procs[i]
<1> DEFINE q == [th[t] EXCEPT !.seen = @ \cup {th[t].cur},
                              !.removed = IF ok THEN @ ELSE Append(@, th[t].cur)]
           sm == [sem EXCEPT ![th[t].obj] = None]
<1>1. CASE th[t].op \in {"procs", "cpu"}
  <2>1. Iterate(t, q, sm)
    BY <1>1 DEF Continue
  <2>2. IsThread(th[t])
    BY Zenon DEF Inv, Typed, ThreadsTyped, Threads
  <2>3. IsThread(q) /\ q.removed = IF ok THEN th[t].removed
                                   ELSE Append(th[t].removed, th[t].cur)
    BY <2>2 DEF IsThread, Fields
  <2>4. ScanFits(th[t])
    BY ZenonT(60) DEF RegInv
  <2>5. ~ok => Lost(th[t].cur)
    BY <1>1, GoneLost
  <2> HIDE DEF q, sm
  <2>6. q.removed \in Seq(Ids) /\ \A k \in DOMAIN q.removed : Lost(q.removed[k])
    <3>1. CASE ok
      BY <2>3, <2>4, <3>1 DEF ScanFits
    <3>2. CASE ~ok
      <4>1. q.removed = Append(th[t].removed, th[t].cur)
        BY ZenonT(60), <2>3, <3>2
      <4>2. th[t].removed \in Seq(Ids)
            /\ \A k \in DOMAIN th[t].removed : Lost(th[t].removed[k])
        BY <2>4 DEF ScanFits
      <4> QED
        BY ZenonT(60), <2>5, <3>2, <4>1, <4>2, AppendFits
    <3> QED
      BY ZenonT(60), <3>1, <3>2
  <2> QED
    BY Zenon, <2>1, <2>3, <2>6, IterateFits
<1>2. CASE th[t].op \notin {"procs", "cpu"}
  <2>1. th' = [th EXCEPT ![t] = Idle] /\ procs' = procs
    BY <1>2 DEF Continue
  <2> QED
    BY Zenon, <2>1, IdleFits
<1> QED
  BY <1>1, <1>2

LEMMA ProceedRegs ==
  ASSUME Inv, RegInv, NEW t \in Reqs, Proceed(t)
  PROVE  RegInv'
<1>1. CASE Wake(t)
  <2> DEFINE r == [th[t] EXCEPT !.pc = "recv", !.conn = connOf[th[t].obj]]
  <2>1. t \in Threads /\ IsThread(th[t])
    BY Zenon DEF Inv, Typed, ThreadsTyped, Threads
  <2>2. th' = [th EXCEPT ![t] = r]
    BY Zenon, <1>1, <2>1 DEF Wake, Inv, Typed, ThreadsTyped
  <2>3. r.removed = th[t].removed /\ r.op = th[t].op /\ r.cur = th[t].cur
        /\ r.obj = th[t].obj
    BY <2>1 DEF IsThread, Fields
  <2>4. ScanFits(th[t]) /\ th[t].pc # "idle"
    BY <1>1 DEF RegInv, Wake
  <2>5. UNCHANGED <<procs, connOf, closed, backlog, up, made, exited>>
    BY ZenonT(60), <1>1 DEF Wake, peers
  <2> HIDE DEF r
  <2>6. ScanFits(r)
    BY <2>3, <2>4 DEF ScanFits
  <2> QED
    BY Zenon, <2>2, <2>5, <2>6, RequestRegs
<1>2. CASE Reply(t)
  <2>1. Continue(t, TRUE) /\ UNCHANGED <<connOf, closed, backlog, up, made, exited>>
    BY Zenon, <1>2 DEF Reply
  <2> QED
    BY Zenon, <2>1, ContinueFits, RequestRegs
<1>3. CASE Fail(t)
  <2>1. Gone(t) /\ Continue(t, FALSE)
        /\ UNCHANGED <<connOf, closed, backlog, up, made, exited>>
    BY ZenonT(60), <1>3 DEF Fail, peers
  <2> QED
    BY Zenon, <2>1, ContinueFits, RequestRegs
<1> QED
  BY <1>1, <1>2, <1>3 DEF Proceed
(* A lost process never becomes steady again: what a scan has noted stays    *)
(* true whatever the processes do.                                           *)
LEMMA PeerScans ==
  ASSUME RegInv, th' = th, \A i : Lost(i) => Lost(i)'
  PROVE  \A t \in Reqs : ScanFits(th[t])'
BY ZenonT(60) DEF RegInv, ScanFits

LEMMA ConnectRegs ==
  ASSUME Inv, RegInv, NEW i \in Ids, Connect(i)
  PROVE  RegInv'
<1>1. UNCHANGED <<procs, connOf, closed, th, exited>> /\ i \notin up
      /\ up' = up \cup {i} /\ made' = [made EXCEPT ![i] = @ + 1]
  BY DEF Connect
<1>2. made \in [Ids -> Nat]
  BY DEF Inv, Typed
<1>3. \A j \in Ids : made'[j] \in Nat /\ made'[j] >= made[j]
                     /\ (j # i => made'[j] = made[j])
  BY <1>1, <1>2
<1>4. made'[i] = made[i] + 1
  BY ZenonT(60), <1>1, <1>2
<1>5. \A t \in Reqs : ScanFits(th[t])'
  <2>1. ASSUME NEW j, Lost(j) PROVE Lost(j)'
    BY <1>1, <1>2, <1>3, <1>4, <2>1 DEF Lost, Steady
  <2> QED
    BY ZenonT(60), <1>1, <2>1, PeerScans
<1>6. Objects'
  <2>1. \A c \in closed : c \in Conns /\ c[2] <= made'[c[1]]
    BY <1>2, <1>3 DEF RegInv, Objects, Conns
  <2> QED
    BY ZenonT(60), <1>1, <2>1 DEF RegInv, Objects
<1>7. PICK b, d : b = backlog[AccSec] /\ d = <<i, made[i] + 1>>
  BY ZenonT(30)
<1>8. backlog'[AccSec] = IF i = Pri THEN b ELSE Append(b, d)
  BY Zenon, <1>7, SppCtlAssumption DEF Connect, Inv, Typed, Acceptors
<1>9. /\ \A k \in DOMAIN b : k \in DOMAIN Append(b, d) /\ Append(b, d)[k] = b[k]
      /\ Len(b) + 1 \in DOMAIN Append(b, d) /\ Append(b, d)[Len(b) + 1] = d
  <2>1. b \in Seq(Conns)
    <3>1. backlog \in [Acceptors -> Seq(Conns)]
      BY Zenon DEF Inv, Typed
    <3> QED
      BY Zenon, <1>7, <3>1 DEF Acceptors
  <2>2. d \in Conns
    <3>1. made[i] \in Nat /\ made[i] < MaxConns
      BY ZenonT(60), <1>2 DEF Connect
    <3>2. made[i] + 1 \in 1 .. MaxConns
      BY <3>1, SppCtlAssumption
    <3> QED
      BY Zenon, <1>7, <3>2 DEF Conns
  <2> QED
    BY ZenonT(30), <2>1, <2>2, AppendOf
<1>10. /\ \A c : Waits(c) => Waits(c)'
       /\ i \in Secs => Waits(d)'
  BY ZenonT(60), <1>7, <1>8, <1>9, SppCtlAssumption DEF Waits
<1>11. Listed'
  <2> SUFFICES ASSUME NEW j \in Secs, Steady(j)'
               PROVE  /\ <<j, 1>> \notin closed
                      /\ j \notin exited /\ ~Waits(<<j, 1>>)' /\ th[AccSec].conn # <<j, 1>>
                           => procs[j] = <<j, 1>>
    BY ZenonT(60), <1>1 DEF Listed
  <2>1. CASE j = i
    <3>1. made'[i] = 1 /\ made[i] \in Nat
      BY ZenonT(60), <1>2, <2>1 DEF Steady
    <3>2. made[i] = 0 /\ made[i] + 1 = 1
      BY <1>4, <3>1
    <3>3. Waits(<<j, 1>>)'
      BY ZenonT(60), <1>7, <1>10, <2>1, <3>2
    <3>4. <<j, 1>> \notin closed
      BY <2>1, <3>2 DEF RegInv, Objects
    <3> QED
      BY <3>3, <3>4
  <2>2. CASE j # i
    <3>1. Steady(j)
      BY <1>1, <1>3, <2>2 DEF Steady, Ids
    <3> QED
      BY ZenonT(60), <1>10, <3>1 DEF RegInv, Listed
  <2> QED
    BY ZenonT(60), <2>1, <2>2
<1> QED
  BY ZenonT(60), <1>5, <1>6, <1>11 DEF RegInv

LEMMA PeerRegs ==
  ASSUME Inv, RegInv, UNCHANGED <<procs, connOf, closed, th, backlog, made, exited>>,
         up' \subseteq up
  PROVE  RegInv'
<1>1. \A j : Steady(j)' => Steady(j)
  BY DEF Steady
<1>2. \A t \in Reqs : ScanFits(th[t])'
  <2>1. ASSUME NEW j, Lost(j) PROVE Lost(j)'
    BY ZenonT(60), <1>1, <2>1 DEF Lost
  <2> QED
    BY <2>1, PeerScans
<1>3. Objects'
  BY ZenonT(60), SMTT(30) DEF RegInv, Objects
<1>4. Listed'
  BY ZenonT(60), <1>1 DEF RegInv, Listed, Waits
<1> QED
  BY <1>2, <1>3, <1>4 DEF RegInv

(* What the acceptors do is nothing to a scan. *)
LEMMA AcceptorScans ==
  ASSUME Inv, RegInv, NEW a \in Acceptors, UNCHANGED <<up, made>>,
         \A u \in Threads \ {a} : th'[u] = th[u]
  PROVE  \A t \in Reqs : ScanFits(th[t])'
<1>1. \A t \in Reqs : th'[t] = th[t]
  BY ZenonT(60), SppCtlAssumption DEF Acceptors, Threads
<1>2. \A j : Lost(j)' <=> Lost(j)
  BY ZenonT(60) DEF Lost, Steady
<1> QED
  BY ZenonT(60), <1>1, <1>2 DEF RegInv, ScanFits

LEMMA AcceptorTh ==
  ASSUME Inv, NEW a \in Acceptors, NEW r, th' = [th EXCEPT ![a] = r]
  PROVE  th'[a] = r /\ \A u \in Threads \ {a} : th'[u] = th[u]
BY ZenonT(60) DEF Inv, Typed, ThreadsTyped, Threads, Acceptors
(* The acceptor of the primary touches no secondary. *)
LEMMA PrimaryRegs ==
  ASSUME Inv, RegInv,
         \A u \in Threads \ {AccPri} : th'[u] = th[u],
         th'[AccPri].pc = "swap" => th'[AccPri].obj[1] = Pri,
         backlog'[AccSec] = backlog[AccSec], UNCHANGED <<up, made, exited>>,
         \A i \in Secs : procs'[i] = procs[i],
         procs'[Pri] # None => procs'[Pri][1] = Pri,
         NEW o, connOf' = connOf \/ (o \in Conns /\ o[1] = Pri),
         \A c \in Conns \ {o} : connOf'[c] = connOf[c],
         o \in Conns => connOf'[o][1] = o[1],
         \A c \in closed' \ closed : c \in Conns /\ c[1] = Pri /\ c[2] <= made[Pri]
  PROVE  RegInv'
<1>1. th'[AccSec] = th[AccSec]
  BY ZenonT(60), SppCtlAssumption DEF Threads
<1>2. Objects'
  <2>1. \A i \in Ids : procs'[i] # None => procs'[i][1] = i
    BY ZenonT(30) DEF RegInv, Objects, Ids
  <2>2. \A c \in Conns : connOf'[c][1] = c[1] /\ (c[1] \in Secs => connOf'[c] = c)
    <3> SUFFICES ASSUME NEW c \in Conns
                 PROVE  connOf'[c][1] = c[1] /\ (c[1] \in Secs => connOf'[c] = c)
      BY Zenon
    <3>1. connOf[c][1] = c[1] /\ (c[1] \in Secs => connOf[c] = c)
      BY Zenon DEF RegInv, Objects
    <3>2. CASE c = o
      <4>1. CASE connOf' = connOf
        BY Zenon, <3>1, <4>1
      <4>2. CASE o \in Conns /\ o[1] = Pri
        BY Zenon, <3>2, <4>2, SppCtlAssumption
      <4> QED
        BY Zenon, <4>1, <4>2
    <3>3. CASE c # o
      BY Zenon, <3>1, <3>3
    <3> QED
      BY Zenon, <3>2, <3>3
  <2>3. \A c \in closed' : c \in Conns /\ c[2] <= made[c[1]]
    BY Zenon DEF RegInv, Objects
  <2> QED
    BY SMTT(30), <1>1, <2>1, <2>2, <2>3 DEF RegInv, Objects
<1>3. \A t \in Reqs : ScanFits(th[t])'
  BY ZenonT(60), AcceptorScans DEF Acceptors
<1>4. \A i \in Secs : <<i, 1>> \notin closed => <<i, 1>> \notin closed'
  BY ZenonT(60), SppCtlAssumption, PairFirst
<1>5. Listed'
  <2>1. \A i \in Secs : Steady(i)' <=> Steady(i)
    BY Zenon DEF Steady
  <2>2. \A c : Waits(c)' <=> Waits(c)
    BY Zenon DEF Waits
  <2>3. exited' = exited /\ th'[AccSec].conn = th[AccSec].conn
    BY Zenon, <1>1
  <2>4. \A i \in Secs : procs'[i] = procs[i]
    BY Zenon
  <2> QED
    BY ZenonT(60), <1>4, <2>1, <2>2, <2>3, <2>4 DEF RegInv, Listed
<1> QED
  BY ZenonT(60), <1>2, <1>3, <1>5 DEF RegInv

(* The connection of a process object in use was made. *)
LEMMA UsedMade ==
  ASSUME Inv, RegInv, NEW o \in Conns, Used(o)
  PROVE  /\ connOf[o] \in Conns /\ connOf[o][1] = o[1] /\ o[1] \in Ids
         /\ connOf[o][2] <= made[o[1]] /\ connOf[o] = <<o[1], connOf[o][2]>>
         /\ connOf[o][2] \in 1 .. MaxConns
         /\ ~InHand(o) /\ ~InHand(connOf[o])
<1>1. connOf[o] \in Conns /\ connOf[o][1] = o[1] /\ ~InHand(o) /\ ~InHand(connOf[o])
  BY ZenonT(60) DEF Inv, Typed, OwnConn, RegInv, Objects
<1>2. PICK d : d = connOf[o]
  BY ZenonT(60)
<1>3. d = <<d[1], d[2]>> /\ d[1] \in Ids /\ d[2] \in 1 .. MaxConns
  BY ZenonT(60), <1>1, <1>2, ConnParts, ConnRange
<1>4. made[d[1]] \in Nat
  BY ZenonT(60), <1>3 DEF Inv, Typed
<1>5. d[2] <= made[d[1]]
  BY ZenonT(60), <1>1, <1>2, <1>4, ConnRange DEF InHand
<1> QED
  BY ZenonT(60), <1>1, <1>2, <1>3, <1>5

LEMMA AcceptPrimaryRegs ==
  ASSUME Inv, RegInv, AcceptPrimary
  PROVE  RegInv'
<1> DEFINE c == Head(backlog[AccPri])
           o == procs[Pri]
<1>1. /\ backlog' = [backlog EXCEPT ![AccPri] = Tail(@)]
      /\ backlog[AccPri] # <<>> /\ UNCHANGED <<up, made, exited>>
  BY ZenonT(60) DEF AcceptPrimary
<1>2. c \in Conns /\ c[1] = Pri
  BY ZenonT(60), <1>1, HeadInHand DEF Acceptors
<1>3. backlog'[AccSec] = backlog[AccSec]
  BY ZenonT(60), <1>1, SppCtlAssumption DEF Inv, Typed, Acceptors
<1>4. o # None => o \in Conns /\ Used(o) /\ o[1] = Pri
  BY ZenonT(60), RegisteredUsed DEF Ids, RegInv, Objects
<1>5. Pri \in Ids /\ Pri \notin Secs /\ Secs \subseteq Ids /\ AccPri \in Acceptors
  BY ZenonT(60), SppCtlAssumption DEF Ids, Acceptors
<1>6. procs \in [Ids -> Conns \cup {None}] /\ connOf \in [Conns -> Conns]
      /\ \A d \in Conns : connOf[d][1] = d[1]
  BY ZenonT(60), SMTT(30) DEF Inv, Typed, RegInv, Objects
<1>7. th[AccPri].pc = "swap" => th[AccPri].obj[1] = Pri
  BY ZenonT(60) DEF RegInv, Objects
<1>8. CASE o = None
  <2>1. procs' = [procs EXCEPT ![Pri] = c] /\ UNCHANGED <<connOf, closed, th>>
    BY ZenonT(60), <1>8 DEF AcceptPrimary
  <2> HIDE DEF c, o
  <2>2. procs'[Pri] = c /\ \A i \in Secs : procs'[i] = procs[i]
    BY ZenonT(60), <1>5, <1>6, <2>1
  <2>3. c \in Conns => connOf'[c][1] = c[1]
    BY <1>6, <2>1
  <2> QED
    BY ZenonT(60), <1>1, <1>2, <1>3, <1>7, <2>1, <2>2, <2>3, PrimaryRegs
<1>9. CASE o # None /\ sem[o] = None /\ Waiting(o) = {}
  <2>1. closed' = closed \cup {connOf[o]} /\ connOf' = [connOf EXCEPT ![o] = c]
        /\ UNCHANGED <<procs, th>>
    BY ZenonT(60), <1>9 DEF AcceptPrimary
  <2>2. connOf[o] \in Conns /\ connOf[o][1] = Pri /\ connOf[o][2] <= made[Pri]
    BY ZenonT(60), <1>4, <1>9, UsedMade
  <2> HIDE DEF c, o
  <2>3. connOf'[o] = c /\ \A d \in Conns \ {o} : connOf'[d] = connOf[d]
    BY ZenonT(60), <1>4, <1>6, <1>9, <2>1
  <2>4. procs'[Pri] # None => procs'[Pri][1] = Pri
    BY ZenonT(60), <1>4, <2>1 DEF o
  <2>5. \A d \in closed' \ closed : d \in Conns /\ d[1] = Pri /\ d[2] <= made[Pri]
    BY <2>1, <2>2
  <2> QED
    BY ZenonT(60), <1>1, <1>2, <1>3, <1>4, <1>7, <1>9, <2>1, <2>3, <2>4, <2>5, PrimaryRegs
<1>10. CASE o # None /\ ~(sem[o] = None /\ Waiting(o) = {})
  <2> DEFINE r == [Idle EXCEPT !.pc = "swap", !.obj = o, !.conn = c]
  <2>1. th' = [th EXCEPT ![AccPri] = r] /\ UNCHANGED <<procs, connOf, closed>>
    BY <1>10 DEF AcceptPrimary
  <2>2. r.obj = o
    BY DEF Idle
  <2>3. procs'[Pri] # None => procs'[Pri][1] = Pri
    BY <1>4, <2>1
  <2> HIDE DEF c, o, r
  <2>4. th'[AccPri] = r /\ \A u \in Threads \ {AccPri} : th'[u] = th[u]
    BY ZenonT(60), <1>5, <2>1, AcceptorTh
  <2>5. o \in Conns => connOf'[o][1] = o[1]
    BY ZenonT(60), <1>6, <2>1
  <2> QED
    BY ZenonT(60), <1>1, <1>3, <1>4, <1>10, <2>1, <2>2, <2>3, <2>4, <2>5, PrimaryRegs
<1> QED
  BY <1>8, <1>9, <1>10

LEMMA SwapPrimaryRegs ==
  ASSUME Inv, RegInv, SwapPrimary
  PROVE  RegInv'
<1> DEFINE c == th[AccPri].conn
           o == th[AccPri].obj
<1>1. /\ th[AccPri].pc = "swap" /\ closed' = closed \cup {connOf[o]}
      /\ connOf' = [connOf EXCEPT ![o] = c] /\ th' = [th EXCEPT ![AccPri] = Idle]
      /\ UNCHANGED <<procs, backlog, up, made, exited>>
  BY ZenonT(60) DEF SwapPrimary, peers
<1>2. o \in Conns /\ Used(o) /\ o[1] = Pri
  BY ZenonT(60), <1>1 DEF Inv, Typed, ThreadsTyped, Used, Acceptors, Threads, RegInv, Objects
<1>3. c \in Conns /\ c[1] = Pri
  BY ZenonT(60), <1>1 DEF Inv, Typed, ThreadsTyped, Acceptors, Threads
<1>4. connOf[o] \in Conns /\ connOf[o][1] = Pri /\ connOf[o][2] <= made[Pri]
  BY <1>2, UsedMade
<1> HIDE DEF c, o
<1>5. th'[AccPri] = Idle /\ \A u \in Threads \ {AccPri} : th'[u] = th[u]
  BY ZenonT(60), <1>1, AcceptorTh DEF Acceptors
<1>6. connOf'[o] = c /\ \A d \in Conns \ {o} : connOf'[d] = connOf[d]
  BY ZenonT(60), <1>1, <1>2 DEF Inv, Typed
<1>7. procs'[Pri] # None => procs'[Pri][1] = Pri
  BY ZenonT(60), <1>1 DEF RegInv, Objects, Ids
<1>8. \A d \in closed' \ closed : d \in Conns /\ d[1] = Pri /\ d[2] <= made[Pri]
  BY ZenonT(60), <1>1, <1>4
<1>9. Idle.pc # "swap"
  BY DEF Idle
<1>10. \A i \in Secs : procs'[i] = procs[i]
  BY ZenonT(60), <1>1
<1>11. backlog'[AccSec] = backlog[AccSec]
  BY ZenonT(60), <1>1
<1> QED
  BY ZenonT(60), <1>1, <1>2, <1>3, <1>5, <1>6, <1>7, <1>8, <1>9, <1>10, <1>11, PrimaryRegs
(* What the acceptor of the secondaries deals with is a connection that was  *)
(* made and that no object has; of a steady process, it is the first one.    *)
LEMMA NewcomerOf ==
  ASSUME Inv, th[AccSec].pc # "idle"
  PROVE  LET c == th[AccSec].conn IN
         /\ c \in Conns /\ c[1] \in Secs /\ c[2] <= made[c[1]] /\ InHand(c)
         /\ Steady(c[1]) => c = <<c[1], 1>>
<1> DEFINE c == th[AccSec].conn
<1>1. c \in Conns /\ c[1] # Pri /\ c[2] <= made[c[1]] /\ InHand(c)
  BY ZenonT(60), SppCtlAssumption
  DEF Inv, Typed, ThreadsTyped, Acceptors, BacklogDistinct, InHand
<1>2. c = <<c[1], c[2]>> /\ c[1] \in Secs /\ c[2] \in 1 .. MaxConns
  BY ZenonT(60), <1>1, ConnParts, ConnRange DEF Ids
<1>3. Steady(c[1]) => c[2] = 1
  BY <1>1, <1>2, SppCtlAssumption DEF Steady
<1> QED
  BY ZenonT(60), <1>1, <1>2, <1>3

LEMMA FirstConn ==
  ASSUME NEW i \in Secs
  PROVE  <<i, 1>> \in Conns /\ <<i, 1>> # None
BY SMTT(30), SppCtlAssumption DEF Conns, Ids

LEMMA RegisterRegs ==
  ASSUME Inv, RegInv, NEW o, Register(th[AccSec].conn, o), th[AccSec].pc # "idle",
         o = None \/ (o \in Conns /\ Used(o) /\ o[1] = th[AccSec].conn[1]),
         UNCHANGED <<connOf, backlog, up, made, exited>>
  PROVE  RegInv'
<1>1. PICK c : c = th[AccSec].conn
  BY ZenonT(60)
<1>2. /\ procs' = [procs EXCEPT ![c[1]] = c]
      /\ closed' = (IF o = None THEN closed ELSE closed \cup {connOf[o]})
      /\ th' = [th EXCEPT ![AccSec] = Idle]
  BY ZenonT(60), <1>1 DEF Register
<1>3. /\ c \in Conns /\ c[1] \in Secs /\ c[1] \in Ids /\ InHand(c)
      /\ Steady(c[1]) => c = <<c[1], 1>>
  BY <1>1, NewcomerOf DEF Ids
<1>4. th'[AccSec] = Idle /\ \A u \in Threads \ {AccSec} : th'[u] = th[u]
  BY ZenonT(60), <1>2, AcceptorTh DEF Acceptors
<1>5. th'[AccPri] = th[AccPri] /\ Idle.pc = "idle" /\ Idle.conn = None
  BY ZenonT(60), <1>4, SppCtlAssumption DEF Threads, Idle
<1>6. /\ procs'[c[1]] = c
      /\ \A i \in Ids : i # c[1] => procs'[i] = procs[i]
  BY SMTT(30), <1>2, <1>3 DEF Inv, Typed
<1>7. o # None => /\ connOf[o] \in Conns /\ connOf[o][2] <= made[connOf[o][1]]
                  /\ connOf[o] = o /\ o[1] = c[1] /\ ~InHand(o)
  BY ZenonT(30), <1>1, <1>3, UsedMade DEF RegInv, Objects
<1>8. Objects'
  <2>1. \A i \in Ids : procs'[i] # None => procs'[i][1] = i
    BY ZenonT(60), <1>6 DEF RegInv, Objects
  <2>2. \A d \in closed' : d \in Conns /\ d[2] <= made[d[1]]
    BY Zenon, <1>2, <1>7 DEF RegInv, Objects
  <2> QED
    BY ZenonT(60), <1>4, <1>5, <2>1, <2>2 DEF RegInv, Objects
<1>9. \A t \in Reqs : ScanFits(th[t])'
  BY ZenonT(60), <1>4, AcceptorScans DEF Acceptors
<1>10. Listed'
  <2> SUFFICES ASSUME NEW i \in Secs, Steady(i)
               PROVE  /\ <<i, 1>> \notin closed'
                      /\ i \notin exited /\ ~Waits(<<i, 1>>) => procs'[i] = <<i, 1>>
    BY ZenonT(60) DEF Listed, Steady, Waits
  <2>1. /\ <<i, 1>> \notin closed
        /\ i \notin exited /\ ~Waits(<<i, 1>>) /\ c # <<i, 1>> => procs[i] = <<i, 1>>
    BY ZenonT(60), <1>1 DEF RegInv, Listed
  <2>2. CASE c[1] = i
    <3>1. c = <<i, 1>>
      BY ZenonT(60), <1>3, <2>2
    <3>2. o # None => o # <<i, 1>>
      BY ZenonT(60), <1>3, <1>7, <3>1
    <3> QED
      BY ZenonT(60), <1>2, <1>6, <1>7, <2>1, <2>2, <3>1, <3>2
  <2>3. CASE c[1] # i
    <3>1. c # <<i, 1>> /\ procs'[i] = procs[i]
      BY ZenonT(60), <1>6, <2>3, PairFirst DEF Ids
    <3>2. o # None => connOf[o] # <<i, 1>>
      BY ZenonT(60), <1>7, <2>3, PairFirst
    <3> QED
      BY ZenonT(60), <1>2, <2>1, <3>1, <3>2
  <2> QED
    BY ZenonT(60), <2>2, <2>3
<1> QED
  BY ZenonT(60), <1>8, <1>9, <1>10 DEF RegInv

LEMMA ReceiveIdRegs ==
  ASSUME Inv, RegInv, ReceiveId
  PROVE  RegInv'
<1> DEFINE c == th[AccSec].conn
           o == procs[c[1]]
<1>1. th[AccSec].pc = "recv" /\ UNCHANGED <<connOf, backlog, up, made, exited>>
  BY ZenonT(60) DEF ReceiveId, Answered
<1>2. c[1] \in Secs /\ c[1] \in Ids
  BY ZenonT(60), <1>1, NewcomerOf DEF Ids
<1>3. o # None => o \in Conns /\ Used(o) /\ o[1] = c[1]
  BY <1>2, RegisteredUsed DEF RegInv, Objects
<1>4. CASE o = None \/ (sem[o] = None /\ Waiting(o) = {})
  <2>1. Register(c, o)
    BY ZenonT(60), <1>4 DEF ReceiveId
  <2> QED
    BY ZenonT(60), <1>1, <1>3, <2>1, RegisterRegs
<1>5. CASE ~(o = None \/ (sem[o] = None /\ Waiting(o) = {}))
  <2> DEFINE r == [th[AccSec] EXCEPT !.pc = "swap", !.obj = o]
  <2>1. th' = [th EXCEPT ![AccSec].pc = "swap", ![AccSec].obj = o]
        /\ UNCHANGED <<procs, closed>>
    BY <1>5 DEF ReceiveId
  <2>2. IsThread(th[AccSec]) /\ th = [t \in Threads |-> th[t]] /\ AccSec \in Threads
    BY Zenon DEF Inv, Typed, ThreadsTyped, Threads
  <2>3. r.pc = "swap" /\ r.obj = o /\ r.conn = c
    BY <2>2 DEF IsThread, Fields
  <2>4. th' = [th EXCEPT ![AccSec] = r]
    BY Zenon, <2>1, <2>2 DEF IsThread, Fields
  <2> HIDE DEF r
  <2>5. th'[AccSec] = r /\ \A u \in Threads \ {AccSec} : th'[u] = th[u]
    BY ZenonT(60), <2>4, AcceptorTh DEF Acceptors
  <2>6. th'[AccPri] = th[AccPri]
    BY ZenonT(60), <2>5, SppCtlAssumption DEF Threads
  <2>7. th'[AccSec].conn = th[AccSec].conn /\ th'[AccSec].pc = "swap"
        /\ th'[AccSec].obj[1] = th[AccSec].conn[1]
    BY ZenonT(60), <1>3, <1>5, <2>3, <2>5
  <2> HIDE DEF c, o
  <2>8. Objects'
    BY ZenonT(60), <1>1, <2>1, <2>6, <2>7 DEF RegInv, Objects
  <2>9. \A t \in Reqs : ScanFits(th[t])'
    BY <1>1, <2>5, AcceptorScans DEF Acceptors
  <2>10. Listed'
    BY ZenonT(60), <1>1, <2>1, <2>7 DEF RegInv, Listed, Steady, Waits
  <2> QED
    BY ZenonT(60), <2>8, <2>9, <2>10 DEF RegInv
<1> QED
  BY ZenonT(60), <1>4, <1>5

LEMMA ReplaceSecondaryRegs ==
  ASSUME Inv, RegInv, ReplaceSecondary
  PROVE  RegInv'
<1>1. /\ th[AccSec].pc = "swap" /\ Register(th[AccSec].conn, th[AccSec].obj)
      /\ UNCHANGED <<connOf, backlog, up, made, exited>>
  BY ZenonT(60), SMTT(30) DEF ReplaceSecondary, peers
<1>2. th[AccSec].obj \in Conns /\ Used(th[AccSec].obj)
      /\ th[AccSec].obj[1] = th[AccSec].conn[1]
  BY ZenonT(60), <1>1 DEF Inv, Typed, ThreadsTyped, Used, Acceptors, Threads, RegInv, Objects
<1> QED
  BY ZenonT(60), <1>1, <1>2, RegisterRegs
(* The handshake of a steady secondary does not fail. *)
LEMMA NoIdRegs ==
  ASSUME Inv, RegInv, NoId
  PROVE  RegInv'
<1>1. PICK c : c = th[AccSec].conn
  OBVIOUS
<1>2. /\ Gone(AccSec) /\ th[AccSec].pc = "recv" /\ closed' = closed \cup {c}
      /\ th' = [th EXCEPT ![AccSec] = Idle]
      /\ UNCHANGED <<procs, connOf, backlog, up, made, exited>>
  BY ZenonT(30), <1>1 DEF NoId, Gone, peers
<1>3. /\ c \in Conns /\ c[1] \in Secs /\ c[2] <= made[c[1]]
      /\ Steady(c[1]) => c = <<c[1], 1>>
  BY ZenonT(30), <1>1, <1>2, NewcomerOf
<1>4. ~Alive(c) \/ c \in closed
  BY Zenon, <1>1, <1>2 DEF Gone
<1>5. ~Steady(c[1])
  <2> SUFFICES ASSUME Steady(c[1]) PROVE FALSE
    BY ZenonT(60)
  <2>1. c = <<c[1], 1>> /\ c \notin closed
    BY <1>3 DEF RegInv, Listed
  <2>2. c[2] = 1
    BY <2>1
  <2>3. Alive(c)
    BY <2>2 DEF Alive, Steady
  <2> QED
    BY <1>4, <2>1, <2>3
<1>6. th'[AccSec] = Idle /\ \A u \in Threads \ {AccSec} : th'[u] = th[u]
  BY ZenonT(60), <1>2, AcceptorTh DEF Acceptors
<1>7. th'[AccPri] = th[AccPri] /\ Idle.pc = "idle" /\ Idle.conn = None
  BY ZenonT(60), <1>6, SppCtlAssumption DEF Threads, Idle
<1>8. Objects'
  <2>1. \A d \in closed' : d \in Conns /\ d[2] <= made[d[1]]
    BY ZenonT(60), <1>2, <1>3 DEF RegInv, Objects
  <2> QED
    BY ZenonT(60), <1>2, <1>6, <1>7, <2>1 DEF RegInv, Objects
<1>9. \A t \in Reqs : ScanFits(th[t])'
  BY <1>2, <1>6, AcceptorScans DEF Acceptors
<1>10. \A i \in Secs : Steady(i) => c # <<i, 1>>
  BY SMTT(30), <1>5
<1>11. Listed'
  BY ZenonT(60), <1>1, <1>2, <1>10 DEF RegInv, Listed, Steady, Waits
<1> QED
  BY <1>8, <1>9, <1>11 DEF RegInv

LEMMA AcceptSecondaryRegs ==
  ASSUME Inv, RegInv, AcceptSecondary
  PROVE  RegInv'
<1>1. PICK b, c : b = backlog[AccSec] /\ c = Head(b)
  OBVIOUS
<1> DEFINE r == [Idle EXCEPT !.pc = "recv", !.op = "id", !.conn = c]
<1>2. /\ th[AccSec].pc = "idle" /\ b # <<>> /\ th' = [th EXCEPT ![AccSec] = r]
      /\ backlog' = [backlog EXCEPT ![AccSec] = Tail(b)]
      /\ UNCHANGED <<procs, connOf, closed, up, made, exited>>
  BY <1>1 DEF AcceptSecondary
<1>3. r.pc = "recv" /\ r.conn = c
  BY DEF Idle
<1>4. b \in Seq(Conns) /\ backlog'[AccSec] = Tail(b)
  BY <1>1, <1>2 DEF Inv, Typed, Acceptors
<1> HIDE DEF r
<1>5. th'[AccSec] = r /\ \A u \in Threads \ {AccSec} : th'[u] = th[u]
  BY ZenonT(60), <1>2, AcceptorTh DEF Acceptors
<1>6. th'[AccPri] = th[AccPri]
  BY ZenonT(60), <1>5, SppCtlAssumption DEF Threads
<1>7. Objects'
  BY ZenonT(60), <1>2, <1>3, <1>5, <1>6 DEF RegInv, Objects
<1>8. \A t \in Reqs : ScanFits(th[t])'
  BY <1>2, <1>5, AcceptorScans DEF Acceptors
<1>9. \A d : Waits(d) => Waits(d)' \/ d = c
  <2>1. Head(b) = b[1] /\ \A k \in DOMAIN b : k # 1 =>
          k - 1 \in DOMAIN Tail(b) /\ Tail(b)[k - 1] = b[k]
    BY <1>2, <1>4, TailOf
  <2> QED
    BY ZenonT(60), <1>1, <1>4, <2>1 DEF Waits
<1>10. \A i \in Secs : th[AccSec].conn # <<i, 1>>
  BY ZenonT(60), <1>2, FirstConn DEF RegInv, Objects
<1>11. Listed'
  BY ZenonT(60), <1>2, <1>3, <1>5, <1>9, <1>10 DEF RegInv, Listed, Steady
<1> QED
  BY <1>7, <1>8, <1>11 DEF RegInv

LEMMA InitRegInv ==
  ASSUME Init
  PROVE  RegInv
<1>1. \A t \in Threads : th[t] = Idle
  BY DEF Init
<1>2. Objects
  BY ZenonT(60), <1>1, SppCtlAssumption DEF Init, Objects, Threads, Idle
<1>3. \A t \in Reqs : ScanFits(th[t])
  BY ZenonT(60), <1>1, IdleFits DEF Threads
<1>4. Listed
  BY ZenonT(60) DEF Init, Listed, Steady
<1> QED
  BY ZenonT(60), <1>2, <1>3, <1>4 DEF RegInv

LEMMA NextRegInv ==
  ASSUME Inv, RegInv, [Next]_vars
  PROVE  RegInv'
<1>1. CASE UNCHANGED vars
  BY ZenonT(60), <1>1, PeerRegs DEF vars
<1>2. ASSUME NEW i \in Ids, Connect(i) \/ Disconnect(i) \/ Serve(i)
      PROVE  RegInv'
  <2>1. CASE Disconnect(i)
    BY ZenonT(60), <2>1, PeerRegs DEF Disconnect
  <2>2. CASE Serve(i)
    BY ZenonT(60), <2>2, PeerRegs DEF Serve
  <2> QED
    BY ZenonT(60), <1>2, <2>1, <2>2, ConnectRegs
<1>3. CASE \E t \in Reqs : Request(t) \/ Proceed(t)
  BY <1>3, BeginRegs, ProceedRegs
<1>4. CASE accept_primary
  BY <1>4, AcceptPrimaryRegs, SwapPrimaryRegs DEF accept_primary
<1>5. CASE accept_secondary
  BY <1>5, AcceptSecondaryRegs, ReceiveIdRegs, NoIdRegs, ReplaceSecondaryRegs
  DEF accept_secondary
<1> QED
  BY ZenonT(60), <1>1, <1>2, <1>3, <1>4, <1>5 DEF Next

(* A secondary that never lost its connection and was never told to exit    *)
(* stays in the registry of spp-ctl from the end of its handshake on,       *)
(* whatever status scans, exits and reconnections of others interleave.     *)
THEOREM SteadyStaysListedAlways == Spec => []SteadyStaysListed
<1>1. Init => Inv /\ RegInv
  BY InitInv, InitRegInv
<1>2. Inv /\ RegInv /\ [Next]_vars => Inv' /\ RegInv'
  BY NextInv, NextRegInv
<1>3. RegInv => SteadyStaysListed
  BY Zenon DEF RegInv, Listed, Steady, Waits, SteadyStaysListed, Alive
<1> QED
  BY <1>1, <1>2, <1>3, PTL DEF Spec
=============================================================================
